----------------------------- MODULE HomeConnector -----------------------------
(***************************************************************************)
(* Pairing a house with its local connector, its heartbeats and what is    *)
(* stored of them (src/internal/store/home_connector.go,                   *)
(* src/internal/server/home_connector.go, help.go).  The handlers take no  *)
(* lock: each statement is atomic, and others run between two statements.  *)
(***************************************************************************)
EXTENDS Naturals

CONSTANTS
    Requests,   \* requests running at a time
    Codes,      \* bound: pairing codes handed out, 1 .. Codes
    Creds       \* bound: credentials drawn, 1 .. Creds

VARIABLES
    connector,  \* the row: status, credential, code (0: NULL)
    fresh,      \* the code's fifteen minutes are not over
    codes,      \* pairing codes handed out
    drawn,      \* credentials drawn
    granted,    \* the credentials a connector has been given
    readings,   \* the stored readings, by the credential that delivered them
    home,       \* the energy profile: "unclaimed", "claimed" or "mapped"
    request,    \* per request: step, code, credential
    redeemed,   \* history: credentials made of each code
    left        \* history: readings stored too late, or left behind by a failure

vars == <<connector, fresh, codes, drawn, granted, readings, home, request, redeemed, left>>

Places == {"idle", "exchange", "reset", "first", "undo", "select", "unmap",
           "beat", "clear", "erase"}
Quiet == [at |-> "idle", code |-> 0, cred |-> 0]

TypeOK ==
    /\ connector \in [status : {"none", "pairing", "connected", "revoked"},
                      code : 0 .. Codes, cred : 0 .. Creds]
    /\ fresh \in BOOLEAN
    /\ codes \in 0 .. Codes /\ drawn \in 0 .. Creds
    /\ granted \subseteq 1 .. Creds
    /\ readings \subseteq 1 .. Creds /\ left \subseteq 1 .. Creds
    /\ home \in {"unclaimed", "claimed", "mapped"}
    /\ request \in [Requests -> [at : Places, code : 0 .. Codes, cred : 0 .. Creds]]
    /\ redeemed \in [1 .. Codes -> 0 .. Creds]

Init ==
    /\ connector = [status |-> "none", code |-> 0, cred |-> 0]
    /\ fresh = FALSE
    /\ codes = 0 /\ drawn = 0 /\ granted = {}
    /\ readings = {} /\ left = {}
    /\ home \in {"unclaimed", "claimed"}
    /\ request = [r \in Requests |-> Quiet]
    /\ redeemed = [k \in 1 .. Codes |-> 0]

At(r, place) == request[r].at = place
Goto(r, place) == request' = [request EXCEPT ![r].at = place]
Return(r) == request' = [request EXCEPT ![r] = Quiet]
pairing == <<connector, fresh, codes, drawn, granted, redeemed>>
stored == <<readings, left>>

\* Clear and Upsert of the readings' store.
Clear == readings' = {} /\ left' = {}
Upsert(c) ==
    /\ readings' = readings \cup {c}
    /\ left' = IF connector.cred = c THEN left ELSE left \cup {c}
-------------------------------------------------------------------------------
(* Pairing.                                                                 *)

\* A connected house keeps its credential while a new code is out.
StartPairing ==
    /\ codes < Codes
    /\ codes' = codes + 1 /\ fresh' = TRUE
    /\ connector' = [connector EXCEPT
           !.code = codes + 1,
           !.status = IF connector.cred = 0 THEN "pairing" ELSE @]
    /\ UNCHANGED <<drawn, granted, redeemed, stored, home, request>>

CodeExpires ==
    /\ fresh /\ fresh' = FALSE
    /\ UNCHANGED <<connector, codes, drawn, granted, redeemed, stored, home, request>>

\* ExchangePairing finds the row by its code; the credential is drawn before.
FindCode(r, k) ==
    /\ At(r, "idle") /\ connector.code = k /\ fresh
    /\ drawn < Creds /\ drawn' = drawn + 1
    /\ request' = [request EXCEPT ![r] = [at |-> "exchange", code |-> k, cred |-> drawn + 1]]
    /\ UNCHANGED <<connector, fresh, codes, granted, redeemed, stored, home>>

\* Mutant: the update trusts the row that was found.
StillThereAlways(r) == TRUE

\* UPDATE ... WHERE slug AND pairing_hash: a code that is used up matches no row.
StillThere(r) == connector.code = request[r].code

Exchange(r) ==
    /\ At(r, "exchange")
    /\ IF StillThere(r)
       THEN /\ connector' = [status |-> "connected", code |-> 0, cred |-> request[r].cred]
            /\ redeemed' = [redeemed EXCEPT ![request[r].code] = @ + 1]
            /\ Goto(r, "reset")
       ELSE Return(r) /\ UNCHANGED <<connector, redeemed>>
    /\ UNCHANGED <<fresh, codes, drawn, granted, stored, home>>

\* Mutant: the readings of the former connector stay.
ResetKept == UNCHANGED stored

\* persistHomeConnectorReadings with replace: the store is emptied first.
Reset == Clear

ResetReadings(r) ==
    /\ At(r, "reset") /\ Reset /\ Goto(r, "first")
    /\ UNCHANGED <<pairing, home>>

\* The first readings are stored and the credential goes to the connector.
FirstReadings(r) ==
    /\ At(r, "first") /\ Upsert(request[r].cred)
    /\ granted' = granted \cup {request[r].cred}
    /\ Return(r)
    /\ UNCHANGED <<connector, fresh, codes, drawn, redeemed, home>>

PersistFails(r) ==
    /\ At(r, "reset") \/ At(r, "first")
    /\ Goto(r, "undo")
    /\ UNCHANGED <<pairing, stored, home>>

Revoked == [status |-> "revoked", code |-> 0, cred |-> 0]

\* A pairing that cannot store its readings is revoked, whoever is paired now.
UndoPairing(r) ==
    /\ At(r, "undo") /\ connector' = Revoked /\ fresh' = FALSE /\ Return(r)
    /\ left' = left \cup readings
    /\ UNCHANGED <<codes, drawn, granted, redeemed, readings, home>>
-------------------------------------------------------------------------------
(* Heartbeats, revocation, and the deletion of the energy profile.          *)

\* UPDATE ... WHERE status AND credential_hash.
Heartbeat(r, c) ==
    /\ At(r, "idle") /\ c \in granted
    /\ connector.status = "connected" /\ connector.cred = c
    /\ request' = [request EXCEPT ![r] = [Quiet EXCEPT !.at = "select", !.cred = c]]
    /\ UNCHANGED <<pairing, stored, home>>

\* Only an unclaimed home without mapping is offered no catalogue.
Select(r) ==
    /\ At(r, "select")
    /\ Goto(r, IF home = "unclaimed" THEN "unmap" ELSE "beat")
    /\ UNCHANGED <<pairing, stored, home>>

\* The empty Upsert after it changes nothing.
ClearUnmapped(r) ==
    /\ At(r, "unmap") /\ Clear /\ Return(r)
    /\ UNCHANGED <<pairing, home>>

StoreReadings(r) ==
    /\ At(r, "beat") /\ Upsert(request[r].cred) /\ Return(r)
    /\ UNCHANGED <<pairing, home>>

Revoke(r) ==
    /\ At(r, "idle") /\ connector.status # "none"
    /\ connector' = Revoked /\ fresh' = FALSE
    /\ Goto(r, "clear")
    /\ UNCHANGED <<codes, drawn, granted, redeemed, stored, home>>

ClearRevoked(r) ==
    /\ At(r, "clear") /\ Clear /\ Return(r)
    /\ UNCHANGED <<pairing, home>>

\* deleteEnergyProfile empties the readings, then the profile.
EraseReadings(r) ==
    /\ At(r, "idle") /\ home # "unclaimed" /\ \A s \in Requests : ~At(s, "erase")
    /\ Clear /\ Goto(r, "erase")
    /\ UNCHANGED <<pairing, home>>

EraseProfile(r) ==
    /\ At(r, "erase") /\ home' = "unclaimed" /\ Return(r)
    /\ UNCHANGED <<pairing, stored>>

\* The lifecycle lock keeps the household from changing during its deletion.
ChangeHome ==
    /\ \A r \in Requests : ~At(r, "erase")
    /\ home' \in {"claimed", "mapped"}
    /\ UNCHANGED <<pairing, stored, request>>

\* Somebody has yet to empty the readings of a connection that is over.
Emptying(r) == At(r, "clear") \/ At(r, "reset") \/ At(r, "undo")

\* A statement fails or the process stops: what is done stays done.
Fail(r) ==
    /\ ~At(r, "idle")
    /\ left' = IF Emptying(r) THEN left \cup readings ELSE left
    /\ Return(r)
    /\ UNCHANGED <<pairing, readings, home>>

Next ==
    \/ StartPairing \/ CodeExpires \/ ChangeHome
    \/ \E r \in Requests :
          \/ \E k \in 1 .. Codes : FindCode(r, k)
          \/ Exchange(r) \/ ResetReadings(r) \/ FirstReadings(r) \/ PersistFails(r) \/ UndoPairing(r)
          \/ \E c \in 1 .. Creds : Heartbeat(r, c)
          \/ Select(r) \/ ClearUnmapped(r) \/ StoreReadings(r)
          \/ Revoke(r) \/ ClearRevoked(r) \/ EraseReadings(r) \/ EraseProfile(r) \/ Fail(r)

Spec == Init /\ [][Next]_vars
-------------------------------------------------------------------------------
(* Properties.                                                              *)

\* A pairing code makes one credential, however many requests present it at
\* the same time (ExchangePairing).
CodeOnce == \A k \in 1 .. Codes : redeemed[k] <= 1

\* The stored readings come from the connector that is paired now.  What an
\* earlier one delivered is gone, unless a heartbeat that had been accepted
\* before the exchange or the revocation stored it afterwards, or emptying the
\* store failed (persistHomeConnectorReadings, revokeHomeConnector).
ReadingsOwned ==
    \A c \in readings :
        connector.cred = c \/ c \in left \/ \E r \in Requests : Emptying(r)

===============================================================================
