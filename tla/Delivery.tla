------------------------------ MODULE Delivery ------------------------------
(***************************************************************************)
(* Mailing the letters of an approved run.  Every letter is one Attempt of *)
(* src/internal/store/annual_statement_delivery.go: a short transaction    *)
(* reserves the recipient, the mail leaves outside any transaction, and a  *)
(* second short transaction records the outcome.  Requests overlap, the    *)
(* client may go away and the process may die at any of these points.      *)
(***************************************************************************)
EXTENDS Naturals, Sequences, FiniteSets

CONSTANTS
    Requests,       \* handlers that may run at the same time
    NLetters,       \* the letters of the run, in the order of the loop
    Keys,           \* unit and party: what a reservation excludes
    KeyOf,          \* per letter, its key
    TTL,            \* AnnualStatementDeliveryPendingTTL, in ticks
    Window,         \* lifetime of recordCtx, in ticks
    SendMax,        \* the mailer's deadlines and the archive read, in ticks
    MaxAttempts     \* bound: rows per key

Letters == 1..NLetters

\* "It exceeds the mailer's connect and transaction timeouts plus the archive
\* read": two minutes against twenty seconds, and against recordCtx's thirty.
ASSUME DeliveryAssumption ==
    /\ IsFiniteSet(Requests)
    /\ NLetters \in Nat \ {0}
    /\ KeyOf \in [Letters -> Keys]
    /\ TTL \in Nat /\ Window \in Nat /\ SendMax \in Nat
    /\ SendMax < TTL
    /\ Window < TTL
    /\ MaxAttempts \in Nat \ {0}

VARIABLES
    rows,       \* per key, the stored attempts
    req,        \* per request, where its loop is
    mails,      \* per letter, how often the relay accepted it
    lost        \* per letter, acceptances nobody recorded

vars == <<rows, req, mails, lost>>

Row == [status : {"pending", "sent", "failed"}, age : 0..TTL]
Idle == [stage |-> "idle", at |-> 1, mine |-> 0, clock |-> 0, gone |-> FALSE,
         result |-> "failed"]

Init ==
    /\ rows = [k \in Keys |-> <<>>]
    /\ req = [r \in Requests |-> Idle]
    /\ mails = [l \in Letters |-> 0]
    /\ lost = [l \in Letters |-> 0]

At(r, stage) == req[r].stage = stage
Key(r) == KeyOf[req[r].at]
Mine(r) == rows[Key(r)][req[r].mine]
Move(r, stage) == req' = [req EXCEPT ![r].stage = stage]
Leave(r) == req' = [req EXCEPT ![r] = Idle]

HasSent(k) == \E n \in DOMAIN rows[k] : rows[k][n].status = "sent"
\* Mutant: the age alone decides, never the two minutes.
FreshNever(row) == FALSE

Fresh(row) == row.status = "pending" /\ row.age < TTL
HasLive(k) == \E n \in DOMAIN rows[k] : Fresh(rows[k][n])

-----------------------------------------------------------------------------
(* The loop over the letters.                                              *)

Start(r) ==
    /\ At(r, "idle")
    /\ Move(r, "next")
    /\ UNCHANGED <<rows, mails, lost>>

\* The client disconnects: r.Context() is cancelled.
Disconnect(r) ==
    /\ ~At(r, "idle")
    /\ ~req[r].gone
    /\ req' = [req EXCEPT ![r].gone = TRUE]
    /\ UNCHANGED <<rows, mails, lost>>

\* Attempt begins: recordCtx starts to run before the reservation.
Begin(r) ==
    /\ At(r, "next")
    /\ ~req[r].gone
    /\ req' = [req EXCEPT ![r].stage = "reserving", ![r].clock = 0]
    /\ UNCHANGED <<rows, mails, lost>>

\* The client is gone, or an error comes before the reservation.
Decline(r) ==
    /\ At(r, "next")
    /\ Leave(r)
    /\ UNCHANGED <<rows, mails, lost>>

Advance(r) ==
    req' = [req EXCEPT ![r] =
        IF @.at < NLetters
        THEN [Idle EXCEPT !.stage = "next", !.at = req[r].at + 1,
                          !.gone = req[r].gone]
        ELSE [@ EXCEPT !.stage = "complete"]]

\* The redirect with the counts.
Finish(r) ==
    /\ At(r, "complete")
    /\ Leave(r)
    /\ UNCHANGED <<rows, mails, lost>>

-----------------------------------------------------------------------------
(* reserve: one transaction.                                               *)

Interrupt(row) == IF row.status = "pending"
                  THEN [status |-> "failed", age |-> 0]
                  ELSE row

\* What stays when every abandoned reservation is finalized, and the new row.
Reserved(k) == Append([n \in DOMAIN rows[k] |-> Interrupt(rows[k][n])],
                      [status |-> "pending", age |-> 0])

\* Mutant: only one of the two refusals is left.
FreeUnlessLive(k) == ~HasLive(k)

\* A key that has been delivered or is being delivered is not reserved again.
Free(k) == ~HasSent(k) /\ ~HasLive(k)

Reserve(r) ==
    /\ At(r, "reserving")
    /\ req[r].clock <= Window
    /\ Free(Key(r))
    /\ Len(rows[Key(r)]) < MaxAttempts
    /\ rows' = [rows EXCEPT ![Key(r)] = Reserved(Key(r))]
    /\ req' = [req EXCEPT ![r].stage = "reserved",
                          ![r].mine = Len(rows[Key(r)]) + 1]
    /\ UNCHANGED <<mails, lost>>

\* Mutant: the loop comes back to the letter it skipped.
SkipStays(r) ==
    /\ At(r, "reserving")
    /\ HasSent(Key(r))
    /\ Move(r, "next")
    /\ UNCHANGED <<rows, mails, lost>>

Skip(r) ==
    /\ At(r, "reserving")
    /\ req[r].clock <= Window
    /\ HasSent(Key(r))
    /\ Advance(r)
    /\ UNCHANGED <<rows, mails, lost>>

\* ErrDeliveryInProgress, an expired recordCtx or any error of the database
\* ends the whole request.
Refuse(r) ==
    /\ At(r, "reserving")
    /\ Leave(r)
    /\ UNCHANGED <<rows, mails, lost>>

-----------------------------------------------------------------------------
(* The mail exchange, outside any transaction.                             *)

Settle(r, result) ==
    req' = [req EXCEPT ![r].stage = "recording", ![r].result = result]

\* A client that has gone by now aborts the request, once that is recorded.
Send(r) ==
    /\ At(r, "reserved")
    /\ IF req[r].gone THEN Settle(r, "aborted") ELSE Move(r, "sending")
    /\ UNCHANGED <<rows, mails, lost>>

\* The relay takes the letter.  The acknowledgement may still be lost to a
\* deadline or to the client's going away, and then the send has failed.
Accept(r, acknowledged) ==
    /\ At(r, "sending")
    /\ mails' = [mails EXCEPT ![req[r].at] = @ + 1]
    /\ IF acknowledged
       THEN Settle(r, "sent") /\ UNCHANGED lost
       ELSE /\ Settle(r, "failed")
            /\ lost' = [lost EXCEPT ![req[r].at] = @ + 1]
    /\ UNCHANGED rows

\* No valid address, a damaged archive file, a refusal or a timeout.
SendFails(r) ==
    /\ At(r, "sending")
    /\ Settle(r, "failed")
    /\ UNCHANGED <<rows, mails, lost>>

-----------------------------------------------------------------------------
(* record: the second transaction.  A row that is no longer pending keeps  *)
(* its verdict.                                                            *)

\* Mutant: whatever the send returned, it was sent.
VerdictAlwaysSent(row, result) == [status |-> "sent", age |-> 0]

Verdict(row, result) ==
    IF row.status = "pending"
    THEN [status |-> IF result = "sent" THEN "sent" ELSE "failed", age |-> 0]
    ELSE row

Record(r) ==
    /\ At(r, "recording")
    /\ req[r].clock <= Window
    /\ rows' = [rows EXCEPT ![Key(r)][req[r].mine] = Verdict(@, req[r].result)]
    /\ IF req[r].result = "aborted" THEN Leave(r) ELSE Advance(r)
    /\ UNCHANGED <<mails, lost>>

\* The acceptances of these requests will never be recorded.
Unrecorded(S) ==
    [l \in Letters |-> lost[l] +
        Cardinality({r \in S : At(r, "recording") /\ req[r].result = "sent"
                                                  /\ req[r].at = l})]

RecordFails(r) ==
    /\ At(r, "recording")
    /\ lost' = Unrecorded({r})
    /\ Leave(r)
    /\ UNCHANGED <<rows, mails>>

-----------------------------------------------------------------------------
\* The process dies; the rows stay as they are.
Crash ==
    /\ \E r \in Requests : ~At(r, "idle")
    /\ lost' = Unrecorded(Requests)
    /\ req' = [r \in Requests |-> Idle]
    /\ UNCHANGED <<rows, mails>>

Exchanging(r) == req[r].stage \in {"reserved", "sending"}

Older(row) == IF row.status = "pending" /\ row.age < TTL
              THEN [row EXCEPT !.age = @ + 1]
              ELSE row

Timed(q) == q.stage \in {"reserving", "reserved", "sending", "recording"}

\* No exchange outlives the mailer's deadlines.
Tick ==
    /\ \A r \in Requests : Exchanging(r) => Mine(r).age < SendMax
    /\ rows' = [k \in Keys |-> [n \in DOMAIN rows[k] |-> Older(rows[k][n])]]
    /\ req' = [r \in Requests |->
                  IF Timed(req[r]) /\ req[r].clock <= Window
                  THEN [req[r] EXCEPT !.clock = @ + 1]
                  ELSE req[r]]
    /\ UNCHANGED <<mails, lost>>

\* What the handler itself does next.
Handler(r) ==
    \/ Begin(r) \/ Decline(r) \/ Finish(r)
    \/ Reserve(r) \/ Skip(r) \/ Refuse(r)
    \/ Send(r) \/ SendFails(r)
    \/ \E acknowledged \in BOOLEAN : Accept(r, acknowledged)
    \/ Record(r) \/ RecordFails(r)

Next ==
    \/ \E r \in Requests :
        Start(r) \/ Disconnect(r) \/ Handler(r)
    \/ Crash
    \/ Tick

Spec == Init /\ [][Next]_vars

\* A handler keeps running; the mailer's deadlines end every exchange.
FairSpec == Spec /\ \A r \in Requests : WF_vars(Handler(r))

-----------------------------------------------------------------------------
Requesting == [stage : {"idle", "next", "reserving", "reserved", "sending",
                        "recording", "complete"},
               at : Letters, mine : Nat, clock : 0..(Window + 1),
               gone : BOOLEAN, result : {"sent", "failed", "aborted"}]

\* The tables stay tables, and no key collects more attempts than the bound.
TypeOK ==
    /\ rows \in [Keys -> Seq(Row)]
    /\ req \in [Requests -> Requesting]
    /\ mails \in [Letters -> Nat]
    /\ lost \in [Letters -> Nat]
    /\ \A k \in Keys : Len(rows[k]) <= MaxAttempts

\* Between its reservation and the end of its record window a request holds
\* its key.
Holding(r) ==
    \/ Exchanging(r)
    \/ At(r, "recording") /\ req[r].clock <= Window

\* "a live send is never taken over": two requests never hold one key, and the
\* row a holder is going to finalize is still pending, so its verdict is the
\* one that gets stored.
Exclusive ==
    /\ \A r, s \in Requests :
        Holding(r) /\ Holding(s) /\ Key(r) = Key(s) => r = s
    /\ \A r \in Requests :
        Holding(r) => /\ req[r].mine \in DOMAIN rows[Key(r)]
                      /\ Mine(r).status = "pending"

\* The partial unique index over the sent rows never has to refuse anything,
\* and a reservation that was given up is never the last word beside a sent
\* row: whatever happened, the sent row is the last of its key, and the relay
\* did accept a letter of that key.
SentOnce ==
    \A k \in Keys :
        /\ \A n \in DOMAIN rows[k] :
               rows[k][n].status # "failed" => n = Len(rows[k])
        /\ HasSent(k) => \E l \in Letters : KeyOf[l] = k /\ mails[l] > 0

\* A second copy of a letter needs an acceptance that is never recorded: a
\* crash, a failed record, an expired record window or a lost acknowledgement
\* for each.
CopiesExplained ==
    LET Late == {r \in Requests : ~Holding(r)}
    IN  \A l \in Letters : mails[l] <= Unrecorded(Late)[l] + 1

\* A letter of a key that has a sent row never goes out again.
SentIsFinal ==
    [][\A l \in Letters : HasSent(KeyOf[l]) => mails'[l] = mails[l]]_vars

\* Every request to send comes to an end, whatever the other requests do.
RequestEnds == \A r \in Requests : []<>At(r, "idle")

=============================================================================
