----------------------------- MODULE LetterRun -----------------------------
(***************************************************************************)
(* The rent adjustment run of src/internal/store/valorisation_sql.go: it   *)
(* is approved once, its letters go out with the reservations of Delivery  *)
(* (valorisation_delivery.go, which locks the run first), and it may be    *)
(* cancelled in between.                                                   *)
(***************************************************************************)
EXTENDS Delivery

CONSTANT Heads      \* letters that are the first of their item

ASSUME HeadsAssumption == Heads \subseteq Letters

VARIABLES
    status,     \* valorisation_runs.status
    receipts    \* keys whose sent row has a received_on

run == <<status, receipts>>
all == <<vars, run>>

LetterInit ==
    /\ Init
    /\ status = "draft"
    /\ receipts = {}

Pending(k) == \E n \in DOMAIN rows[k] : rows[k][n].status = "pending"

-----------------------------------------------------------------------------
(* The run.                                                                *)

Approve ==
    /\ status = "draft"
    /\ status' = "approved"
    /\ UNCHANGED <<vars, receipts>>

\* Mutant: a delivery in progress does not hold the cancellation up.
CancellingAnyway == "cancelled"

\* The update of the status, the count of the pending rows and the event are
\* one transaction: a pending row rolls the cancellation back and the caller
\* is told that a delivery is in progress.
Cancelling ==
    IF \E k \in Keys : Pending(k) THEN status ELSE "cancelled"

\* Draft, approved and sent runs can be cancelled; a cancelled one is a conflict.
Cancel ==
    /\ status' = Cancelling
    /\ UNCHANGED <<vars, receipts>>

\* Mutant: one recipient decides for all.
CompleteAny == \E l \in Letters : HasSent(KeyOf[l])

\* Every letter of the run has a sent row for its unit and its recipient.
Complete == \A l \in Letters : HasSent(KeyOf[l])

\* FinishSend; a run that is no longer approved is a conflict.
FinishSend(r) ==
    /\ Finish(r)
    /\ status' = IF status = "approved" /\ Complete THEN "sent" ELSE status
    /\ UNCHANGED receipts

FinishFails(r) == Finish(r) /\ UNCHANGED run

\* RecordReceipt of a sent row.
Receipt(k) ==
    /\ status \in {"approved", "sent"}
    /\ HasSent(k)
    /\ receipts' = receipts \cup {k}
    /\ UNCHANGED <<vars, status>>

-----------------------------------------------------------------------------
(* The request that sends.                                                 *)

\* sendValorisation answers at once unless the run it reads is approved.
StartSend(r) ==
    /\ status = "approved"
    /\ Start(r)
    /\ UNCHANGED run

\* PrepareLetter archives the letter of an item anew; it locks the run.
BeginLetter(r) ==
    /\ req[r].at \in Heads => status = "approved"
    /\ Begin(r)
    /\ UNCHANGED run

\* An error of PrepareLetter or of Attempt's first checks ends the request.
DeclineLetter(r) == (Decline(r) \/ Refuse(r)) /\ UNCHANGED run

\* Mutant: the reservation does not look at the run.
OpenAlways == TRUE

\* reserve locks the run before anything else.
Open == status = "approved"

ReserveLetter(r) ==
    /\ Open
    /\ Reserve(r)
    /\ UNCHANGED run

SkipLetter(r) ==
    /\ Open
    /\ Skip(r)
    /\ UNCHANGED run

Exchange(r) ==
    /\ \/ Send(r) \/ SendFails(r)
       \/ \E acknowledged \in BOOLEAN : Accept(r, acknowledged)
    /\ UNCHANGED run

RecordLetter(r) == (Record(r) \/ RecordFails(r)) /\ UNCHANGED run

\* The client, the process and the clock do not touch the run.
Surroundings ==
    /\ (\E r \in Requests : Disconnect(r)) \/ Crash \/ Tick
    /\ UNCHANGED run

LetterNext ==
    \/ Approve \/ Cancel
    \/ \E k \in Keys : Receipt(k)
    \/ \E r \in Requests :
        \/ StartSend(r) \/ BeginLetter(r) \/ DeclineLetter(r)
        \/ ReserveLetter(r) \/ SkipLetter(r)
        \/ Exchange(r) \/ RecordLetter(r)
        \/ FinishSend(r) \/ FinishFails(r)
    \/ Surroundings

LetterSpec == LetterInit /\ [][LetterNext]_all

-----------------------------------------------------------------------------
\* The run's own columns, beside the tables of Delivery.
LetterTypeOK ==
    /\ TypeOK
    /\ status \in {"draft", "approved", "sent", "cancelled"}
    /\ receipts \subseteq Keys

\* A cancelled or completed run has no reservation left, and no request that
\* could still hand a letter to the relay or change a row, though requests that
\* began before it was closed may run on: Cancel and FinishSend look at the rows
\* alone, never at who is sending (valorisation_sql.go:477-513, 557-600).
ClosedIsSettled ==
    status \in {"sent", "cancelled"} =>
        /\ \A k \in Keys : ~Pending(k)
        /\ \A r \in Requests : ~Holding(r)

\* After its cancellation no letter of a run leaves, although requests that
\* send it are still running.
CancelStopsLetters == [][status = "cancelled" => mails' = mails]_all

\* A run that says sent has a sent row for every letter, and keeps it.
SentRunIsComplete == status = "sent" => \A l \in Letters : HasSent(KeyOf[l])

\* A receipt confirms a letter the relay has accepted, and no later attempt
\* puts another letter beside it.
ReceiptStands ==
    [][\A k \in receipts : rows'[k] = rows[k] /\ HasSent(k)]_all

\* The page calls a sent run "Versandt" (valorisation.templ:103): each of its
\* letters has been accepted by the relay.
SentRunMailedAll == status = "sent" => \A l \in Letters : mails[l] > 0

=============================================================================
