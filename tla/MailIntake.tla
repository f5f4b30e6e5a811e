------------------------------ MODULE MailIntake ------------------------------
(***************************************************************************)
(* The mail intake of one organisation: a poll fetches the unread mails of *)
(* an IMAP folder, files each as an intake item or as a comment on the     *)
(* case it answers, records its key in the ledger, and flags the recorded  *)
(* ones read at the end (src/internal/server/mail_intake.go).  Polls of    *)
(* one organisation pass a one-slot gate.  The process may stop between    *)
(* any two steps; the demo reset empties items and ledger at any moment.   *)
(***************************************************************************)
EXTENDS Naturals, FiniteSets

CONSTANTS
    Mails,      \* how many mails arrive; a mail is its UID, in arrival order
    KeyOf,      \* DedupeKey of each: two copies of a mail share their key
    Answers,    \* the mails whose subject names a case that became an issue
    Broken,     \* the mails mailintake.Parse refuses
    Pollers,    \* startup hook and manual polls running at a time
    Batch,      \* mailIntakeBatch, the most one poll takes
    Cuts,       \* bound: polls cut off between filing and recording a mail
    Resets,     \* bound: demo resets
    Refills,    \* bound: mailboxes that come back with every mail unread
    None        \* no poller

Uids == 1 .. Mails
Keys == {KeyOf[u] : u \in Uids}

ASSUME MailAssumption ==
    /\ Mails \in Nat
    /\ Batch \in Nat \ {0}
    /\ Cuts \in Nat
    /\ Resets \in Nat
    /\ Refills \in Nat
    /\ None \notin Pollers

VARIABLES
    arrived,    \* UIDs 1 .. arrived are in the folder
    unread,     \* those without the \Seen flag
    copies,     \* per key, the items and comments in the store
    ledger,     \* intake_mail_seen
    gate,       \* mailIntakeState.polls: who holds the slot
    poll,       \* per poller: step, mails left, mails done, is the item there
    cuts,       \* crashes, failed Record calls, and items in the store that
                \* could not be read again after a failed triage
    resets, refills

vars == <<arrived, unread, copies, ledger, gate, poll, cuts, resets, refills>>
server == <<arrived, unread, refills>>
store == <<copies, ledger, resets>>

Steps == {"idle", "fetch", "next", "file", "triage", "record"}
Idle == [at |-> "idle", todo |-> {}, done |-> {}, kept |-> FALSE]

First(S) == CHOOSE u \in S : \A v \in S : u <= v

\* Unread, cut to the batch.
Oldest(S) == {u \in S : Cardinality({v \in S : v < u}) < Batch}

TypeOK ==
    /\ arrived \in 0 .. Mails
    /\ unread \subseteq 1 .. arrived
    /\ copies \in [Keys -> Nat]
    /\ ledger \subseteq Keys
    /\ gate \in Pollers \cup {None}
    /\ poll \in [Pollers -> [at : Steps, todo : SUBSET Uids,
                             done : SUBSET Uids, kept : BOOLEAN]]
    /\ cuts \in 0 .. Cuts
    /\ resets \in 0 .. Resets
    /\ refills \in 0 .. Refills

Init ==
    /\ arrived = 0
    /\ unread = {}
    /\ copies = [k \in Keys |-> 0]
    /\ ledger = {}
    /\ gate = None
    /\ poll = [p \in Pollers |-> Idle]
    /\ cuts = 0
    /\ resets = 0
    /\ refills = 0

-----------------------------------------------------------------------------
(* A poll.                                                                 *)

\* Mutant: polls of one organisation overlap.
NoGate == TRUE

Free == gate = None

\* lockPoll; a poll whose context ends while it waits does nothing.
Lock(p) ==
    /\ poll[p].at = "idle"
    /\ Free
    /\ gate' = p
    /\ poll' = [poll EXCEPT ![p].at = "fetch"]
    /\ UNCHANGED <<server, store, cuts>>

\* Every return of pollMailIntakeOnce runs the deferred unlock.
Return(p) ==
    /\ gate' = IF gate = p THEN None ELSE gate
    /\ poll' = [poll EXCEPT ![p] = Idle]

\* A fetched batch with one mail Parse refuses is an error as a whole.
Readable(fetched) == fetched \cap Broken = {}

Fetch(p) ==
    LET fetched == Oldest(unread) IN
    /\ poll[p].at = "fetch"
    /\ Readable(fetched)
    /\ poll' = [poll EXCEPT ![p].at = "next", ![p].todo = fetched]
    /\ UNCHANGED <<server, store, gate, cuts>>

\* No password, no connection, or a mail of the batch that does not parse.
FetchFails(p) ==
    /\ poll[p].at = "fetch"
    /\ Return(p)
    /\ UNCHANGED <<server, store, cuts>>

\* Mutant: the server's flag stands in for the ledger.
KnownByFlag(u) == u \notin unread

\* Seen.
Known(u) == KeyOf[u] \in ledger

\* Mutant: a stored mail is passed over without being flagged read.
TakenUnflagged(progress) ==
    [progress EXCEPT !.at = "next", !.todo = @ \ {First(@)}, !.kept = FALSE]

\* The mail is stored: on with the next one, and it may be flagged read.
Taken(progress) ==
    [progress EXCEPT !.at = "next", !.todo = @ \ {First(@)},
                     !.done = @ \cup {First(progress.todo)}, !.kept = FALSE]

Check(p) ==
    /\ poll[p].at = "next"
    /\ poll[p].todo # {}
    /\ poll' = [poll EXCEPT ![p] =
                    IF Known(First(@.todo)) THEN Taken(@)
                                            ELSE [@ EXCEPT !.at = "file"]]
    /\ UNCHANGED <<server, store, gate, cuts>>

CheckFails(p) ==
    /\ poll[p].at = "next"
    /\ poll[p].todo # {}
    /\ Return(p)
    /\ UNCHANGED <<server, store, cuts>>

\* ingestMail up to the first stored record: an answer becomes a comment, or,
\* where its case is gone or refuses the comment, an item like any other mail.
File(p) ==
    LET u == First(poll[p].todo) IN
    /\ poll[p].at = "file"
    /\ copies' = [copies EXCEPT ![KeyOf[u]] = @ + 1]
    /\ \E step \in (IF u \in Answers THEN {"record", "triage"} ELSE {"triage"}) :
          poll' = [poll EXCEPT ![p].at = step, ![p].kept = TRUE]
    /\ UNCHANGED <<server, ledger, resets, gate, cuts>>

\* Mutant: a mail that could not be filed is flagged read with the others.
SkippedAsDone(progress) ==
    [progress EXCEPT !.at = "next", !.todo = @ \ {First(@)},
                     !.done = @ \cup {First(progress.todo)}, !.kept = FALSE]

\* The mail stays unread and the poll goes on with the next one.
Skipped(progress) ==
    [progress EXCEPT !.at = "next", !.todo = @ \ {First(@)}, !.kept = FALSE]

FileFails(p) ==
    /\ poll[p].at = "file"
    /\ poll' = [poll EXCEPT ![p] = Skipped(@)]
    /\ UNCHANGED <<server, store, gate, cuts>>

\* processIntake leaves the item, or fails with the item still there, or does
\* nothing because no provider is configured, whether or not the item is there.
Triage(p) ==
    /\ poll[p].at = "triage"
    /\ poll' = [poll EXCEPT ![p].at = "record"]
    /\ UNCHANGED <<server, store, gate, cuts>>

\* Category on level "manual": the whole item is written, also when it is gone;
\* the read that follows may fail.
TriageWrites(p) ==
    LET u == First(poll[p].todo) IN
    /\ poll[p].at = "triage"
    /\ copies' = IF poll[p].kept THEN copies
                                 ELSE [copies EXCEPT ![KeyOf[u]] = @ + 1]
    /\ poll' = [poll EXCEPT ![p].kept = TRUE]
    /\ UNCHANGED <<server, ledger, resets, gate, cuts>>

\* Triage fails, and any error of Get reads as "the item is gone": the mail is
\* not recorded, though its item may still be in the store.
TriageMisses(p) ==
    /\ poll[p].at = "triage"
    /\ poll[p].kept => cuts < Cuts
    /\ cuts' = IF poll[p].kept THEN cuts + 1 ELSE cuts
    /\ poll' = [poll EXCEPT ![p] = Skipped(@)]
    /\ UNCHANGED <<server, store, gate>>

Record(p) ==
    /\ poll[p].at = "record"
    /\ ledger' = ledger \cup {KeyOf[First(poll[p].todo)]}
    /\ poll' = [poll EXCEPT ![p] = Taken(@)]
    /\ UNCHANGED <<server, copies, resets, gate, cuts>>

RecordFails(p) ==
    /\ poll[p].at = "record"
    /\ cuts < Cuts
    /\ cuts' = cuts + 1
    /\ Return(p)
    /\ UNCHANGED <<server, store>>

\* MarkSeen(done), then the return.
Marked(p) == unread \ poll[p].done

Mark(p) ==
    /\ poll[p].at = "next"
    /\ poll[p].todo = {}
    /\ unread' = Marked(p)
    /\ Return(p)
    /\ UNCHANGED <<arrived, refills, store, cuts>>

MarkFails(p) ==
    /\ poll[p].at = "next"
    /\ poll[p].todo = {}
    /\ Return(p)
    /\ UNCHANGED <<server, store, cuts>>

-----------------------------------------------------------------------------
(* What happens around it.                                                 *)

Arrive ==
    /\ arrived < Mails
    /\ arrived' = arrived + 1
    /\ unread' = unread \cup {arrived'}
    /\ UNCHANGED <<store, gate, poll, cuts, refills>>

\* The mailbox is restored and every mail in it is unread again.
Refill ==
    /\ refills < Refills
    /\ refills' = refills + 1
    /\ unread' = 1 .. arrived
    /\ UNCHANGED <<arrived, store, gate, poll, cuts>>

\* demo.reset, one transaction: items, mail cases and ledger are gone.
Reset ==
    /\ resets < Resets
    /\ resets' = resets + 1
    /\ copies' = [k \in Keys |-> 0]
    /\ ledger' = {}
    /\ poll' = [p \in Pollers |-> [poll[p] EXCEPT !.kept = FALSE]]
    /\ UNCHANGED <<server, gate, cuts>>

Crash ==
    /\ cuts < Cuts
    /\ \E p \in Pollers : poll[p].at # "idle"
    /\ cuts' = cuts + 1
    /\ gate' = None
    /\ poll' = [p \in Pollers |-> Idle]
    /\ UNCHANGED <<server, store>>

Progress(p) ==
    \/ Lock(p) \/ Fetch(p) \/ Check(p) \/ File(p)
    \/ Triage(p) \/ Record(p) \/ Mark(p)

Failure(p) ==
    \/ FetchFails(p) \/ CheckFails(p) \/ FileFails(p)
    \/ TriageWrites(p) \/ TriageMisses(p) \/ RecordFails(p) \/ MarkFails(p)

Next ==
    \/ \E p \in Pollers : Progress(p) \/ Failure(p)
    \/ Arrive \/ Refill \/ Reset \/ Crash

Spec == Init /\ [][Next]_vars

-----------------------------------------------------------------------------
(* Fairness: some poll keeps coming, and a call that is made again and     *)
(* again succeeds at some time: looking up and filing are fair mail by mail.   *)

Checking(p, u) ==
    /\ poll[p].at = "next" /\ poll[p].todo # {}
    /\ u = First(poll[p].todo)
    /\ Check(p)
Filing(p, u) == poll[p].at = "file" /\ u = First(poll[p].todo) /\ File(p)

Fairness ==
    /\ SF_vars(\E p \in Pollers : Lock(p))
    /\ SF_vars(\E p \in Pollers : Fetch(p))
    /\ WF_vars(\E p \in Pollers : FetchFails(p))
    /\ \A u \in Uids : SF_vars(\E p \in Pollers : Checking(p, u))
    /\ \A u \in Uids : SF_vars(\E p \in Pollers : Filing(p, u))
    /\ WF_vars(\E p \in Pollers : Triage(p))
    /\ SF_vars(\E p \in Pollers : Record(p))
    /\ SF_vars(\E p \in Pollers : Mark(p))

LiveSpec == Spec /\ Fairness

-----------------------------------------------------------------------------
(* Properties.                                                             *)

\* No mail is lost: a mail flagged read is in the ledger and has a copy in
\* the store, whatever fails or stops in between (Unread peeks, MarkSeen comes
\* last).  A demo reset is meant to lose them.
ReadIsFiled ==
    resets = 0 => \A u \in (1 .. arrived) \ unread :
                     KeyOf[u] \in ledger /\ copies[KeyOf[u]] > 0

\* Once a mail is recorded nothing files it again: not the other poll, not a
\* copy under another UID, not a mailbox restored with every mail unread.
RecordedIsFinal ==
    [][\A k \in ledger \cap ledger' : copies'[k] = copies[k]]_vars

\* A second copy of a mail costs a cut between filing and recording it (a crash,
\* a failed Record, or a failed triage after which the item cannot be read);
\* repeated and concurrent fetches alone file it once.
CopiesPerCut == \A k \in Keys : copies[k] <= 1 + cuts

\* Every mail that arrives is stored and flagged read in the end, over crashes,
\* failing calls, mails that fail before it, a batch smaller than the mailbox
\* and a mailbox that comes back unread; a demo reset is meant to lose it.
MailArrives ==
    \A u \in Uids :
        []<>(u <= arrived => \/ u \notin unread /\ copies[KeyOf[u]] > 0
                             \/ resets > 0)

=============================================================================
