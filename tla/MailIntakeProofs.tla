-------------------------- MODULE MailIntakeProofs --------------------------
(***************************************************************************)
(* For any mails, keys, pollers, batch and number of crashes: a mail that  *)
(* is flagged read was filed and recorded, a recorded mail is never filed  *)
(* again, and a second copy costs a poll cut off before it records.        *)
(***************************************************************************)
EXTENDS MailIntake, WellFoundedInduction, TLAPS

Poll == [at : Steps, todo : SUBSET Uids, done : SUBSET Uids, kept : BOOLEAN]

\* The mail a poll is working on, and whether it has stored a copy of it that
\* is not recorded yet.
Current(q) == KeyOf[First(q.todo)]
Working(q) == q.at \in {"file", "triage", "record"}
Storing(q) == q.at \in {"triage", "record"}
Counted(q, k) == Storing(q) /\ q.kept /\ Current(q) = k

\* Whoever is on the way holds the gate.
Gated == \A p \in Pollers : poll[p].at # "idle" <=> gate = p

\* The mail at hand is not recorded, and its copy is in the store unless a
\* demo reset has taken it away.
WorkInv(q) ==
    /\ Working(q) => q.todo # {} /\ Current(q) \notin ledger
    /\ Storing(q) => IF q.kept THEN copies[Current(q)] > 0 ELSE resets > 0

\* What a poll is going to flag read is recorded.
DoneInv(q) == resets = 0 => \A u \in q.done : KeyOf[u] \in ledger

LedgerFiled == resets = 0 => \A k \in ledger : copies[k] > 0

\* Copies beyond the cuts: one, and only of a mail that is recorded or that
\* a poll is about to record.
CountInv(k) ==
    /\ copies[k] <= 1 + cuts
    /\ k \notin ledger /\ (\A p \in Pollers : ~Counted(poll[p], k))
           => copies[k] <= cuts

IInv ==
    /\ TypeOK /\ Gated /\ LedgerFiled /\ ReadIsFiled
    /\ \A p \in Pollers : WorkInv(poll[p]) /\ DoneInv(poll[p])
    /\ \A k \in Keys : CountInv(k)

-----------------------------------------------------------------------------
(* The oldest mail of a batch is a mail of it.                             *)

LEMMA FirstOf ==
    ASSUME NEW S \in SUBSET Uids, S # {}
    PROVE  First(S) \in S /\ KeyOf[First(S)] \in Keys
<1>1. \A u \in S : u \in Nat /\ u \in Uids
  BY MailAssumption DEF Uids
<1> DEFINE below == {ss \in Nat \X Nat : ss[1] < ss[2]}
<1>2. IsWellFoundedOn(below, Nat)
  BY NatLessThanWellFounded DEF OpToRel
<1>0. ASSUME NEW v \in Nat, NEW u \in Nat, v < u PROVE <<v, u>> \in below
  <2>1. <<v, u>> \in Nat \X Nat /\ <<v, u>>[1] = v /\ <<v, u>>[2] = u
    OBVIOUS
  <2> QED
    BY <1>0, <2>1
<1> HIDE DEF below
<1>3. PICK u \in S : \A v \in S : ~(<<v, u>> \in below)
  <2>1. S \subseteq Nat
    BY <1>1
  <2> QED
    BY <1>2, <2>1, WFMin
<1>4. \A v \in S : u <= v
  <2>1. ASSUME NEW v \in S PROVE u <= v
    <3>1. v \in Nat /\ u \in Nat
      BY <1>1
    <3>2. ~(v < u)
      BY <1>0, <1>3, <3>1
    <3> QED
      BY <3>1, <3>2
  <2> QED
    BY <2>1
<1>5. First(S) \in S
  BY <1>3, <1>4 DEF First
<1> QED
  BY <1>1, <1>5 DEF Keys

LEMMA OldestType == Oldest(unread) \subseteq unread
  BY DEF Oldest

-----------------------------------------------------------------------------
(* One poll moves.                                                         *)

LEMMA PollStep ==
    ASSUME IInv, NEW p \in Pollers, NEW q \in Poll,
           poll' = [poll EXCEPT ![p] = q],
           gate \in {None, p},
           gate' = IF q.at = "idle" THEN None ELSE p,
           arrived' = arrived, refills' = refills, resets' = resets,
           unread' = unread \/ unread' = unread \ poll[p].done,
           ledger \subseteq ledger', ledger' \subseteq Keys,
           copies' \in [Keys -> Nat], \A k \in Keys : copies'[k] >= copies[k],
           cuts' \in 0 .. Cuts,
           WorkInv(q)', DoneInv(q)',
           \A k \in ledger' \ ledger : resets = 0 => copies'[k] > 0,
           \A k \in Keys : copies'[k] <= 1 + cuts',
           \A k \in Keys : k \notin ledger' /\ ~Counted(q, k) => copies'[k] <= cuts'
    PROVE  IInv'
<1>1. /\ poll' \in [Pollers -> Poll]
      /\ poll'[p] = q
      /\ \A s \in Pollers : s # p => poll'[s] = poll[s] /\ poll[s].at = "idle"
  BY MailAssumption DEF IInv, TypeOK, Poll, Gated
<1>2. TypeOK'
  BY <1>1 DEF IInv, TypeOK, Poll
<1>3. Gated'
  BY <1>1, MailAssumption DEF Gated
<1>4. LedgerFiled'
  <2>1. SUFFICES ASSUME resets = 0, NEW k \in ledger' PROVE copies'[k] > 0
    BY DEF LedgerFiled
  <2>2. CASE k \in ledger
    <3>1. k \in Keys /\ copies[k] > 0 /\ copies[k] \in Nat /\ copies'[k] \in Nat
      BY <2>1, <2>2 DEF IInv, LedgerFiled, TypeOK
    <3> QED
      BY <3>1
  <2> QED
    BY <2>1, <2>2
<1>5. ReadIsFiled'
  <2>1. SUFFICES ASSUME resets = 0, NEW u \in (1 .. arrived) \ unread'
                 PROVE  KeyOf[u] \in ledger' /\ copies'[KeyOf[u]] > 0
    BY DEF ReadIsFiled
  <2>2. KeyOf[u] \in ledger
    BY <2>1 DEF IInv, ReadIsFiled, DoneInv
  <2> QED
    BY <1>4, <2>1, <2>2 DEF LedgerFiled
<1>6. ASSUME NEW s \in Pollers PROVE WorkInv(poll[s])' /\ DoneInv(poll[s])'
  <2>1. CASE s = p
    BY <1>1, <2>1 DEF WorkInv, DoneInv
  <2>2. CASE s # p
    BY <1>1, <2>2 DEF IInv, WorkInv, DoneInv, Working, Storing
  <2> QED
    BY <2>1, <2>2
<1>7. ASSUME NEW k \in Keys PROVE CountInv(k)'
  BY <1>1 DEF CountInv
<1> QED
  BY <1>2, <1>3, <1>4, <1>5, <1>6, <1>7 DEF IInv

\* One poll moves, nothing is stored, and it was not about to record a copy.
LEMMA QuietStep ==
    ASSUME IInv, NEW p \in Pollers, NEW q \in Poll,
           poll' = [poll EXCEPT ![p] = q],
           gate \in {None, p},
           gate' = IF q.at = "idle" THEN None ELSE p,
           arrived' = arrived, refills' = refills, resets' = resets,
           unread' = unread \/ unread' = unread \ poll[p].done,
           ledger' = ledger, copies' = copies,
           cuts' \in 0 .. Cuts, cuts' >= cuts,
           Storing(poll[p]) /\ poll[p].kept => cuts' = cuts + 1,
           ~Storing(q), WorkInv(q), DoneInv(q)
    PROVE  IInv'
<1>1. /\ WorkInv(q)' /\ DoneInv(q)'
      /\ ledger \subseteq ledger' /\ ledger' \subseteq Keys
      /\ copies' \in [Keys -> Nat] /\ cuts' \in 0 .. Cuts
      /\ \A k \in ledger' \ ledger : resets = 0 => copies'[k] > 0
  BY DEF IInv, TypeOK, WorkInv, DoneInv
<1>2. \A k \in Keys : copies'[k] >= copies[k]
  BY DEF IInv, TypeOK
<1>3. \A s \in Pollers : s # p => poll[s].at = "idle"
  BY MailAssumption DEF IInv, Gated
<1>4. ASSUME NEW k \in Keys
      PROVE  /\ copies'[k] <= 1 + cuts'
             /\ k \notin ledger' => copies'[k] <= cuts'
  <2>0. copies[k] \in Nat /\ copies[k] <= 1 + cuts /\ cuts \in Nat /\ cuts' \in Nat
    BY MailAssumption DEF IInv, TypeOK, CountInv
  <2>1. CASE Storing(poll[p]) /\ poll[p].kept
    BY <2>0, <2>1
  <2>2. CASE ~(Storing(poll[p]) /\ poll[p].kept)
    <3>1. \A s \in Pollers : ~Counted(poll[s], k)
      BY <1>3, <2>2 DEF Counted, Storing
    <3>2. k \notin ledger => copies[k] <= cuts
      BY <3>1 DEF IInv, CountInv
    <3> QED
      BY <2>0, <3>2
  <2> QED
    BY <2>1, <2>2
<1> QED
  BY <1>1, <1>2, <1>4, PollStep

LEMMA CutsFacts == IInv => cuts \in 0 .. Cuts /\ cuts >= cuts
  BY MailAssumption DEF IInv, TypeOK

\* Every return of the poll.
LEMMA IdlePoll ==
    /\ Idle \in Poll /\ Idle.at = "idle" /\ Idle.done = {}
    /\ ~Storing(Idle) /\ WorkInv(Idle) /\ DoneInv(Idle)
  BY DEF Idle, Poll, Steps, Storing, Working, WorkInv, DoneInv

LEMMA PollFacts ==
    ASSUME IInv, NEW p \in Pollers
    PROVE  /\ poll[p] \in Poll
           /\ poll[p].todo \subseteq Uids /\ poll[p].done \subseteq Uids
           /\ poll[p].at # "idle" => gate = p
           /\ WorkInv(poll[p]) /\ DoneInv(poll[p])
<1>1. poll[p] \in Poll
  BY DEF IInv, TypeOK, Poll
<1> QED
  BY <1>1 DEF IInv, Gated, Poll

LEMMA ReturnStep ==
    ASSUME IInv, NEW p \in Pollers,
           FetchFails(p) \/ CheckFails(p) \/ Mark(p) \/ MarkFails(p)
    PROVE  IInv'
<1>1. poll[p].at \in {"fetch", "next"} /\ gate = p
  BY PollFacts DEF FetchFails, CheckFails, Mark, MarkFails
<1>2. /\ poll' = [poll EXCEPT ![p] = Idle]
      /\ gate' = None
      /\ ledger' = ledger /\ copies' = copies /\ resets' = resets
      /\ cuts' = cuts /\ arrived' = arrived /\ refills' = refills
      /\ unread' = unread \/ unread' = unread \ poll[p].done
  BY <1>1 DEF FetchFails, CheckFails, Mark, MarkFails, Return, Marked, store, server
<1>3. ~Storing(poll[p])
  BY <1>1 DEF Storing
<1> QED
  BY <1>1, <1>2, <1>3, IdlePoll, QuietStep, CutsFacts

LEMMA FetchStep ==
    ASSUME IInv, NEW p \in Pollers, Lock(p) \/ Fetch(p)
    PROVE  IInv'
<1>1. PICK q \in Poll :
          /\ poll' = [poll EXCEPT ![p] = q]
          /\ q.at \in {"fetch", "next"}
          /\ q.done = poll[p].done
  <2>1. CASE Lock(p)
    <3> DEFINE q == [poll[p] EXCEPT !.at = "fetch"]
    <3>1. q \in Poll /\ q.at = "fetch" /\ q.done = poll[p].done
      BY PollFacts DEF Poll, Steps
    <3> QED
      BY <2>1, <3>1 DEF Lock
  <2>2. CASE Fetch(p)
    <3> DEFINE q == [poll[p] EXCEPT !.at = "next", !.todo = Oldest(unread)]
    <3>1. Oldest(unread) \subseteq Uids
      <4>1. arrived \in 0 .. Mails /\ unread \subseteq 1 .. arrived
        BY DEF IInv, TypeOK
      <4>2. 1 .. arrived \subseteq 1 .. Mails
        BY <4>1, MailAssumption
      <4> QED
        BY <4>1, <4>2, OldestType DEF Uids
    <3>2. q \in Poll /\ q.at = "next" /\ q.done = poll[p].done
      BY <3>1, PollFacts DEF Poll, Steps
    <3>3. poll' = [poll EXCEPT ![p] = q]
      BY <2>2, PollFacts DEF Fetch, IInv, TypeOK
    <3> QED
      BY <3>2, <3>3
  <2> QED
    BY <2>1, <2>2
<1>2. /\ gate \in {None, p} /\ gate' = p
      /\ ledger' = ledger /\ copies' = copies /\ resets' = resets
      /\ cuts' = cuts /\ arrived' = arrived /\ refills' = refills
      /\ unread' = unread
      /\ ~Storing(poll[p])
  BY PollFacts DEF Lock, Fetch, Free, store, server, Storing
<1>3. ~Storing(q) /\ WorkInv(q) /\ DoneInv(q)
  BY <1>1, PollFacts DEF Storing, Working, WorkInv, DoneInv
<1> QED
  BY <1>1, <1>2, <1>3, QuietStep, CutsFacts

\* What is left of a poll that has passed its first mail.
LEMMA PassedOn ==
    ASSUME NEW q \in Poll, q.todo # {}
    PROVE  /\ Taken(q) \in Poll /\ Taken(q).at = "next"
           /\ Taken(q).done = q.done \cup {First(q.todo)}
           /\ Skipped(q) \in Poll /\ Skipped(q).at = "next"
           /\ Skipped(q).done = q.done
<1>1. q.todo \in SUBSET Uids /\ q.done \in SUBSET Uids
  BY DEF Poll
<1>2. First(q.todo) \in Uids
  BY <1>1, FirstOf
<1> QED
  BY <1>1, <1>2 DEF Taken, Skipped, Poll, Steps

LEMMA CheckStep ==
    ASSUME IInv, NEW p \in Pollers, Check(p)
    PROVE  IInv'
<1>1. poll[p].at = "next" /\ poll[p].todo # {} /\ gate = p
  BY PollFacts DEF Check
<1>2. PICK q \in Poll :
          /\ poll' = [poll EXCEPT ![p] = q]
          /\ q.at \in {"next", "file"}
          /\ WorkInv(q) /\ DoneInv(q)
  <2>1. CASE Known(First(poll[p].todo))
    <3> DEFINE q == Taken(poll[p])
    <3>1. q \in Poll /\ q.at = "next" /\ q.done = poll[p].done \cup {First(poll[p].todo)}
      BY <1>1, PollFacts, PassedOn
    <3>2. WorkInv(q) /\ DoneInv(q)
      BY <2>1, <3>1, PollFacts DEF Known, WorkInv, Working, Storing, DoneInv
    <3> QED
      BY <2>1, <3>1, <3>2 DEF Check
  <2>2. CASE ~Known(First(poll[p].todo))
    <3> DEFINE q == [poll[p] EXCEPT !.at = "file"]
    <3>1. q \in Poll /\ q.at = "file" /\ q.done = poll[p].done
          /\ q.todo = poll[p].todo
      BY PollFacts DEF Poll, Steps
    <3>2. WorkInv(q) /\ DoneInv(q)
      BY <1>1, <2>2, <3>1, PollFacts
         DEF Known, WorkInv, Working, Storing, DoneInv, Current
    <3> QED
      BY <2>2, <3>1, <3>2 DEF Check
  <2> QED
    BY <2>1, <2>2
<1>3. /\ ledger' = ledger /\ copies' = copies /\ resets' = resets
      /\ cuts' = cuts /\ arrived' = arrived /\ refills' = refills
      /\ unread' = unread /\ gate' = p
      /\ ~Storing(poll[p]) /\ ~Storing(q)
  BY <1>1, <1>2 DEF Check, store, server, Storing
<1> QED
  BY <1>1, <1>2, <1>3, QuietStep, CutsFacts

LEMMA SkipStep ==
    ASSUME IInv, NEW p \in Pollers, FileFails(p) \/ TriageMisses(p)
    PROVE  IInv'
<1>1. /\ poll[p].at \in {"file", "triage"} /\ poll[p].todo # {} /\ gate = p
      /\ FileFails(p) => ~Storing(poll[p])
  BY PollFacts DEF FileFails, TriageMisses, WorkInv, Working, Storing
<1> DEFINE q == Skipped(poll[p])
<1>2. q \in Poll /\ q.at = "next" /\ q.done = poll[p].done
  BY <1>1, PollFacts, PassedOn
<1>3. ~Storing(q) /\ WorkInv(q) /\ DoneInv(q)
  BY <1>2, PollFacts DEF Storing, Working, WorkInv, DoneInv
<1>4. /\ poll' = [poll EXCEPT ![p] = q]
      /\ ledger' = ledger /\ copies' = copies /\ resets' = resets
      /\ arrived' = arrived /\ refills' = refills
      /\ unread' = unread /\ gate' = p
  BY <1>1 DEF FileFails, TriageMisses, store, server
<1>5. /\ cuts' \in 0 .. Cuts /\ cuts' >= cuts
      /\ Storing(poll[p]) /\ poll[p].kept => cuts' = cuts + 1
  <2>1. cuts \in 0 .. Cuts /\ Cuts \in Nat
    BY MailAssumption DEF IInv, TypeOK
  <2>2. CASE FileFails(p)
    BY <1>1, <2>1, <2>2 DEF FileFails
  <2>3. CASE TriageMisses(p)
    BY <2>1, <2>3 DEF TriageMisses
  <2> QED
    BY <2>2, <2>3
<1> HIDE DEF q
<1> QED
  BY <1>1, <1>2, <1>3, <1>4, <1>5, QuietStep

-----------------------------------------------------------------------------
(* The steps that store something.                                         *)

\* The other pollers wait at the gate, so only this one may be storing.
LEMMA Alone ==
    ASSUME IInv, NEW p \in Pollers, gate = p, NEW k \in Keys
    PROVE  /\ copies[k] \in Nat /\ cuts \in Nat
           /\ copies[k] <= 1 + cuts
           /\ k \notin ledger /\ ~Counted(poll[p], k) => copies[k] <= cuts
<1>1. \A s \in Pollers : s # p => ~Counted(poll[s], k)
  BY DEF IInv, Gated, Counted, Storing
<1> QED
  BY <1>1, MailAssumption DEF IInv, TypeOK, CountInv

LEMMA FileStep ==
    ASSUME IInv, NEW p \in Pollers, File(p) \/ TriageWrites(p)
    PROVE  IInv'
<1>0. PICK k \in Keys : poll[p].at \in {"file", "triage"} /\ k = Current(poll[p])
  <2>1. poll[p].at \in {"file", "triage"} /\ poll[p].todo # {}
    BY PollFacts DEF File, TriageWrites, WorkInv, Working
  <2> QED
    BY <2>1, PollFacts, FirstOf DEF Current
<1>1. /\ poll[p].at \in {"file", "triage"} /\ gate = p
      /\ poll[p].todo # {} /\ k \notin ledger
      /\ File(p) => ~Storing(poll[p])
  BY <1>0, PollFacts DEF File, TriageWrites, WorkInv, Working, Storing
<1>3. PICK step \in {"record", "triage"} :
          poll' = [poll EXCEPT ![p] = [@ EXCEPT !.at = step, !.kept = TRUE]]
  <2>1. CASE File(p)
    <3>1. PICK step \in {"record", "triage"} :
              poll' = [poll EXCEPT ![p].at = step, ![p].kept = TRUE]
      BY <2>1 DEF File
    <3> QED
      BY <3>1 DEF IInv, TypeOK
  <2>2. CASE TriageWrites(p)
    <3>1. /\ poll' = [poll EXCEPT ![p].kept = TRUE]
          /\ poll[p].at = "triage" /\ poll[p] \in Poll
      BY <2>2, PollFacts DEF TriageWrites
    <3>2. [poll[p] EXCEPT !.kept = TRUE]
             = [poll[p] EXCEPT !.at = "triage", !.kept = TRUE]
      BY <3>1 DEF Poll
    <3> QED
      BY <3>1, <3>2
  <2> QED
    BY <2>1, <2>2
<1>4. PICK q \in Poll :
          /\ q.at = step /\ q.kept /\ q.todo = poll[p].todo
          /\ q.done = poll[p].done
          /\ poll' = [poll EXCEPT ![p] = q]
  BY <1>3, PollFacts DEF Poll, Steps
<1>5. /\ ledger' = ledger /\ resets' = resets /\ cuts' = cuts
      /\ arrived' = arrived /\ refills' = refills /\ unread' = unread
      /\ gate' = p
      /\ \/ copies' = [copies EXCEPT ![k] = @ + 1] /\ ~Counted(poll[p], k)
         \/ copies' = copies /\ Storing(poll[p]) /\ poll[p].kept
  BY <1>0, <1>1 DEF File, TriageWrites, server, Current, Counted, Storing
<1>6. copies \in [Keys -> Nat] /\ cuts \in 0 .. Cuts /\ ledger \subseteq Keys
  BY DEF IInv, TypeOK
<1>7. Counted(q, k) /\ Working(q) /\ Storing(q) /\ Current(q) = k
  BY <1>0, <1>4 DEF Counted, Working, Storing, Current
<1>8. /\ copies' \in [Keys -> Nat]
      /\ copies'[k] > 0
      /\ copies'[k] <= 1 + cuts
      /\ \A j \in Keys : copies'[j] >= copies[j]
      /\ \A j \in Keys : j # k => copies'[j] = copies[j]
  <2>1. CASE copies' = [copies EXCEPT ![k] = @ + 1] /\ ~Counted(poll[p], k)
    BY <1>1, <1>6, <2>1, Alone
  <2>2. CASE copies' = copies /\ Storing(poll[p]) /\ poll[p].kept
    <3>1. copies[k] > 0
      BY <1>0, <2>2, PollFacts DEF WorkInv
    <3> QED
      BY <1>1, <1>6, <2>2, <3>1, Alone
  <2> QED
    BY <1>5, <2>1, <2>2
<1>9. WorkInv(q)' /\ DoneInv(q)'
  <2>1. Current(q) \notin ledger' /\ copies'[Current(q)] > 0 /\ q.todo # {}
    BY <1>1, <1>4, <1>5, <1>7, <1>8
  <2>2. WorkInv(q)'
    BY <1>4, <2>1 DEF WorkInv
  <2>3. DoneInv(q)'
    BY <1>4, <1>5, PollFacts DEF DoneInv
  <2> QED
    BY <2>2, <2>3
<1>10. ASSUME NEW j \in Keys
       PROVE  /\ copies'[j] <= 1 + cuts'
              /\ j \notin ledger' /\ ~Counted(q, j) => copies'[j] <= cuts'
  <2>1. CASE j = k
    BY <1>5, <1>7, <1>8, <2>1
  <2>2. CASE j # k
    BY <1>0, <1>1, <1>5, <1>8, <2>2, Alone DEF Counted
  <2> QED
    BY <2>1, <2>2
<1>11. q.at # "idle"
  BY <1>4
<1> QED
  BY <1>1, <1>4, <1>5, <1>6, <1>8, <1>9, <1>10, <1>11, PollStep

LEMMA TriageStep ==
    ASSUME IInv, NEW p \in Pollers, Triage(p)
    PROVE  IInv'
<1>1. poll[p].at = "triage" /\ gate = p /\ poll[p] \in Poll
  BY PollFacts DEF Triage
<1>2. PICK q \in Poll :
          /\ poll' = [poll EXCEPT ![p] = q]
          /\ q.at = "record" /\ q.kept = poll[p].kept
          /\ q.todo = poll[p].todo /\ q.done = poll[p].done
  <2> DEFINE q == [poll[p] EXCEPT !.at = "record"]
  <2>1. q \in Poll /\ q.at = "record" /\ q.kept = poll[p].kept
        /\ q.todo = poll[p].todo /\ q.done = poll[p].done
    BY <1>1 DEF Poll, Steps
  <2> QED
    BY <2>1 DEF Triage
<1>3. /\ ledger' = ledger /\ copies' = copies /\ resets' = resets
      /\ cuts' = cuts /\ arrived' = arrived /\ refills' = refills
      /\ unread' = unread /\ gate' = p
  BY <1>1 DEF Triage, store, server
<1>4. WorkInv(q)' /\ DoneInv(q)'
  BY <1>1, <1>2, <1>3, PollFacts
     DEF WorkInv, DoneInv, Working, Storing, Current
<1>5. \A k \in Keys : Counted(q, k) <=> Counted(poll[p], k)
  BY <1>1, <1>2 DEF Counted, Storing, Current
<1>6. ASSUME NEW k \in Keys
      PROVE  /\ copies'[k] >= copies[k] /\ copies'[k] <= 1 + cuts'
             /\ k \notin ledger' /\ ~Counted(q, k) => copies'[k] <= cuts'
  BY <1>1, <1>3, <1>5, Alone
<1>7. /\ copies' \in [Keys -> Nat] /\ cuts' \in 0 .. Cuts
      /\ ledger \subseteq ledger' /\ ledger' \subseteq Keys
      /\ \A k \in ledger' \ ledger : resets = 0 => copies'[k] > 0
  BY <1>3 DEF IInv, TypeOK
<1> QED
  BY <1>1, <1>2, <1>3, <1>4, <1>6, <1>7, PollStep

LEMMA RecordStep ==
    ASSUME IInv, NEW p \in Pollers, Record(p)
    PROVE  IInv'
<1>1. /\ poll[p].at = "record" /\ gate = p /\ poll[p] \in Poll
      /\ poll[p].todo # {}
  BY PollFacts DEF Record, WorkInv, Working
<1>2. PICK k \in Keys : k = Current(poll[p])
  BY <1>1, PollFacts, FirstOf DEF Current
<1>3. PICK q \in Poll :
          /\ poll' = [poll EXCEPT ![p] = q]
          /\ q.at = "next" /\ q.done = poll[p].done \cup {First(poll[p].todo)}
  <2>1. Taken(poll[p]) \in Poll /\ Taken(poll[p]).at = "next"
        /\ Taken(poll[p]).done = poll[p].done \cup {First(poll[p].todo)}
    BY <1>1, PassedOn
  <2> QED
    BY <2>1 DEF Record
<1>4. /\ ledger' = ledger \cup {k} /\ copies' = copies /\ resets' = resets
      /\ cuts' = cuts /\ arrived' = arrived /\ refills' = refills
      /\ unread' = unread /\ gate' = p
  BY <1>1, <1>2 DEF Record, server, Current
<1>5. WorkInv(q)' /\ DoneInv(q)'
  BY <1>2, <1>3, <1>4, PollFacts
     DEF WorkInv, DoneInv, Working, Storing, Current
<1>6. resets = 0 => copies'[k] > 0
  BY <1>1, <1>2, <1>4, PollFacts DEF WorkInv, Storing, IInv, TypeOK
<1>7. ASSUME NEW j \in Keys
      PROVE  /\ copies'[j] >= copies[j] /\ copies'[j] <= 1 + cuts'
             /\ j \notin ledger' /\ ~Counted(q, j) => copies'[j] <= cuts'
  BY <1>1, <1>2, <1>4, Alone DEF Counted
<1>8. /\ copies' \in [Keys -> Nat] /\ cuts' \in 0 .. Cuts
      /\ ledger \subseteq ledger' /\ ledger' \subseteq Keys
  BY <1>4 DEF IInv, TypeOK
<1> QED
  BY <1>1, <1>3, <1>4, <1>5, <1>6, <1>7, <1>8, PollStep

LEMMA RecordFailsStep ==
    ASSUME IInv, NEW p \in Pollers, RecordFails(p)
    PROVE  IInv'
<1>1. poll[p].at = "record" /\ gate = p
  BY PollFacts DEF RecordFails
<1>2. PICK q \in Poll : q = Idle
  BY IdlePoll
<1>3. /\ ledger' = ledger /\ copies' = copies /\ resets' = resets
      /\ cuts < Cuts /\ cuts' = cuts + 1
      /\ arrived' = arrived /\ refills' = refills
      /\ unread' = unread /\ gate' = None
      /\ poll' = [poll EXCEPT ![p] = q]
  BY <1>1, <1>2 DEF RecordFails, Return, store, server
<1>4. WorkInv(q)' /\ DoneInv(q)' /\ q.at = "idle"
  BY <1>2, IdlePoll DEF WorkInv, DoneInv, Working, Storing
<1>5. cuts \in Nat /\ Cuts \in Nat /\ copies \in [Keys -> Nat]
  BY MailAssumption DEF IInv, TypeOK
<1>6. ASSUME NEW k \in Keys
      PROVE  /\ copies'[k] >= copies[k] /\ copies'[k] <= 1 + cuts'
             /\ copies'[k] <= cuts'
  BY <1>1, <1>3, <1>5, Alone
<1>7. /\ copies' \in [Keys -> Nat] /\ cuts' \in 0 .. Cuts
      /\ ledger \subseteq ledger' /\ ledger' \subseteq Keys
      /\ \A k \in ledger' \ ledger : resets = 0 => copies'[k] > 0
  BY <1>3, <1>5 DEF IInv, TypeOK
<1> QED
  BY <1>1, <1>3, <1>4, <1>6, <1>7, PollStep

-----------------------------------------------------------------------------
(* What happens around the polls.                                          *)

\* Mails come in and come back; no poll and nothing stored changes.
LEMMA ServerStep ==
    ASSUME IInv, Arrive \/ Refill
    PROVE  IInv'
<1>1. /\ poll' = poll /\ gate' = gate /\ ledger' = ledger
      /\ copies' = copies /\ resets' = resets /\ cuts' = cuts
  BY DEF Arrive, Refill, store
<1>2. /\ arrived \in 0 .. Mails /\ unread \subseteq 1 .. arrived
      /\ refills \in 0 .. Refills
  BY DEF IInv, TypeOK
<1>3. /\ arrived' \in 0 .. Mails /\ unread' \subseteq 1 .. arrived'
      /\ refills' \in 0 .. Refills
      /\ (1 .. arrived') \ unread' \subseteq (1 .. arrived) \ unread
  <2>1. CASE Arrive
    <3>1. /\ arrived' = arrived + 1 /\ arrived < Mails
          /\ unread' = unread \cup {arrived + 1} /\ refills' = refills
      BY <2>1 DEF Arrive
    <3>2. 1 .. (arrived + 1) = (1 .. arrived) \cup {arrived + 1}
      BY <1>2, MailAssumption
    <3> QED
      BY <1>2, <3>1, <3>2, MailAssumption
  <2>2. CASE Refill
    <3>1. /\ arrived' = arrived /\ refills < Refills
          /\ unread' = 1 .. arrived /\ refills' = refills + 1
      BY <2>2 DEF Refill
    <3> QED
      BY <1>2, <3>1, MailAssumption
  <2> QED
    BY <2>1, <2>2
<1>4. TypeOK'
  BY <1>1, <1>3 DEF IInv, TypeOK
<1>5. ReadIsFiled'
  BY <1>1, <1>3 DEF IInv, ReadIsFiled
<1>6. Gated' /\ LedgerFiled'
  BY <1>1 DEF IInv, Gated, LedgerFiled
<1>7. \A p \in Pollers : WorkInv(poll[p])' /\ DoneInv(poll[p])'
  BY <1>1 DEF IInv, WorkInv, DoneInv
<1>8. \A k \in Keys : CountInv(k)'
  BY <1>1 DEF IInv, CountInv
<1> QED
  BY <1>4, <1>5, <1>6, <1>7, <1>8 DEF IInv

LEMMA ResetStep ==
    ASSUME IInv, Reset
    PROVE  IInv'
<1>1. /\ resets \in Nat /\ resets < Resets /\ resets' = resets + 1
      /\ copies' = [k \in Keys |-> 0] /\ ledger' = {}
      /\ poll' = [p \in Pollers |-> [poll[p] EXCEPT !.kept = FALSE]]
      /\ gate' = gate /\ cuts' = cuts /\ arrived' = arrived
      /\ unread' = unread /\ refills' = refills
  BY MailAssumption DEF Reset, server, IInv, TypeOK
<1>2. resets' > 0 /\ resets' # 0 /\ resets' \in 0 .. Resets
  BY <1>1, MailAssumption
<1>3. ASSUME NEW p \in Pollers
      PROVE  /\ poll'[p] \in Poll /\ ~poll'[p].kept
             /\ poll'[p].at = poll[p].at /\ poll'[p].todo = poll[p].todo
  BY <1>1, PollFacts DEF Poll
<1>4. poll' \in [Pollers -> Poll]
  BY <1>1, <1>3
<1>5. TypeOK'
  BY <1>1, <1>2, <1>4 DEF IInv, TypeOK, Poll
<1>6. Gated'
  BY <1>1, <1>3 DEF IInv, Gated
<1>7. LedgerFiled' /\ ReadIsFiled'
  BY <1>2 DEF LedgerFiled, ReadIsFiled
<1>8. ASSUME NEW p \in Pollers PROVE WorkInv(poll[p])' /\ DoneInv(poll[p])'
  <2>1. DoneInv(poll[p])'
    BY <1>2 DEF DoneInv
  <2>2. Working(poll[p])' => poll'[p].todo # {}
    BY <1>3, PollFacts DEF WorkInv, Working
  <2> QED
    BY <1>1, <1>2, <1>3, <2>1, <2>2 DEF WorkInv
<1>9. ASSUME NEW k \in Keys PROVE CountInv(k)'
  BY <1>1, MailAssumption DEF CountInv, IInv, TypeOK
<1> QED
  BY <1>5, <1>6, <1>7, <1>8, <1>9 DEF IInv

LEMMA CrashStep ==
    ASSUME IInv, Crash
    PROVE  IInv'
<1>1. /\ cuts \in Nat /\ Cuts \in Nat /\ cuts < Cuts /\ cuts' = cuts + 1
      /\ gate' = None /\ poll' = [p \in Pollers |-> Idle]
      /\ arrived' = arrived /\ unread' = unread /\ refills' = refills
      /\ copies' = copies /\ ledger' = ledger /\ resets' = resets
  BY MailAssumption DEF Crash, server, store, IInv, TypeOK
<1>2. \A p \in Pollers : poll'[p] = Idle
  BY <1>1
<1>3. TypeOK'
  BY <1>1, IdlePoll DEF IInv, TypeOK, Poll
<1>4. Gated'
  BY <1>1, <1>2, IdlePoll, MailAssumption DEF Gated
<1>5. LedgerFiled' /\ ReadIsFiled'
  BY <1>1 DEF IInv, LedgerFiled, ReadIsFiled
<1>6. \A p \in Pollers : WorkInv(poll[p])' /\ DoneInv(poll[p])'
  BY <1>2, IdlePoll DEF WorkInv, DoneInv, Working, Storing
<1>7. ASSUME NEW k \in Keys PROVE CountInv(k)'
  <2>1. copies[k] \in Nat /\ copies[k] <= 1 + cuts
    BY DEF IInv, TypeOK, CountInv
  <2> QED
    BY <1>1, <2>1 DEF CountInv
<1> QED
  BY <1>3, <1>4, <1>5, <1>6, <1>7 DEF IInv

-----------------------------------------------------------------------------
(* The invariant and what follows from it.                                 *)

LEMMA InitIInv == Init => IInv
<1> SUFFICES ASSUME Init PROVE IInv
  OBVIOUS
<1>1. /\ arrived = 0 /\ unread = {} /\ copies = [k \in Keys |-> 0]
      /\ ledger = {} /\ gate = None /\ poll = [p \in Pollers |-> Idle]
      /\ cuts = 0 /\ resets = 0 /\ refills = 0
  BY DEF Init
<1>2. TypeOK
  BY <1>1, IdlePoll, MailAssumption DEF TypeOK, Poll
<1>3. Gated /\ LedgerFiled /\ ReadIsFiled
  BY <1>1, IdlePoll, MailAssumption DEF Gated, LedgerFiled, ReadIsFiled
<1>4. \A p \in Pollers : WorkInv(poll[p]) /\ DoneInv(poll[p])
  BY <1>1, IdlePoll
<1>5. \A k \in Keys : CountInv(k)
  BY <1>1 DEF CountInv
<1> QED
  BY <1>2, <1>3, <1>4, <1>5 DEF IInv

LEMMA NextIInv == IInv /\ [Next]_vars => IInv'
<1> SUFFICES ASSUME IInv, [Next]_vars PROVE IInv'
  OBVIOUS
<1>1. ASSUME NEW p \in Pollers, Progress(p) PROVE IInv'
  BY <1>1, FetchStep, CheckStep, FileStep, TriageStep, RecordStep, ReturnStep
     DEF Progress
<1>2. ASSUME NEW p \in Pollers, Failure(p) PROVE IInv'
  BY <1>2, ReturnStep, SkipStep, FileStep, RecordFailsStep DEF Failure
<1>3. CASE Arrive \/ Refill \/ Reset \/ Crash
  BY <1>3, ServerStep, ResetStep, CrashStep
<1>4. CASE UNCHANGED vars
  BY <1>4 DEF vars, IInv, TypeOK, Gated, LedgerFiled, ReadIsFiled, WorkInv,
              DoneInv, CountInv
<1> QED
  BY <1>1, <1>2, <1>3, <1>4 DEF Next

LEMMA AlwaysIInv == Spec => []IInv
BY InitIInv, NextIInv, PTL DEF Spec

\* Every variable of the intake keeps its type.
THEOREM TypeCorrect == Spec => []TypeOK
<1>1. IInv => TypeOK
  BY DEF IInv
<1> QED
  BY <1>1, AlwaysIInv, PTL

\* No mail is lost: whatever fails or stops, a mail flagged read was filed and
\* recorded (MarkSeen comes last, and only for the mails that got that far).
THEOREM NoMailLost == Spec => []ReadIsFiled
<1>1. IInv => ReadIsFiled
  BY DEF IInv
<1> QED
  BY <1>1, AlwaysIInv, PTL

\* Each copy of a mail beyond the first costs a poll cut off between filing and
\* the ledger (a crash, a failed Record, or an item that cannot be read after
\* its triage failed); the gate keeps other polls out of the gap.
THEOREM CopiesCostCuts == Spec => []CopiesPerCut
<1>1. IInv => CopiesPerCut
  BY DEF IInv, CountInv, CopiesPerCut
<1> QED
  BY <1>1, AlwaysIInv, PTL

\* No step changes how often a recorded mail is filed: a poll files only what
\* it has looked up, and nobody records it in between.
LEMMA StepKeepsRecorded ==
    ASSUME IInv, [Next]_vars
    PROVE  \A k \in ledger \cap ledger' : copies'[k] = copies[k]
<1>1. ASSUME NEW p \in Pollers, File(p) \/ TriageWrites(p)
      PROVE  \A k \in ledger \cap ledger' : copies'[k] = copies[k]
  <2>1. Current(poll[p]) \notin ledger
    BY <1>1, PollFacts DEF File, TriageWrites, WorkInv, Working
  <2>2. \/ copies' = [copies EXCEPT ![Current(poll[p])] = @ + 1]
        \/ copies' = copies
    BY <1>1 DEF File, TriageWrites, Current
  <2>3. copies \in [Keys -> Nat] /\ ledger \subseteq Keys
    BY DEF IInv, TypeOK
  <2> QED
    BY <2>1, <2>2, <2>3
<1>2. ASSUME NEW p \in Pollers,
             Progress(p) \/ Failure(p), ~File(p), ~TriageWrites(p)
      PROVE  copies' = copies
  BY <1>2 DEF Progress, Failure, Lock, Fetch, Check, Triage, Record, Mark,
              FetchFails, CheckFails, FileFails, TriageMisses, RecordFails,
              MarkFails, store
<1>3. CASE Arrive \/ Refill \/ Crash
  BY <1>3 DEF Arrive, Refill, Crash, store
<1>4. CASE Reset
  BY <1>4 DEF Reset
<1>5. CASE UNCHANGED vars
  BY <1>5 DEF vars
<1> QED
  BY <1>1, <1>2, <1>3, <1>4, <1>5 DEF Next

\* Once a mail is recorded nothing files it again, under any UID and however
\* often the mailbox hands it out (Seen before ingestMail, under the gate).
THEOREM RecordedStays == Spec => RecordedIsFinal
<1>1. IInv /\ [Next]_vars
         => [\A k \in ledger \cap ledger' : copies'[k] = copies[k]]_vars
  BY StepKeepsRecorded
<1> QED
  BY <1>1, AlwaysIInv, PTL DEF Spec, RecordedIsFinal

=============================================================================
