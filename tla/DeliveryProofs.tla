--------------------------- MODULE DeliveryProofs ---------------------------
(***************************************************************************)
(* For any requests, letters, keys and delays that satisfy the assumption: *)
(* no two requests hold one recipient, the log never calls a letter sent   *)
(* twice or falsely, and a letter that is recorded as sent stays at home;  *)
(* the run of the letters of an announcement keeps that protocol, a closed *)
(* run is settled, and what it says of its letters stays true.             *)
(***************************************************************************)
EXTENDS LetterRun, SequenceTheorems, FiniteSetTheorems, TLAPS

USE DEF Letters

\* The row a holder will finalize is pending and no older than the holder's
\* own clock; while the mail is out, no older than the mailer's deadlines.
HoldInv(r) == Holding(r) =>
    /\ req[r].mine \in DOMAIN rows[Key(r)]
    /\ Mine(r).status = "pending"
    /\ Exchanging(r) => Mine(r).age <= SendMax
    /\ req[r].clock <= Window => Mine(r).age <= req[r].clock

\* Two requests never hold one key.
Distinct == \A r, s \in Requests :
    Holding(r) /\ Holding(s) /\ Key(r) = Key(s) => r = s

\* Only the last row of a key is not failed.
LastCounts(k) == \A n \in DOMAIN rows[k] :
    rows[k][n].status # "failed" => n = Len(rows[k])

\* Rows are about letters of the run.
RowsBelong(k) == rows[k] # <<>> => \E l \in Letters : KeyOf[l] = k

\* What a request is about to record as sent, the relay has accepted.
ResultTrue(r) ==
    At(r, "recording") /\ req[r].result = "sent" => mails[req[r].at] > 0

SentTrue(k) ==
    HasSent(k) => \E l \in Letters : KeyOf[l] = k /\ mails[l] > 0

IInv ==
    /\ TypeOK
    /\ Distinct
    /\ \A r \in Requests : HoldInv(r) /\ ResultTrue(r)
    /\ \A k \in Keys : LastCounts(k) /\ RowsBelong(k) /\ SentTrue(k)

-----------------------------------------------------------------------------
(* Sequences of rows.                                                      *)

\* A function over the positions of a sequence of rows is one, too.
LEMMA Reworked ==
    ASSUME NEW q \in Seq(Row), NEW p \in [DOMAIN q -> Row]
    PROVE  /\ p \in Seq(Row)
           /\ Len(p) = Len(q)
           /\ DOMAIN p = DOMAIN q
<1>1. Len(q) \in Nat /\ DOMAIN q = 1 .. Len(q)
  BY LenProperties
<1>2. p \in Seq(Row)
  BY <1>1, SeqDef
<1>3. Len(p) \in Nat /\ DOMAIN p = 1 .. Len(p)
  BY <1>2, LenProperties
<1> QED
  BY <1>1, <1>2, <1>3

\* Where a request is.
LEMMA Position ==
    ASSUME TypeOK, NEW r \in Requests
    PROVE  /\ req[r] \in Requesting
           /\ req[r].at \in Letters
           /\ req[r].mine \in Nat
           /\ req[r].clock \in 0 .. (Window + 1)
           /\ Key(r) \in Keys
           /\ rows[Key(r)] \in Seq(Row)
           /\ Len(rows[Key(r)]) \in Nat
           /\ DOMAIN rows[Key(r)] = 1 .. Len(rows[Key(r)])
<1>1. req[r] \in Requesting
  BY DEF TypeOK
<1>2. /\ req[r].at \in Letters
      /\ req[r].mine \in Nat
      /\ req[r].clock \in 0 .. (Window + 1)
  BY <1>1 DEF Requesting
<1>3. Key(r) \in Keys
  BY <1>2, DeliveryAssumption DEF Key
<1>4. rows[Key(r)] \in Seq(Row)
  BY <1>3 DEF TypeOK
<1> QED
  BY <1>1, <1>2, <1>3, <1>4, LenProperties

\* The rows of a key are rows.
LEMMA RowsOf ==
    ASSUME TypeOK, NEW k \in Keys
    PROVE  /\ rows[k] \in Seq(Row)
           /\ Len(rows[k]) \in Nat
           /\ DOMAIN rows[k] = 1 .. Len(rows[k])
           /\ \A n \in DOMAIN rows[k] : rows[k][n] \in Row
<1>1. rows[k] \in Seq(Row)
  BY DEF TypeOK
<1> QED
  BY <1>1, LenProperties, ElementOfSeq

LEMMA RowFacts ==
    ASSUME NEW row \in Row
    PROVE  /\ Interrupt(row) \in Row
           /\ Interrupt(row).status # "pending"
           /\ Interrupt(row).status = "sent" <=> row.status = "sent"
           /\ Older(row) \in Row
           /\ Older(row).status = row.status
           /\ row.status # "pending" => Older(row) = row
           /\ Older(row).age <= row.age + 1
           /\ \A result : Verdict(row, result) \in Row
<1> USE DeliveryAssumption DEF Row
<1>1. /\ Interrupt(row) \in Row
      /\ Interrupt(row).status # "pending"
      /\ Interrupt(row).status = "sent" <=> row.status = "sent"
  BY DEF Interrupt
<1>2. /\ Older(row) \in Row
      /\ Older(row).status = row.status
      /\ row.status # "pending" => Older(row) = row
      /\ Older(row).age <= row.age + 1
  BY DEF Older
<1>3. \A result : Verdict(row, result) \in Row
  BY DEF Verdict
<1> QED
  BY <1>1, <1>2, <1>3

\* What a reservation leaves of its key.
LEMMA ReservedRows ==
    ASSUME TypeOK, NEW k \in Keys
    PROVE  /\ Reserved(k) \in Seq(Row)
           /\ Len(Reserved(k)) = Len(rows[k]) + 1
           /\ DOMAIN Reserved(k) = 1 .. (Len(rows[k]) + 1)
           /\ Reserved(k)[Len(rows[k]) + 1] = [status |-> "pending", age |-> 0]
           /\ \A n \in 1 .. Len(rows[k]) : Reserved(k)[n] = Interrupt(rows[k][n])
<1> DEFINE p == [n \in DOMAIN rows[k] |-> Interrupt(rows[k][n])]
           e == [status |-> "pending", age |-> 0]
<1>1. p \in [DOMAIN rows[k] -> Row]
  BY RowsOf, RowFacts
<1>2. p \in Seq(Row) /\ Len(p) = Len(rows[k])
  BY <1>1, RowsOf, Reworked
<1>3. e \in Row
  BY DeliveryAssumption DEF Row
<1>4. Reserved(k) = Append(p, e)
  BY DEF Reserved
<1> HIDE DEF p
<1>5. /\ Append(p, e) \in Seq(Row)
      /\ Len(Append(p, e)) = Len(p) + 1
      /\ \A i \in 1 .. Len(p) : Append(p, e)[i] = p[i]
      /\ Append(p, e)[Len(p) + 1] = e
  BY <1>2, <1>3, AppendProperties
<1>6. DOMAIN Reserved(k) = 1 .. (Len(rows[k]) + 1)
  BY <1>2, <1>4, <1>5, LenProperties
<1>7. \A n \in 1 .. Len(rows[k]) : p[n] = Interrupt(rows[k][n])
  BY RowsOf DEF p
<1> QED
  BY <1>2, <1>4, <1>5, <1>6, <1>7

-----------------------------------------------------------------------------
(* Steps that leave the tables alone.                                      *)

LEMMA UnrecordedType ==
    ASSUME TypeOK, NEW S \in SUBSET Requests
    PROVE  Unrecorded(S) \in [Letters -> Nat]
<1> SUFFICES ASSUME NEW l \in Letters
             PROVE  lost[l] + Cardinality({r \in S : At(r, "recording")
                        /\ req[r].result = "sent" /\ req[r].at = l}) \in Nat
  BY DEF Unrecorded
<1> DEFINE late == {r \in S : At(r, "recording")
                        /\ req[r].result = "sent" /\ req[r].at = l}
<1>1. IsFiniteSet(late)
  BY DeliveryAssumption, FS_Subset
<1>2. Cardinality(late) \in Nat
  BY <1>1, FS_CardinalityType
<1>3. lost[l] \in Nat
  BY DEF TypeOK
<1> HIDE DEF late
<1>4. lost[l] + Cardinality(late) \in Nat
  BY <1>2, <1>3
<1> QED
  BY <1>4 DEF late

\* A request that still holds its key kept everything the invariant is about.
SameHold(r) ==
    /\ req'[r].at = req[r].at
    /\ req'[r].mine = req[r].mine
    /\ req'[r].clock = req[r].clock

LEMMA Quiet ==
    ASSUME IInv, rows' = rows, req' \in [Requests -> Requesting],
           mails' \in [Letters -> Nat], lost' \in [Letters -> Nat],
           \A l \in Letters : mails'[l] >= mails[l],
           \A r \in Requests : Holding(r)' => Holding(r) /\ SameHold(r),
           \A r \in Requests : Exchanging(r)' => Exchanging(r),
           \A r \in Requests : ResultTrue(r)'
    PROVE  IInv'
<1>1. TypeOK'
  BY DEF IInv, TypeOK
<1>2. ASSUME NEW r \in Requests, Holding(r)'
      PROVE  Holding(r) /\ SameHold(r) /\ Key(r)' = Key(r) /\ Mine(r)' = Mine(r)
  BY <1>2 DEF SameHold, Key, Mine
<1>3. Distinct'
  BY <1>2 DEF IInv, Distinct
<1>4. ASSUME NEW r \in Requests PROVE HoldInv(r)'
  BY <1>2 DEF IInv, HoldInv, SameHold
<1>5. ASSUME NEW k \in Keys
      PROVE  LastCounts(k)' /\ RowsBelong(k)' /\ SentTrue(k)'
  <2>1. LastCounts(k)' /\ RowsBelong(k)'
    BY DEF IInv, LastCounts, RowsBelong
  <2>2. SUFFICES ASSUME HasSent(k)'
                 PROVE  \E l \in Letters : KeyOf[l] = k /\ mails'[l] > 0
    BY <2>1 DEF SentTrue
  <2>3. PICK l \in Letters : KeyOf[l] = k /\ mails[l] > 0
    BY <2>2 DEF IInv, SentTrue, HasSent
  <2>4. mails[l] \in Nat /\ mails'[l] \in Nat /\ mails'[l] >= mails[l]
    BY DEF IInv, TypeOK
  <2> QED
    BY <2>3, <2>4
<1> QED
  BY <1>1, <1>3, <1>4, <1>5 DEF IInv

\* One request moves and the tables stay.
LEMMA Local ==
    ASSUME IInv, NEW r \in Requests, NEW q \in Requesting,
           req' = [req EXCEPT ![r] = q], rows' = rows,
           mails' \in [Letters -> Nat], lost' \in [Letters -> Nat],
           \A l \in Letters : mails'[l] >= mails[l],
           Holding(r)' => /\ Holding(r)
                          /\ q.at = req[r].at
                          /\ q.mine = req[r].mine
                          /\ q.clock = req[r].clock,
           Exchanging(r)' => Exchanging(r),
           ResultTrue(r)'
    PROVE  IInv'
<1>1. /\ req' \in [Requests -> Requesting]
      /\ req'[r] = q
      /\ \A s \in Requests : s # r => req'[s] = req[s]
  BY DEF IInv, TypeOK
<1>2. ASSUME NEW s \in Requests
      PROVE  Holding(s)' => Holding(s) /\ SameHold(s)
  BY <1>1 DEF Holding, Exchanging, At, SameHold
<1>3. ASSUME NEW s \in Requests
      PROVE  Exchanging(s)' => Exchanging(s)
  BY <1>1 DEF Exchanging
<1>4. ASSUME NEW s \in Requests
      PROVE  ResultTrue(s)'
  <2>1. CASE s = r
    BY <2>1
  <2>2. CASE s # r
    <3>1. /\ req'[s] = req[s]
          /\ req[s].at \in Letters
          /\ ResultTrue(s)
      BY <1>1, <2>2, Position DEF IInv
    <3>2. /\ mails[req[s].at] \in Nat /\ mails'[req[s].at] \in Nat
          /\ mails'[req[s].at] >= mails[req[s].at]
      BY <3>1 DEF IInv, TypeOK
    <3> QED
      BY <3>1, <3>2 DEF ResultTrue, At
  <2> QED
    BY <2>1, <2>2
<1> QED
  BY <1>1, <1>2, <1>3, <1>4, Quiet

LEMMA IdleType == Idle \in Requesting
  BY DeliveryAssumption DEF Idle, Requesting

\* Where Advance goes.
LEMMA AdvanceStep ==
    ASSUME TypeOK, NEW r \in Requests, Advance(r)
    PROVE  \E q \in Requesting :
               /\ req' = [req EXCEPT ![r] = q]
               /\ q.stage \in {"next", "complete"}
<1>1. CASE req[r].at < NLetters
  <2> DEFINE q == [Idle EXCEPT !.stage = "next", !.at = req[r].at + 1,
                               !.gone = req[r].gone]
  <2>1. req[r].at + 1 \in Letters /\ req[r].gone \in BOOLEAN
    BY <1>1, Position, DeliveryAssumption DEF Requesting
  <2>2. q \in Requesting /\ q.stage = "next"
    BY <2>1, IdleType DEF Requesting, Idle
  <2>3. req' = [req EXCEPT ![r] = q]
    BY <1>1 DEF Advance
  <2> QED
    BY <2>2, <2>3
<1>2. CASE ~(req[r].at < NLetters)
  <2> DEFINE q == [req[r] EXCEPT !.stage = "complete"]
  <2>1. q \in Requesting /\ q.stage = "complete"
    BY Position DEF Requesting
  <2>2. req' = [req EXCEPT ![r] = q]
    BY <1>2 DEF Advance, TypeOK
  <2> QED
    BY <2>1, <2>2
<1> QED
  BY <1>1, <1>2

-----------------------------------------------------------------------------
(* The handler's steps that leave the tables alone.                        *)

\* A request that comes to stand where it holds nothing and records nothing.
LEMMA Released ==
    ASSUME IInv, NEW r \in Requests, NEW q \in Requesting,
           req' = [req EXCEPT ![r] = q], rows' = rows, mails' = mails,
           lost' \in [Letters -> Nat],
           q.stage \notin {"reserved", "sending", "recording"}
    PROVE  IInv'
<1>1. req'[r] = q
  BY DEF IInv, TypeOK
<1>2. ~Holding(r)' /\ ~Exchanging(r)' /\ ResultTrue(r)'
  BY <1>1 DEF Holding, Exchanging, At, ResultTrue
<1>3. mails' \in [Letters -> Nat] /\ \A l \in Letters : mails'[l] >= mails[l]
  BY DEF IInv, TypeOK
<1> QED
  BY <1>2, <1>3, Local

LEMMA StartStep ==
    ASSUME IInv, NEW r \in Requests, Start(r) \/ Begin(r)
    PROVE  IInv'
<1>1. CASE Start(r)
  <2> DEFINE q == [req[r] EXCEPT !.stage = "next"]
  <2>1. q \in Requesting /\ q.stage = "next"
    BY Position DEF IInv, Requesting
  <2>2. req' = [req EXCEPT ![r] = q] /\ rows' = rows /\ mails' = mails
        /\ lost' \in [Letters -> Nat]
    BY <1>1 DEF Start, Move, IInv, TypeOK
  <2> HIDE DEF q
  <2> QED
    BY <2>1, <2>2, Released
<1>2. CASE Begin(r)
  <2> DEFINE q == [req[r] EXCEPT !.stage = "reserving", !.clock = 0]
  <2>0. req[r] \in Requesting /\ 0 \in 0 .. (Window + 1)
    BY Position, DeliveryAssumption DEF IInv
  <2>1. q \in Requesting /\ q.stage = "reserving"
    BY <2>0 DEF Requesting
  <2>2. req' = [req EXCEPT ![r] = q] /\ rows' = rows /\ mails' = mails
        /\ lost' \in [Letters -> Nat]
    BY <1>2 DEF Begin, IInv, TypeOK
  <2> HIDE DEF q
  <2> QED
    BY <2>1, <2>2, Released
<1> QED
  BY <1>1, <1>2

LEMMA LeaveStep ==
    ASSUME IInv, NEW r \in Requests,
           Decline(r) \/ Finish(r) \/ Refuse(r) \/ RecordFails(r)
    PROVE  IInv'
<1>1. req' = [req EXCEPT ![r] = Idle] /\ rows' = rows /\ mails' = mails
  BY DEF Decline, Finish, Refuse, RecordFails, Leave
<1>2. lost' \in [Letters -> Nat]
  <2>1. Unrecorded({r}) \in [Letters -> Nat]
    BY UnrecordedType DEF IInv
  <2>2. lost \in [Letters -> Nat]
    BY DEF IInv, TypeOK
  <2> QED
    BY <2>1, <2>2 DEF Decline, Finish, Refuse, RecordFails
<1>3. Idle \in Requesting /\ Idle.stage = "idle"
  BY IdleType DEF Idle
<1> QED
  BY <1>1, <1>2, <1>3, Released

LEMMA SkipStep ==
    ASSUME IInv, NEW r \in Requests, Skip(r)
    PROVE  IInv'
<1>1. PICK q \in Requesting : /\ req' = [req EXCEPT ![r] = q]
                              /\ q.stage \in {"next", "complete"}
  BY AdvanceStep DEF Skip, IInv
<1>2. rows' = rows /\ mails' = mails /\ lost' \in [Letters -> Nat]
  BY DEF Skip, IInv, TypeOK
<1> QED
  BY <1>1, <1>2, Released

LEMMA DisconnectStep ==
    ASSUME IInv, NEW r \in Requests, Disconnect(r)
    PROVE  IInv'
<1> DEFINE q == [req[r] EXCEPT !.gone = TRUE]
<1>1. q \in Requesting
  BY Position DEF IInv, Requesting
<1>2. /\ q.stage = req[r].stage /\ q.at = req[r].at /\ q.mine = req[r].mine
      /\ q.clock = req[r].clock /\ q.result = req[r].result
  BY Position DEF IInv, Requesting
<1>3. /\ req' = [req EXCEPT ![r] = q]
      /\ rows' = rows /\ mails' = mails /\ lost' = lost
  BY DEF Disconnect
<1> HIDE DEF q
<1>4. req'[r] = q
  BY <1>3 DEF IInv, TypeOK
<1>5. (Holding(r)' => Holding(r)) /\ (Exchanging(r)' => Exchanging(r))
  BY <1>2, <1>4 DEF Holding, Exchanging, At
<1>6. ResultTrue(r)'
  BY <1>2, <1>3, <1>4 DEF IInv, ResultTrue, At
<1>7. /\ mails' \in [Letters -> Nat] /\ lost' \in [Letters -> Nat]
      /\ \A l \in Letters : mails'[l] >= mails[l]
  BY <1>3 DEF IInv, TypeOK
<1> QED
  BY <1>1, <1>2, <1>3, <1>5, <1>6, <1>7, Local

LEMMA ExchangeStep ==
    ASSUME IInv, NEW r \in Requests,
           \/ Send(r) \/ SendFails(r)
           \/ \E acknowledged \in BOOLEAN : Accept(r, acknowledged)
    PROVE  IInv'
<1>1. /\ Exchanging(r)
      /\ rows' = rows
      /\ \/ req' = [req EXCEPT ![r] = [@ EXCEPT !.stage = "sending"]]
         \/ \E result \in {"sent", "failed", "aborted"} :
             /\ req' = [req EXCEPT ![r] = [@ EXCEPT !.stage = "recording",
                                                    !.result = result]]
             /\ result = "sent" => mails' = [mails EXCEPT ![req[r].at] = @ + 1]
      /\ mails' = mails \/ mails' = [mails EXCEPT ![req[r].at] = @ + 1]
      /\ lost' = lost \/ lost' = [lost EXCEPT ![req[r].at] = @ + 1]
  BY DEF Send, SendFails, Accept, Settle, Move, Exchanging, At
<1>2. PICK q \in Requesting :
          /\ req' = [req EXCEPT ![r] = q]
          /\ q.at = req[r].at /\ q.mine = req[r].mine /\ q.clock = req[r].clock
          /\ q.stage \in {"sending", "recording"}
          /\ q.stage = "recording" /\ q.result = "sent"
                 => mails' = [mails EXCEPT ![req[r].at] = @ + 1]
  <2>1. CASE req' = [req EXCEPT ![r] = [@ EXCEPT !.stage = "sending"]]
    <3> DEFINE q == [req[r] EXCEPT !.stage = "sending"]
    <3>1. q \in Requesting /\ q.stage = "sending" /\ q.at = req[r].at
          /\ q.mine = req[r].mine /\ q.clock = req[r].clock
      BY Position DEF IInv, Requesting
    <3>2. req' = [req EXCEPT ![r] = q]
      BY <2>1
    <3> QED
      BY <3>1, <3>2
  <2>2. ASSUME NEW result \in {"sent", "failed", "aborted"},
               req' = [req EXCEPT ![r] = [@ EXCEPT !.stage = "recording",
                                                   !.result = result]],
               result = "sent" => mails' = [mails EXCEPT ![req[r].at] = @ + 1]
        PROVE  \E q \in Requesting :
                 /\ req' = [req EXCEPT ![r] = q]
                 /\ q.at = req[r].at /\ q.mine = req[r].mine
                 /\ q.clock = req[r].clock
                 /\ q.stage \in {"sending", "recording"}
                 /\ q.stage = "recording" /\ q.result = "sent"
                        => mails' = [mails EXCEPT ![req[r].at] = @ + 1]
    <3> DEFINE q == [req[r] EXCEPT !.stage = "recording", !.result = result]
    <3>1. q \in Requesting /\ q.stage = "recording" /\ q.at = req[r].at
          /\ q.mine = req[r].mine /\ q.clock = req[r].clock
          /\ q.result = result
      BY Position DEF IInv, Requesting
    <3>2. req' = [req EXCEPT ![r] = q]
      BY <2>2
    <3> QED
      BY <3>1, <3>2, <2>2
  <2> QED
    BY <1>1, <2>1, <2>2
<1>3. req'[r] = q
  BY <1>2 DEF IInv, TypeOK
<1>4. /\ mails \in [Letters -> Nat] /\ lost \in [Letters -> Nat]
      /\ req[r].at \in Letters
  BY Position DEF IInv, TypeOK
<1>5. /\ mails' \in [Letters -> Nat]
      /\ lost' \in [Letters -> Nat]
      /\ \A l \in Letters : mails'[l] >= mails[l]
  <2>1. ASSUME NEW f \in [Letters -> Nat]
        PROVE  /\ [f EXCEPT ![req[r].at] = @ + 1] \in [Letters -> Nat]
               /\ \A l \in Letters : [f EXCEPT ![req[r].at] = @ + 1][l] >= f[l]
               /\ \A l \in Letters : f[l] >= f[l]
    BY <1>4
  <2>2. lost' \in [Letters -> Nat]
    BY <1>1, <1>4, <2>1
  <2>3. mails' \in [Letters -> Nat] /\ \A l \in Letters : mails'[l] >= mails[l]
    BY <1>1, <1>4, <2>1
  <2> QED
    BY <2>2, <2>3
<1>6. ResultTrue(r)'
  BY <1>2, <1>3, <1>4 DEF ResultTrue, At
<1>7. Holding(r)
  BY <1>1 DEF Holding
<1> QED
  BY <1>1, <1>2, <1>5, <1>6, <1>7, Local

LEMMA CrashStep ==
    ASSUME IInv, Crash
    PROVE  IInv'
<1>1. /\ req' \in [Requests -> Requesting]
      /\ \A r \in Requests : req'[r] = Idle
  BY IdleType DEF Crash
<1>2. \A r \in Requests : ~Holding(r)' /\ ~Exchanging(r)' /\ ResultTrue(r)'
  BY <1>1 DEF Holding, Exchanging, At, ResultTrue, Idle
<1>3. lost' \in [Letters -> Nat]
  BY UnrecordedType DEF Crash, IInv
<1>4. rows' = rows /\ mails' = mails /\ mails \in [Letters -> Nat]
  BY DEF Crash, IInv, TypeOK
<1>5. mails' \in [Letters -> Nat] /\ \A l \in Letters : mails'[l] >= mails[l]
  BY <1>4
<1> QED
  BY <1>1, <1>2, <1>3, <1>4, <1>5, Quiet

-----------------------------------------------------------------------------
(* The two transactions and the clock.                                     *)

\* Age alone never gives a held key away.
LEMMA HeldIsLive ==
    ASSUME IInv, NEW r \in Requests, Holding(r)
    PROVE  HasLive(Key(r))
<1>1. /\ req[r].mine \in DOMAIN rows[Key(r)]
      /\ Mine(r).status = "pending"
      /\ Exchanging(r) => Mine(r).age <= SendMax
      /\ req[r].clock <= Window => Mine(r).age <= req[r].clock
  BY DEF IInv, HoldInv
<1>2. Mine(r) \in Row /\ req[r].clock \in 0 .. (Window + 1)
  BY <1>1, Position, RowsOf DEF IInv, Mine
<1>3. Exchanging(r) \/ req[r].clock <= Window
  BY DEF Holding
<1>4. Mine(r).age < TTL
  BY <1>1, <1>2, <1>3, DeliveryAssumption DEF Row
<1> QED
  BY <1>1, <1>4 DEF HasLive, Fresh, Mine

\* One request moves and one key's rows change; nobody else holds that key.
LEMMA OneKey ==
    ASSUME IInv, NEW r \in Requests, NEW q \in Requesting, NEW t \in Seq(Row),
           NEW k \in Keys, k = Key(r),
           req' = [req EXCEPT ![r] = q],
           rows' = [rows EXCEPT ![k] = t],
           mails' = mails, lost' = lost,
           Len(t) <= MaxAttempts,
           \A s \in Requests : s # r /\ Holding(s) => Key(s) # k,
           Holding(r)' => Key(r)' = k,
           HoldInv(r)', ResultTrue(r)',
           LastCounts(k)', SentTrue(k)'
    PROVE  IInv'
<1>1. /\ req' \in [Requests -> Requesting]
      /\ req'[r] = q
      /\ \A s \in Requests : s # r => req'[s] = req[s]
  BY DEF IInv, TypeOK
<1>2. /\ rows'[k] = t
      /\ rows' \in [Keys -> Seq(Row)]
      /\ \A j \in Keys : j # k => rows'[j] = rows[j]
  BY DEF IInv, TypeOK
<1>3. TypeOK'
  BY <1>1, <1>2 DEF IInv, TypeOK
<1>4. ASSUME NEW s \in Requests, s # r
      PROVE  /\ Holding(s)' <=> Holding(s)
             /\ Exchanging(s)' <=> Exchanging(s)
             /\ Key(s)' = Key(s)
             /\ req'[s] = req[s]
             /\ Holding(s) => rows'[Key(s)] = rows[Key(s)]
  <2>1. Key(s) \in Keys
    BY Position DEF IInv
  <2> QED
    BY <1>1, <1>2, <1>4, <2>1 DEF Holding, Exchanging, At, Key
<1>5. Distinct'
  <2>1. ASSUME NEW s \in Requests, NEW u \in Requests,
               Holding(s)', Holding(u)', Key(s)' = Key(u)'
        PROVE  s = u
    <3>1. CASE s # r /\ u # r
      BY <2>1, <3>1, <1>4 DEF IInv, Distinct
    <3>2. CASE s = r /\ u # r
      BY <2>1, <3>2, <1>4
    <3>3. CASE s # r /\ u = r
      BY <2>1, <3>3, <1>4
    <3> QED
      BY <3>1, <3>2, <3>3
  <2> QED
    BY <2>1 DEF Distinct
<1>6. ASSUME NEW s \in Requests PROVE HoldInv(s)' /\ ResultTrue(s)'
  <2>1. CASE s = r
    BY <2>1
  <2>2. CASE s # r
    <3>1. HoldInv(s)'
      BY <2>2, <1>4 DEF IInv, HoldInv, Mine
    <3>2. ResultTrue(s)'
      BY <2>2, <1>4 DEF IInv, ResultTrue, At
    <3> QED
      BY <3>1, <3>2
  <2> QED
    BY <2>1, <2>2
<1>7. ASSUME NEW j \in Keys
      PROVE  LastCounts(j)' /\ RowsBelong(j)' /\ SentTrue(j)'
  <2>1. CASE j = k
    <3>1. RowsBelong(j)'
      BY <2>1, Position DEF IInv, RowsBelong, Key
    <3> QED
      BY <2>1, <1>2, <3>1 DEF LastCounts, SentTrue, HasSent
  <2>2. CASE j # k
    BY <2>2, <1>2 DEF IInv, LastCounts, RowsBelong, SentTrue, HasSent
  <2> QED
    BY <2>1, <2>2
<1> QED
  BY <1>3, <1>5, <1>6, <1>7 DEF IInv

LEMMA ReserveStep ==
    ASSUME IInv, NEW r \in Requests, Reserve(r)
    PROVE  IInv'
<1>1. PICK k \in Keys : k = Key(r)
  BY Position DEF IInv
<1> DEFINE t == Reserved(k)
           m == Len(rows[k]) + 1
           q == [req[r] EXCEPT !.stage = "reserved", !.mine = m]
<1>2. /\ t \in Seq(Row) /\ Len(t) = m /\ DOMAIN t = 1 .. m
      /\ t[m] = [status |-> "pending", age |-> 0]
      /\ \A n \in 1 .. Len(rows[k]) : t[n] = Interrupt(rows[k][n])
      /\ Len(rows[k]) \in Nat /\ m \in Nat
  BY ReservedRows, RowsOf DEF IInv
<1>3. /\ rows' = [rows EXCEPT ![k] = t] /\ mails' = mails /\ lost' = lost
      /\ req' = [req EXCEPT ![r] = q]
      /\ Free(k) /\ Len(rows[k]) < MaxAttempts /\ req[r].clock <= Window
  BY <1>1 DEF Reserve
<1>4. /\ q \in Requesting /\ q.stage = "reserved" /\ q.mine = m
      /\ q.at = req[r].at /\ q.clock = req[r].clock
  BY <1>2, Position DEF IInv, Requesting
<1> HIDE DEF t, m, q
<1>5. /\ req'[r] = q
      /\ rows'[k] = t
  BY <1>3 DEF IInv, TypeOK
<1>6. Key(r)' = k
  BY <1>1, <1>4, <1>5 DEF Key
<1>7. \A s \in Requests : s # r /\ Holding(s) => Key(s) # k
  BY <1>3, HeldIsLive DEF Free
<1>8. HoldInv(r)'
  <2>1. Mine(r)' = [status |-> "pending", age |-> 0]
    BY <1>2, <1>4, <1>5, <1>6 DEF Mine
  <2>2. req'[r].mine \in DOMAIN rows'[k]
    <3>1. m \in 1 .. m
      BY <1>2 DEF m
    <3> QED
      BY <3>1, <1>2, <1>4, <1>5
  <2>3. req'[r].clock \in 0 .. (Window + 1)
    <3>1. req[r].clock \in 0 .. (Window + 1)
      BY Position DEF IInv
    <3> QED
      BY <1>4, <1>5, <3>1
  <2> QED
    BY <2>1, <2>2, <2>3, <1>6, DeliveryAssumption DEF HoldInv
<1>9. ResultTrue(r)'
  BY <1>4, <1>5 DEF ResultTrue, At
<1>10. ASSUME NEW n \in 1 .. Len(rows[k])
       PROVE  t[n].status = "failed"
  <2>1. rows[k][n] \in Row /\ rows[k][n].status # "sent"
    BY <1>3, RowsOf DEF IInv, Free, HasSent
  <2>2. Interrupt(rows[k][n]) \in Row
        /\ Interrupt(rows[k][n]).status \notin {"pending", "sent"}
    BY <2>1, RowFacts
  <2> QED
    BY <1>2, <2>2 DEF Row
<1>11. LastCounts(k)'
  <2>1. SUFFICES ASSUME NEW n \in 1 .. m, t[n].status # "failed"
                 PROVE  n = m
    BY <1>2, <1>5 DEF LastCounts
  <2>2. n \notin 1 .. Len(rows[k])
    BY <1>10, <2>1
  <2> QED
    BY <1>2, <2>2 DEF m
<1>12. SentTrue(k)'
  <2>1. ASSUME NEW n \in 1 .. m PROVE t[n].status # "sent"
    <3>1. CASE n = m
      BY <1>2, <3>1
    <3>2. CASE n # m
      <4>1. n \in 1 .. Len(rows[k])
        BY <1>2, <3>2 DEF m
      <4> QED
        BY <1>10, <4>1
    <3> QED
      BY <3>1, <3>2
  <2> QED
    BY <2>1, <1>2, <1>5 DEF SentTrue, HasSent
<1>13. Len(t) <= MaxAttempts
  BY <1>2, <1>3, DeliveryAssumption DEF m
<1> QED
  BY <1>1, <1>2, <1>3, <1>4, <1>6, <1>7, <1>8, <1>9, <1>11, <1>12, <1>13, OneKey

LEMMA RecordStep ==
    ASSUME IInv, NEW r \in Requests, Record(r)
    PROVE  IInv'
<1>1. PICK k \in Keys : k = Key(r)
  BY Position DEF IInv
<1> DEFINE m == req[r].mine
           v == Verdict(rows[k][m], req[r].result)
           t == [rows[k] EXCEPT ![m] = v]
<1>2. Holding(r) /\ At(r, "recording")
  BY DEF Record, Holding
<1>3. m \in 1 .. Len(rows[k]) /\ rows[k][m].status = "pending"
  BY <1>1, <1>2, Position DEF IInv, HoldInv, Mine
<1>4. rows[k] \in Seq(Row) /\ Len(rows[k]) \in Nat /\ rows[k][m] \in Row
  BY <1>3, RowsOf DEF IInv
<1>5. v \in Row /\ v.status = (IF req[r].result = "sent" THEN "sent" ELSE "failed")
  BY <1>3, <1>4, RowFacts DEF Verdict
<1>6. /\ rows' = [rows EXCEPT ![k] = t] /\ mails' = mails /\ lost' = lost
  <2>1. rows' = [rows EXCEPT ![Key(r)][req[r].mine] = Verdict(@, req[r].result)]
    BY DEF Record
  <2> QED
    BY <1>1, <2>1 DEF Record
<1>7. PICK q \in Requesting :
          /\ req' = [req EXCEPT ![r] = q]
          /\ q.stage \in {"idle", "next", "complete"}
  <2>1. CASE req[r].result = "aborted"
    BY <2>1, IdleType DEF Record, Leave, Idle
  <2>2. CASE req[r].result # "aborted"
    BY <2>2, AdvanceStep DEF Record, IInv
  <2> QED
    BY <2>1, <2>2
<1> HIDE DEF m, v
<1>8. /\ t \in Seq(Row) /\ Len(t) = Len(rows[k]) /\ DOMAIN t = 1 .. Len(rows[k])
      /\ \A n \in 1 .. Len(rows[k]) : t[n] = IF n = m THEN v ELSE rows[k][n]
  <2>1. /\ t \in Seq(Row) /\ Len(t) = Len(rows[k])
        /\ \A n \in 1 .. Len(rows[k]) : t[n] = IF n = m THEN v ELSE rows[k][n]
    BY <1>3, <1>4, <1>5, ExceptSeq
  <2> QED
    BY <2>1, LenProperties
<1> HIDE DEF t
<1>9. /\ req'[r] = q /\ rows'[k] = t
  BY <1>6, <1>7 DEF IInv, TypeOK
<1>10. ~Holding(r)' /\ HoldInv(r)' /\ ResultTrue(r)'
  BY <1>7, <1>9 DEF Holding, Exchanging, At, HoldInv, ResultTrue
<1>11. \A s \in Requests : s # r /\ Holding(s) => Key(s) # k
  BY <1>1, <1>2 DEF IInv, Distinct
<1>12. m = Len(rows[k])
  BY <1>3, <1>4, LenProperties DEF IInv, LastCounts
<1>13. LastCounts(k)'
  <2>1. SUFFICES ASSUME NEW n \in 1 .. Len(rows[k]), t[n].status # "failed"
                 PROVE  n = Len(rows[k])
    BY <1>8, <1>9 DEF LastCounts
  <2>2. n = m \/ rows[k][n].status # "failed"
    BY <1>8, <2>1
  <2> QED
    BY <1>4, <1>12, <2>1, <2>2, LenProperties DEF IInv, LastCounts
<1>14. SentTrue(k)'
  <2>1. SUFFICES ASSUME HasSent(k)'
                 PROVE  \E l \in Letters : KeyOf[l] = k /\ mails[l] > 0
    BY <1>6 DEF SentTrue
  <2>2. PICK n \in 1 .. Len(rows[k]) : t[n].status = "sent"
    BY <1>8, <1>9, <2>1 DEF HasSent
  <2>3. CASE n = m
    <3>1. req[r].result = "sent"
      BY <1>5, <1>8, <2>2, <2>3
    <3>2. mails[req[r].at] > 0
      BY <3>1, <1>2 DEF IInv, ResultTrue
    <3>3. req[r].at \in Letters /\ KeyOf[req[r].at] = k
      BY <1>1, Position DEF IInv, Key
    <3> QED
      BY <3>2, <3>3
  <2>4. CASE n # m
    BY <1>4, <1>8, <2>2, <2>4, LenProperties DEF IInv, SentTrue, HasSent
  <2> QED
    BY <2>3, <2>4
<1>15. Len(t) <= MaxAttempts
  BY <1>8 DEF IInv, TypeOK
<1> QED
  BY <1>1, <1>6, <1>7, <1>8, <1>10, <1>11, <1>13, <1>14, <1>15, OneKey

\* A minute more changes ages and clocks, and nothing else.
LEMMA TickRows ==
    ASSUME IInv, Tick
    PROVE  /\ rows' \in [Keys -> Seq(Row)]
           /\ \A k \in Keys :
                 /\ Len(rows'[k]) = Len(rows[k])
                 /\ DOMAIN rows'[k] = DOMAIN rows[k]
                 /\ \A n \in DOMAIN rows[k] : rows'[k][n] = Older(rows[k][n])
                 /\ \A n \in DOMAIN rows[k] :
                       rows'[k][n].status = rows[k][n].status
<1>1. rows' = [k \in Keys |-> [n \in DOMAIN rows[k] |-> Older(rows[k][n])]]
  BY DEF Tick
<1>2. ASSUME NEW k \in Keys
      PROVE  /\ rows'[k] \in Seq(Row)
             /\ Len(rows'[k]) = Len(rows[k])
             /\ DOMAIN rows'[k] = DOMAIN rows[k]
             /\ \A n \in DOMAIN rows[k] : rows'[k][n] = Older(rows[k][n])
             /\ \A n \in DOMAIN rows[k] : rows'[k][n].status = rows[k][n].status
  <2> DEFINE p == [n \in DOMAIN rows[k] |-> Older(rows[k][n])]
  <2>1. p \in [DOMAIN rows[k] -> Row]
    BY RowsOf, RowFacts DEF IInv
  <2>2. rows[k] \in Seq(Row)
    BY RowsOf DEF IInv
  <2>3. rows'[k] = p
    BY <1>1
  <2>4. \A n \in DOMAIN rows[k] : p[n] = Older(rows[k][n])
    OBVIOUS
  <2> HIDE DEF p
  <2>5. p \in Seq(Row) /\ Len(p) = Len(rows[k]) /\ DOMAIN p = DOMAIN rows[k]
    BY <2>1, <2>2, Reworked
  <2>6. \A n \in DOMAIN rows[k] : Older(rows[k][n]).status = rows[k][n].status
    BY RowsOf, RowFacts DEF IInv
  <2> QED
    BY <2>3, <2>4, <2>5, <2>6
<1> QED
  BY <1>1, <1>2

LEMMA TickStep ==
    ASSUME IInv, Tick
    PROVE  IInv'
<1>1. ASSUME NEW r \in Requests
      PROVE  /\ req'[r] \in Requesting
             /\ req'[r].stage = req[r].stage
             /\ req'[r].at = req[r].at
             /\ req'[r].mine = req[r].mine
             /\ req'[r].result = req[r].result
             /\ Timed(req[r]) /\ req[r].clock <= Window
                   => req'[r].clock = req[r].clock + 1
             /\ req[r].clock > Window => req'[r].clock = req[r].clock
  <2>1. req[r] \in Requesting /\ req[r].clock \in 0 .. (Window + 1)
    BY Position DEF IInv
  <2>2. req'[r] = IF Timed(req[r]) /\ req[r].clock <= Window
                  THEN [req[r] EXCEPT !.clock = @ + 1]
                  ELSE req[r]
    BY DEF Tick
  <2>3. req[r].clock <= Window => req[r].clock + 1 \in 0 .. (Window + 1)
    BY <2>1, DeliveryAssumption
  <2>4. CASE Timed(req[r]) /\ req[r].clock <= Window
    <3>1. req'[r] = [req[r] EXCEPT !.clock = @ + 1]
      BY <2>2, <2>4
    <3>2. req'[r] \in Requesting
      BY <2>1, <2>3, <2>4, <3>1 DEF Requesting
    <3>3. /\ req'[r].stage = req[r].stage
          /\ req'[r].at = req[r].at
          /\ req'[r].mine = req[r].mine
          /\ req'[r].result = req[r].result
          /\ req'[r].clock = req[r].clock + 1
      BY <2>1, <3>1 DEF Requesting
    <3>4. ~(req[r].clock > Window)
      BY <2>1, <2>4, DeliveryAssumption
    <3> QED
      BY <2>4, <3>2, <3>3, <3>4
  <2>5. CASE ~(Timed(req[r]) /\ req[r].clock <= Window)
    <3>1. req'[r] = req[r]
      BY <2>2, <2>5
    <3> QED
      BY <2>1, <2>5, <3>1
  <2> QED
    BY <2>4, <2>5
<1>2. req' \in [Requests -> Requesting]
  <2>1. DOMAIN req' = Requests /\ req' = [r \in Requests |-> req'[r]]
    BY DEF Tick
  <2> QED
    BY <1>1, <2>1
<1>3. mails' = mails /\ lost' = lost
  BY DEF Tick
<1>4. TypeOK'
  BY <1>2, <1>3, TickRows DEF IInv, TypeOK
<1>5. ASSUME NEW r \in Requests
      PROVE  /\ Key(r)' = Key(r) /\ Key(r) \in Keys
             /\ Exchanging(r)' <=> Exchanging(r)
             /\ Holding(r)' => Holding(r)
  <2>1. Holding(r)' => Holding(r)
    <3>1. req[r].clock \in 0 .. (Window + 1)
      BY Position DEF IInv
    <3> QED
      BY <1>1, <3>1, DeliveryAssumption DEF Holding, Exchanging, At
  <2> QED
    BY <1>1, <2>1, Position DEF IInv, Key, Exchanging
<1>6. Distinct'
  BY <1>5 DEF IInv, Distinct
<1>7. ASSUME NEW r \in Requests PROVE HoldInv(r)' /\ ResultTrue(r)'
  <2>1. ResultTrue(r)'
    BY <1>1, <1>3 DEF IInv, ResultTrue, At
  <2>2. SUFFICES ASSUME Holding(r)' PROVE HoldInv(r)'
    BY <2>1 DEF HoldInv
  <2>3. PICK k \in Keys : k = Key(r)
    BY Position DEF IInv
  <2>4. Holding(r) /\ Key(r)' = k
    BY <1>5, <2>2, <2>3
  <2> DEFINE m == req[r].mine
             row == rows[k][m]
  <2>5. /\ m \in DOMAIN rows[k]
        /\ row.status = "pending"
        /\ Exchanging(r) => row.age <= SendMax
        /\ req[r].clock <= Window => row.age <= req[r].clock
    BY <2>3, <2>4 DEF IInv, HoldInv, Mine
  <2>6. row \in Row /\ Older(row).age <= row.age + 1
        /\ Older(row).status = "pending" /\ Older(row) \in Row
    BY <2>5, RowsOf, RowFacts DEF IInv
  <2>7. /\ Mine(r)' = Older(row)
        /\ req'[r].mine \in DOMAIN rows'[k]
    BY <1>1, <2>4, <2>5, TickRows DEF Mine
  <2>8. Exchanging(r) => row.age < SendMax
    BY <2>3 DEF Tick, Mine
  <2>9. Timed(req[r])
    BY <2>4 DEF Timed, Holding, Exchanging, At
  <2>10. /\ req[r].clock \in 0 .. (Window + 1)
         /\ row.age \in 0 .. TTL
         /\ Older(row).age \in 0 .. TTL
    BY <2>6, Position DEF IInv, Row
  <2> HIDE DEF row, m
  <2>11. Exchanging(r)' => Older(row).age <= SendMax
    BY <1>5, <2>6, <2>8, <2>10, DeliveryAssumption
  <2>12. req'[r].clock <= Window => Older(row).age <= req'[r].clock
    <3>1. CASE req[r].clock <= Window
      <4>1. req'[r].clock = req[r].clock + 1
        BY <1>1, <2>9, <3>1
      <4> QED
        BY <4>1, <3>1, <2>5, <2>6, <2>10, DeliveryAssumption
    <3>2. CASE req[r].clock > Window
      BY <1>1, <3>2, <2>10, DeliveryAssumption
    <3> QED
      BY <3>1, <3>2, <2>10, DeliveryAssumption
  <2> QED
    BY <2>4, <2>6, <2>7, <2>11, <2>12 DEF HoldInv
<1>8. ASSUME NEW k \in Keys
      PROVE  LastCounts(k)' /\ RowsBelong(k)' /\ SentTrue(k)'
  <2>1. /\ Len(rows'[k]) = Len(rows[k])
        /\ DOMAIN rows'[k] = DOMAIN rows[k]
        /\ \A n \in DOMAIN rows[k] : rows'[k][n].status = rows[k][n].status
    BY TickRows
  <2>2. LastCounts(k)' /\ SentTrue(k)'
    BY <2>1, <1>3 DEF IInv, LastCounts, SentTrue, HasSent
  <2>3. rows[k] = <<>> <=> rows'[k] = <<>>
    <3>1. rows[k] \in Seq(Row) /\ rows'[k] \in Seq(Row)
      BY TickRows DEF IInv, TypeOK
    <3> QED
      BY <3>1, <2>1, EmptySeq
  <2> QED
    BY <2>2, <2>3 DEF IInv, RowsBelong
<1> QED
  BY <1>4, <1>6, <1>7, <1>8 DEF IInv

-----------------------------------------------------------------------------
(* The inductive invariant.                                                *)

LEMMA InitIInv == Init => IInv
<1> SUFFICES ASSUME Init PROVE IInv
  OBVIOUS
<1>1. ASSUME NEW k \in Keys
      PROVE  rows[k] = <<>> /\ DOMAIN rows[k] = {} /\ Len(rows[k]) = 0
  BY DEF Init
<1>2. TypeOK
  <2>1. rows \in [Keys -> Seq(Row)]
    BY EmptySeq DEF Init
  <2>2. \A k \in Keys : Len(rows[k]) <= MaxAttempts
    BY <1>1, DeliveryAssumption
  <2> QED
    BY <2>1, <2>2, IdleType DEF Init, TypeOK
<1>3. \A r \in Requests : ~Holding(r) /\ ~At(r, "recording")
  BY DEF Init, Idle, Holding, Exchanging, At
<1>4. \A k \in Keys : LastCounts(k) /\ RowsBelong(k) /\ SentTrue(k)
  BY <1>1 DEF LastCounts, RowsBelong, SentTrue, HasSent
<1> QED
  BY <1>2, <1>3, <1>4 DEF IInv, Distinct, HoldInv, ResultTrue

LEMMA NextIInv == IInv /\ [Next]_vars => IInv'
<1> SUFFICES ASSUME IInv, [Next]_vars PROVE IInv'
  OBVIOUS
<1>1. ASSUME NEW r \in Requests, Start(r) \/ Disconnect(r) \/ Handler(r)
      PROVE  IInv'
  <2>1. CASE Start(r) \/ Begin(r)
    BY <2>1, StartStep
  <2>2. CASE Disconnect(r)
    BY <2>2, DisconnectStep
  <2>3. CASE Decline(r) \/ Finish(r) \/ Refuse(r) \/ RecordFails(r)
    BY <2>3, LeaveStep
  <2>4. CASE Skip(r)
    BY <2>4, SkipStep
  <2>5. CASE Reserve(r)
    BY <2>5, ReserveStep
  <2>6. CASE \/ Send(r) \/ SendFails(r)
             \/ \E acknowledged \in BOOLEAN : Accept(r, acknowledged)
    BY <2>6, ExchangeStep
  <2>7. CASE Record(r)
    BY <2>7, RecordStep
  <2> QED
    BY <1>1, <2>1, <2>2, <2>3, <2>4, <2>5, <2>6, <2>7 DEF Handler
<1>2. CASE Crash
  BY <1>2, CrashStep
<1>3. CASE Tick
  BY <1>3, TickStep
<1>4. CASE UNCHANGED vars
  <2>1. /\ rows' = rows /\ req' = req /\ mails' = mails /\ lost' = lost
    BY <1>4 DEF vars
  <2> QED
    BY <2>1 DEF IInv, TypeOK, Distinct, HoldInv, ResultTrue, LastCounts,
                RowsBelong, SentTrue, Holding, Exchanging, At, Key, Mine, HasSent
<1> QED
  BY <1>1, <1>2, <1>3, <1>4 DEF Next

THEOREM Inductive == Spec => []IInv
<1> QED
  BY InitIInv, NextIInv, PTL DEF Spec

\* Type correctness of rows, requests and counters, for every instance.
THEOREM TypeCorrect == Spec => []TypeOK
<1>1. IInv => TypeOK
  BY DEF IInv
<1> QED
  BY <1>1, Inductive, PTL

\* A live send is never taken over: one holder per unit and party, whose row is
\* still pending when it finalizes it.
THEOREM ReservationExclusive == Spec => []Exclusive
<1>1. IInv => Exclusive
  BY DEF IInv, Distinct, HoldInv, Exclusive
<1> QED
  BY <1>1, Inductive, PTL

\* The log has at most one row per key that is not failed, it is the last, and
\* what the log calls sent, the relay has accepted.
THEOREM SentMeansSent == Spec => []SentOnce
<1>1. IInv => SentOnce
  BY DEF IInv, LastCounts, SentTrue, SentOnce
<1> QED
  BY <1>1, Inductive, PTL

-----------------------------------------------------------------------------
(* What a sent row means for later steps.                                  *)

\* Nobody holds the key of a sent row.
LEMMA SentIsFree ==
    ASSUME IInv, NEW r \in Requests, HasSent(Key(r))
    PROVE  ~Holding(r)
<1> SUFFICES ASSUME Holding(r) PROVE FALSE
  OBVIOUS
<1>1. /\ req[r].mine \in DOMAIN rows[Key(r)]
      /\ rows[Key(r)][req[r].mine].status = "pending"
  BY DEF IInv, HoldInv, Mine
<1>2. PICK n \in DOMAIN rows[Key(r)] : rows[Key(r)][n].status = "sent"
  BY DEF HasSent
<1>3. Key(r) \in Keys
  BY Position DEF IInv
<1>4. n = Len(rows[Key(r)]) /\ req[r].mine = Len(rows[Key(r)])
  BY <1>1, <1>2, <1>3 DEF IInv, LastCounts
<1> QED
  BY <1>1, <1>2, <1>4

LEMMA SentStep ==
    ASSUME IInv, [Next]_vars, NEW l \in Letters, HasSent(KeyOf[l])
    PROVE  mails'[l] = mails[l]
<1>1. ASSUME NEW r \in Requests, NEW acknowledged \in BOOLEAN,
             Accept(r, acknowledged)
      PROVE  mails'[l] = mails[l]
  <2>1. Holding(r)
    BY <1>1 DEF Accept, Holding, Exchanging, At
  <2>2. req[r].at # l
    BY <2>1, SentIsFree DEF Key
  <2> QED
    BY <1>1, <2>2, Position DEF Accept, IInv, TypeOK
<1>2. CASE mails' = mails
  BY <1>2
<1>3. ASSUME NEW r \in Requests, Start(r) \/ Disconnect(r) \/ Handler(r)
      PROVE  mails' = mails \/ \E acknowledged \in BOOLEAN : Accept(r, acknowledged)
  BY <1>3 DEF Start, Disconnect, Handler, Begin, Decline, Finish, Reserve, Skip,
              Refuse, Send, SendFails, Record, RecordFails
<1> QED
  BY <1>1, <1>2, <1>3 DEF Next, Crash, Tick, vars

\* A letter of a key that has a sent row never goes out again.
THEOREM SentStays == Spec => SentIsFinal
<1>1. IInv /\ [Next]_vars
      => [\A l \in Letters : HasSent(KeyOf[l]) => mails'[l] = mails[l]]_vars
  BY SentStep
<1> QED
  BY <1>1, Inductive, PTL DEF Spec, SentIsFinal

\* A sent row stays as it is.
\* The rows of a key that has a sent row never change again.
LEMMA SentRows ==
    ASSUME IInv, [Next]_vars, NEW k \in Keys, HasSent(k)
    PROVE  rows'[k] = rows[k] /\ HasSent(k)'
<1>1. rows'[k] = rows[k]
  <2>1. ASSUME NEW r \in Requests, Reserve(r) \/ Record(r)
        PROVE  rows'[k] = rows[k]
    <3>1. Key(r) # k
      <4>1. CASE Reserve(r)
        BY <4>1 DEF Reserve, Free
      <4>2. CASE Record(r)
        BY <4>2, SentIsFree DEF Record, Holding
      <4> QED
        BY <2>1, <4>1, <4>2
    <3> QED
      BY <2>1, <3>1 DEF Reserve, Record, IInv, TypeOK
  <2>2. CASE Tick
    <3>1. /\ rows[k] \in Seq(Row) /\ rows'[k] \in Seq(Row)
          /\ Len(rows'[k]) = Len(rows[k])
          /\ DOMAIN rows[k] = 1 .. Len(rows[k])
          /\ \A n \in DOMAIN rows[k] : rows[k][n] \in Row
          /\ \A n \in DOMAIN rows[k] : rows'[k][n] = Older(rows[k][n])
      BY <2>2, TickRows, RowsOf DEF IInv
    <3>2. PICK s \in DOMAIN rows[k] : rows[k][s].status = "sent"
      BY DEF HasSent
    <3>3. ASSUME NEW n \in DOMAIN rows[k] PROVE rows[k][n].status # "pending"
      BY <3>2 DEF IInv, LastCounts
    <3>4. ASSUME NEW n \in DOMAIN rows[k] PROVE rows'[k][n] = rows[k][n]
      BY <3>1, <3>3, RowFacts
    <3> QED
      BY <3>1, <3>4, SeqEqual
  <2>3. CASE rows' = rows
    BY <2>3
  <2>4. ASSUME NEW r \in Requests, Start(r) \/ Disconnect(r) \/ Handler(r)
        PROVE  rows' = rows \/ Reserve(r) \/ Record(r)
    BY <2>4 DEF Start, Disconnect, Handler, Begin, Decline, Finish, Skip, Refuse,
                Send, SendFails, Accept, RecordFails
  <2> QED
    BY <2>1, <2>2, <2>3, <2>4 DEF Next, Crash, vars
<1> QED
  BY <1>1 DEF HasSent

-----------------------------------------------------------------------------
(* Copies: every acceptance of a letter is lost, about to be recorded, or   *)
(* the one its sent row stands for.                                         *)

\* Requests that know of an acceptance of l and have not recorded it yet.
Sure(l) == {r \in Requests : At(r, "recording") /\ req[r].result = "sent" /\ req[r].at = l}

Recorded(l) == IF HasSent(KeyOf[l]) THEN 1 ELSE 0
Accounted(l) == mails[l] <= lost[l] + Cardinality(Sure(l)) + Recorded(l)
CopyInv == IInv /\ \A l \in Letters : Accounted(l)

LEMMA SureFinite ==
    ASSUME NEW S \in SUBSET Requests, NEW l
    PROVE  LET late == {r \in S : At(r, "recording") /\ req[r].result = "sent" /\ req[r].at = l}
           IN  IsFiniteSet(late) /\ Cardinality(late) \in Nat
BY DeliveryAssumption, FS_Subset, FS_CardinalityType

LEMMA SureCount ==
    ASSUME TypeOK, NEW l \in Letters
    PROVE  /\ IsFiniteSet(Sure(l)) /\ Cardinality(Sure(l)) \in Nat
           /\ mails[l] \in Nat /\ lost[l] \in Nat /\ KeyOf[l] \in Keys
           /\ Recorded(l) \in {0, 1}
BY SureFinite, DeliveryAssumption DEF Sure, TypeOK, Recorded

\* The move of one request takes it in or out, and nobody else.
LEMMA SureMoves ==
    ASSUME TypeOK, NEW r \in Requests, NEW q, req' = [req EXCEPT ![r] = q], NEW l \in Letters
    PROVE  IF q.stage = "recording" /\ q.result = "sent" /\ q.at = l
           THEN Sure(l)' = Sure(l) \cup {r}
           ELSE Sure(l)' = Sure(l) \ {r}
<1>1. req'[r] = q /\ \A s \in Requests : s # r => req'[s] = req[s]
  BY DEF TypeOK
<1>2. r \in Sure(l)' <=> q.stage = "recording" /\ q.result = "sent" /\ q.at = l
  BY <1>1 DEF Sure, At
<1>3. \A s \in Requests : s # r => (s \in Sure(l)' <=> s \in Sure(l))
  BY <1>1 DEF Sure, At
<1>4. Sure(l) \subseteq Requests /\ Sure(l)' \subseteq Requests
  BY DEF Sure
<1> QED
  BY <1>2, <1>3, <1>4

\* Nothing is accepted and nothing is given up.
LEMMA CopyStays ==
    ASSUME CopyInv, NEW l \in Letters, Sure(l)' = Sure(l), mails'[l] = mails[l],
           lost'[l] = lost[l], HasSent(KeyOf[l]) => HasSent(KeyOf[l])'
    PROVE  Accounted(l)'
<1>1. Recorded(l) <= Recorded(l)' /\ Recorded(l)' \in {0, 1}
  BY DEF Recorded
<1>2. mails[l] <= lost[l] + Cardinality(Sure(l)) + Recorded(l)
  BY DEF CopyInv, Accounted
<1>3. mails'[l] <= lost'[l] + Cardinality(Sure(l)') + Recorded(l)'
  BY <1>1, <1>2, SureCount DEF CopyInv, IInv
<1> QED
  BY <1>3 DEF Accounted

\* Steps of a request that records no acceptance.
LEMMA CopyQuiet ==
    ASSUME CopyInv, [Next]_vars, NEW r \in Requests, NEW q, req' = [req EXCEPT ![r] = q],
           UNCHANGED <<mails, lost>>, NEW l \in Letters,
           r \in Sure(l) <=> (q.stage = "recording" /\ q.result = "sent" /\ q.at = l)
    PROVE  Accounted(l)'
<1>1. Sure(l)' = Sure(l)
  <2>1. TypeOK
    BY DEF CopyInv, IInv
  <2>2. CASE r \in Sure(l)
    <3>1. Sure(l)' = Sure(l) \cup {r}
      BY <2>1, <2>2, SureMoves
    <3> QED
      BY <2>2, <3>1
  <2>3. CASE r \notin Sure(l)
    <3>1. Sure(l)' = Sure(l) \ {r}
      BY <2>1, <2>3, SureMoves
    <3> QED
      BY <2>3, <3>1
  <2> QED
    BY <2>2, <2>3
<1>2. HasSent(KeyOf[l]) => HasSent(KeyOf[l])'
  BY SentRows, SureCount DEF CopyInv, IInv
<1> QED
  BY <1>1, <1>2, CopyStays

LEMMA HandlerCopies ==
    ASSUME CopyInv, [Next]_vars, NEW r \in Requests, NEW l \in Letters,
           \/ Start(r) \/ Disconnect(r) \/ Begin(r) \/ Decline(r) \/ Finish(r)
           \/ Reserve(r) \/ Skip(r) \/ Refuse(r) \/ Send(r) \/ SendFails(r)
    PROVE  Accounted(l)'
<1>0. TypeOK /\ req[r] \in Requesting
  BY Position DEF CopyInv, IInv
<1>1. UNCHANGED <<mails, lost>>
  BY DEF Start, Disconnect, Begin, Decline, Finish, Reserve, Skip, Refuse, Send, SendFails
<1>2. CASE Disconnect(r)
  <2> DEFINE q == [req[r] EXCEPT !.gone = TRUE]
  <2>1. req' = [req EXCEPT ![r] = q]
    BY <1>2 DEF Disconnect
  <2>2. q.stage = req[r].stage /\ q.result = req[r].result /\ q.at = req[r].at
    BY <1>0 DEF Requesting
  <2> HIDE DEF q
  <2> QED
    BY <1>1, <2>1, <2>2, CopyQuiet DEF Sure, At
<1>3. CASE ~Disconnect(r)
  <2>1. r \notin Sure(l)
    BY <1>3 DEF Sure, At, Start, Begin, Decline, Finish, Reserve, Skip, Refuse, Send, SendFails
  <2>2. PICK q : /\ req' = [req EXCEPT ![r] = q]
                 /\ q.stage # "recording" \/ q.result # "sent"
    <3>1. CASE Start(r) \/ Begin(r) \/ Reserve(r)
      <4>1. \E q \in Requesting : /\ req' = [req EXCEPT ![r] = q]
                                  /\ q.stage \in {"next", "reserving", "reserved"}
        <5>1. CASE Start(r)
          <6>1. [req[r] EXCEPT !.stage = "next"] \in Requesting
                /\ [req[r] EXCEPT !.stage = "next"].stage = "next"
            BY <1>0 DEF Requesting
          <6> QED BY <5>1, <6>1 DEF Start, Move
        <5>2. CASE Begin(r)
          <6>0. 0 \in 0 .. (Window + 1)
            BY DeliveryAssumption
          <6>1. [req[r] EXCEPT !.stage = "reserving", !.clock = 0] \in Requesting
                /\ [req[r] EXCEPT !.stage = "reserving", !.clock = 0].stage = "reserving"
            BY <1>0, <6>0 DEF Requesting
          <6> QED BY <5>2, <6>1 DEF Begin
        <5>3. CASE Reserve(r)
          <6> DEFINE m == Len(rows[Key(r)]) + 1
          <6>0. m \in Nat
            BY <1>0, Position, RowsOf
          <6> HIDE DEF m
          <6>1. [req[r] EXCEPT !.stage = "reserved", !.mine = m] \in Requesting
                /\ [req[r] EXCEPT !.stage = "reserved", !.mine = m].stage = "reserved"
            BY <1>0, <6>0 DEF Requesting
          <6> QED BY <5>3, <6>1 DEF Reserve, m
        <5> QED BY <3>1, <5>1, <5>2, <5>3
      <4> QED BY <4>1
    <3>2. CASE Decline(r) \/ Finish(r) \/ Refuse(r)
      <4>1. req' = [req EXCEPT ![r] = Idle] /\ Idle.stage = "idle"
        BY <3>2 DEF Decline, Finish, Refuse, Leave, Idle
      <4> QED BY <4>1
    <3>3. CASE Skip(r)
      BY <1>0, <3>3, AdvanceStep DEF Skip
    <3>4. CASE Send(r) \/ SendFails(r)
      <4>1. CASE req' = [req EXCEPT ![r].stage = "sending"]
        <5>1. [req[r] EXCEPT !.stage = "sending"].stage = "sending"
          BY <1>0 DEF Requesting
        <5> QED BY <4>1, <5>1
      <4>2. ASSUME NEW result \in {"failed", "aborted"},
                   req' = [req EXCEPT ![r].stage = "recording", ![r].result = result]
            PROVE  \E q : /\ req' = [req EXCEPT ![r] = q]
                          /\ q.stage # "recording" \/ q.result # "sent"
        <5>1. [req[r] EXCEPT !.stage = "recording", !.result = result].result = result
          BY <1>0 DEF Requesting
        <5>2. req' = [req EXCEPT ![r] = [req[r] EXCEPT !.stage = "recording", !.result = result]]
          BY <1>0, <4>2 DEF TypeOK
        <5> QED BY <5>1, <5>2
      <4> QED BY <3>4, <4>1, <4>2 DEF Send, SendFails, Settle, Move
    <3> QED BY <1>3, <3>1, <3>2, <3>3, <3>4
  <2> QED
    BY <1>1, <2>1, <2>2, CopyQuiet
<1> QED
  BY <1>2, <1>3

\* The relay takes a letter, and the answer arrives or not.
LEMMA AcceptCopies ==
    ASSUME CopyInv, NEW r \in Requests, NEW acknowledged \in BOOLEAN,
           Accept(r, acknowledged), NEW l \in Letters
    PROVE  Accounted(l)'
<1>0. TypeOK /\ req[r] \in Requesting /\ r \notin Sure(l)
  BY Position DEF CopyInv, IInv, Sure, At, Accept
<1>1. PICK q : /\ req' = [req EXCEPT ![r] = q] /\ q.stage = "recording" /\ q.at = req[r].at
               /\ q.result = IF acknowledged THEN "sent" ELSE "failed"
  <2> DEFINE result == IF acknowledged THEN "sent" ELSE "failed"
             q == [req[r] EXCEPT !.stage = "recording", !.result = result]
  <2>1. req' = [req EXCEPT ![r] = q]
    BY <1>0 DEF Accept, Settle, TypeOK
  <2>2. q.stage = "recording" /\ q.at = req[r].at /\ q.result = result
    BY <1>0 DEF Requesting
  <2> QED
    BY <2>1, <2>2
<1>2. /\ mails' = [mails EXCEPT ![req[r].at] = @ + 1]
      /\ IF acknowledged THEN lost' = lost ELSE lost' = [lost EXCEPT ![req[r].at] = @ + 1]
  BY DEF Accept
<1>3. Recorded(l)' = Recorded(l)
  BY DEF Accept, Recorded, HasSent
<1>4. /\ IsFiniteSet(Sure(l)) /\ Cardinality(Sure(l)) \in Nat
      /\ mails[l] \in Nat /\ lost[l] \in Nat /\ Recorded(l) \in {0, 1}
      /\ mails[l] <= lost[l] + Cardinality(Sure(l)) + Recorded(l)
  BY <1>0, SureCount DEF CopyInv, Accounted
<1>5. mails \in [Letters -> Nat] /\ lost \in [Letters -> Nat]
  BY <1>0 DEF TypeOK
<1>6. CASE req[r].at # l
  <2>1. mails'[l] = mails[l] /\ lost'[l] = lost[l]
    BY <1>2, <1>5, <1>6
  <2>2. Sure(l)' = Sure(l)
    <3>1. Sure(l)' = Sure(l) \ {r}
      BY <1>0, <1>1, <1>6, SureMoves
    <3> QED
      BY <1>0, <3>1
  <2> QED
    BY <1>3, <1>4, <2>1, <2>2 DEF Accounted
<1>7. CASE req[r].at = l /\ acknowledged
  <2>1. mails'[l] = mails[l] + 1 /\ lost'[l] = lost[l]
    BY <1>2, <1>5, <1>7
  <2>2. Sure(l)' = Sure(l) \cup {r}
    BY <1>0, <1>1, <1>7, SureMoves
  <2>3. Cardinality(Sure(l)') = Cardinality(Sure(l)) + 1
    BY <1>0, <1>4, <2>2, FS_AddElement
  <2>4. mails'[l] <= lost'[l] + Cardinality(Sure(l)') + Recorded(l)'
    BY <1>3, <1>4, <2>1, <2>3
  <2> QED
    BY <2>4 DEF Accounted
<1>8. CASE req[r].at = l /\ ~acknowledged
  <2>1. mails'[l] = mails[l] + 1 /\ lost'[l] = lost[l] + 1
    BY <1>2, <1>5, <1>8
  <2>2. Sure(l)' = Sure(l)
    <3>1. Sure(l)' = Sure(l) \ {r}
      BY <1>0, <1>1, <1>8, SureMoves
    <3> QED
      BY <1>0, <3>1
  <2>3. mails'[l] <= lost'[l] + Cardinality(Sure(l)') + Recorded(l)'
    BY <1>3, <1>4, <2>1, <2>2
  <2> QED
    BY <2>3 DEF Accounted
<1> QED
  BY <1>6, <1>7, <1>8

\* The acceptance is recorded: the key has a sent row now, and had none.
LEMMA RecordCopies ==
    ASSUME CopyInv, [Next]_vars, NEW r \in Requests, Record(r), NEW l \in Letters
    PROVE  Accounted(l)'
<1>0. TypeOK /\ IInv /\ Holding(r) /\ At(r, "recording")
  BY DEF CopyInv, IInv, Record, Holding
<1>1. PICK q : req' = [req EXCEPT ![r] = q] /\ q.stage # "recording"
  <2>1. CASE req[r].result = "aborted"
    <3>1. req' = [req EXCEPT ![r] = Idle] /\ Idle.stage = "idle"
      BY <2>1 DEF Record, Leave, Idle
    <3> QED
      BY <3>1
  <2>2. CASE req[r].result # "aborted"
    BY <1>0, <2>2, AdvanceStep DEF Record
  <2> QED
    BY <2>1, <2>2
<1>2. Sure(l)' = Sure(l) \ {r} /\ UNCHANGED <<mails, lost>>
  BY <1>0, <1>1, SureMoves DEF Record
<1>3. HasSent(KeyOf[l]) => HasSent(KeyOf[l])'
  BY <1>0, SentRows, SureCount
<1>4. CASE r \notin Sure(l)
  <2>1. Sure(l)' = Sure(l)
    BY <1>2, <1>4
  <2> QED
    BY <1>2, <1>3, <2>1, CopyStays
<1>5. CASE r \in Sure(l)
  <2>1. req[r].at = l /\ req[r].result = "sent" /\ Key(r) = KeyOf[l] /\ KeyOf[l] \in Keys
    BY <1>0, <1>5, SureCount DEF Sure, Key
  <2>2. ~HasSent(KeyOf[l])
    BY <1>0, <2>1, SentIsFree
  <2>3. HasSent(KeyOf[l])'
    <3> DEFINE k == KeyOf[l]
               m == req[r].mine
    <3>1. m \in DOMAIN rows[k] /\ rows[k][m].status = "pending"
      BY <1>0, <2>1 DEF IInv, HoldInv, Mine
    <3>2. rows' = [rows EXCEPT ![k] = [rows[k] EXCEPT ![m] = Verdict(rows[k][m], "sent")]]
      BY <2>1 DEF Record
    <3>3. rows'[k] = [rows[k] EXCEPT ![m] = Verdict(rows[k][m], "sent")]
      BY <1>0, <2>1, <3>2 DEF TypeOK
    <3>4. Verdict(rows[k][m], "sent").status = "sent"
      BY <3>1 DEF Verdict
    <3>5. rows'[k][m].status = "sent" /\ m \in DOMAIN rows'[k]
      BY <3>1, <3>3, <3>4
    <3> QED
      BY <3>5 DEF HasSent
  <2>4. Recorded(l) = 0 /\ Recorded(l)' = 1
    BY <2>2, <2>3 DEF Recorded
  <2>5. Cardinality(Sure(l)') = Cardinality(Sure(l)) - 1
    BY <1>0, <1>2, <1>5, SureCount, FS_RemoveElement
  <2>6. mails[l] <= lost[l] + Cardinality(Sure(l)) + Recorded(l)
    BY DEF CopyInv, Accounted
  <2>7. mails'[l] <= lost'[l] + Cardinality(Sure(l)') + Recorded(l)'
    BY <1>0, <1>2, <2>4, <2>5, <2>6, SureCount
  <2> QED
    BY <2>7 DEF Accounted
<1> QED
  BY <1>4, <1>5

\* What a failed record or a crash gives up is lost.
LEMMA LostCopies ==
    ASSUME CopyInv, NEW l \in Letters, NEW S \in SUBSET Requests, lost' = Unrecorded(S),
           UNCHANGED <<rows, mails>>, Sure(l)' = Sure(l) \ S
    PROVE  Accounted(l)'
<1> DEFINE late == {r \in S : At(r, "recording") /\ req[r].result = "sent" /\ req[r].at = l}
<1>1. lost'[l] = lost[l] + Cardinality(late)
  BY DEF Unrecorded
<1>2. Sure(l)' = Sure(l) \ late /\ late = Sure(l) \cap late
  BY DEF Sure
<1>3. IsFiniteSet(late) /\ Cardinality(late) \in Nat
  BY SureFinite
<1> HIDE DEF late
<1>4. /\ IsFiniteSet(Sure(l)) /\ Cardinality(Sure(l)) \in Nat
      /\ mails[l] \in Nat /\ lost[l] \in Nat /\ Recorded(l) \in {0, 1}
      /\ mails[l] <= lost[l] + Cardinality(Sure(l)) + Recorded(l)
  BY SureCount DEF CopyInv, IInv, Accounted
<1>5. Cardinality(Sure(l)') = Cardinality(Sure(l)) - Cardinality(late)
  <2>1. Cardinality(Sure(l) \ late) = Cardinality(Sure(l)) - Cardinality(Sure(l) \cap late)
    BY <1>4, FS_Difference
  <2> QED
    BY <1>2, <2>1
<1>6. Recorded(l)' = Recorded(l)
  BY DEF Recorded, HasSent
<1>7. mails'[l] <= lost'[l] + Cardinality(Sure(l)') + Recorded(l)'
  BY <1>1, <1>3, <1>4, <1>5, <1>6
<1> QED
  BY <1>7 DEF Accounted

LEMMA CopyNext == CopyInv /\ [Next]_vars => CopyInv'
<1> SUFFICES ASSUME CopyInv, [Next]_vars, NEW l \in Letters PROVE Accounted(l)'
  BY NextIInv DEF CopyInv
<1>0. IInv /\ TypeOK
  BY DEF CopyInv, IInv
<1>1. ASSUME NEW r \in Requests, Start(r) \/ Disconnect(r) \/ Handler(r) PROVE Accounted(l)'
  <2>1. CASE RecordFails(r)
    <3>1. req' = [req EXCEPT ![r] = Idle] /\ Idle.stage = "idle"
      BY <2>1 DEF RecordFails, Leave, Idle
    <3>2. Sure(l)' = Sure(l) \ {r}
      BY <1>0, <3>1, SureMoves
    <3> QED
      BY <2>1, <3>2, LostCopies DEF RecordFails
  <2> QED
    BY <1>1, <2>1, HandlerCopies, AcceptCopies, RecordCopies DEF Handler
<1>2. CASE Crash
  <2>1. Sure(l)' = {} /\ Sure(l) \subseteq Requests
    BY <1>2 DEF Crash, Sure, At, Idle
  <2>2. Sure(l)' = Sure(l) \ Requests
    BY <2>1
  <2> QED
    BY <1>2, <2>2, LostCopies DEF Crash
<1>3. CASE Tick
  <2>1. \A r \in Requests : /\ req'[r].stage = req[r].stage /\ req'[r].at = req[r].at
                            /\ req'[r].result = req[r].result
    <3> SUFFICES ASSUME NEW r \in Requests
                 PROVE  /\ req'[r].stage = req[r].stage /\ req'[r].at = req[r].at
                        /\ req'[r].result = req[r].result
      OBVIOUS
    <3>1. req[r] \in Requesting
      BY <1>0, Position
    <3>2. req'[r] = [req[r] EXCEPT !.clock = @ + 1] \/ req'[r] = req[r]
      BY <1>3 DEF Tick
    <3> QED
      BY <3>1, <3>2 DEF Requesting
  <2>2. Sure(l)' = Sure(l)
    BY <2>1 DEF Sure, At
  <2>3. UNCHANGED <<mails, lost>> /\ (HasSent(KeyOf[l]) => HasSent(KeyOf[l])')
    BY <1>0, <1>3, SentRows, SureCount DEF Tick
  <2> QED
    BY <2>2, <2>3, CopyStays
<1>4. CASE UNCHANGED vars
  BY <1>4, CopyStays DEF vars, Sure, At, HasSent
<1> QED
  BY <1>1, <1>2, <1>3, <1>4 DEF Next

LEMMA CopyInit == Init => CopyInv
<1> SUFFICES ASSUME Init, NEW l \in Letters PROVE Accounted(l)
  BY InitIInv DEF CopyInv
<1>1. Sure(l) = {} /\ mails[l] = 0 /\ lost[l] = 0
  BY DEF Init, Sure, At, Idle
<1>2. Recorded(l) \in {0, 1}
  BY DEF Recorded
<1> QED
  BY <1>1, <1>2, FS_EmptySet DEF Accounted

\* For any requests, crashes and timeouts: each copy of a letter beyond the
\* first has an acceptance that nobody recorded or will record.
THEOREM CopiesHold == Spec => []CopiesExplained
<1>1. CopyInv => CopiesExplained
  <2> SUFFICES ASSUME CopyInv, NEW l \in Letters
               PROVE  mails[l] <= Unrecorded({r \in Requests : ~Holding(r)})[l] + 1
    BY DEF CopiesExplained
  <2> DEFINE Late == {r \in Requests : ~Holding(r)}
             late == {r \in Late : At(r, "recording") /\ req[r].result = "sent" /\ req[r].at = l}
             held == {r \in Sure(l) : Holding(r)}
  <2>1. Unrecorded(Late)[l] = lost[l] + Cardinality(late)
    BY DEF Unrecorded
  <2>2. /\ IsFiniteSet(Sure(l)) /\ Cardinality(Sure(l)) \in Nat
        /\ mails[l] \in Nat /\ lost[l] \in Nat /\ Recorded(l) \in {0, 1}
        /\ mails[l] <= lost[l] + Cardinality(Sure(l)) + Recorded(l)
    BY SureCount DEF CopyInv, IInv, Accounted
  <2>3. IsFiniteSet(late) /\ Cardinality(late) \in Nat
    BY SureFinite
  <2>4. late = Sure(l) \ held
    BY DEF Sure
  <2>5. \A r \in held : Key(r) = KeyOf[l]
    BY DEF Sure, Key
  <2>6. Cardinality(Sure(l)) + Recorded(l) <= Cardinality(late) + 1
    <3>1. CASE held = {}
      <4>1. late = Sure(l)
        BY <2>4, <3>1
      <4> HIDE DEF late, held
      <4> QED
        BY <2>2, <4>1
    <3>2. CASE held # {}
      <4>1. PICK r \in held : TRUE
        BY <3>2
      <4>2. held = {r} /\ r \in Sure(l) /\ Holding(r)
        BY <2>5, <4>1 DEF Sure, CopyInv, IInv, Distinct
      <4>3. Recorded(l) = 0
        BY <2>5, <4>1, <4>2, SentIsFree DEF Recorded, CopyInv, Sure
      <4>4. Cardinality(Sure(l) \ {r}) = Cardinality(Sure(l)) - 1
        BY <2>2, <4>2, FS_RemoveElement
      <4>5. late = Sure(l) \ {r}
        BY <2>4, <4>2
      <4> HIDE DEF late, held
      <4> QED
        BY <2>2, <4>3, <4>4, <4>5
    <3> QED
      BY <3>1, <3>2
  <2> HIDE DEF late, held
  <2>7. mails[l] <= lost[l] + Cardinality(late) + 1
    BY <2>2, <2>3, <2>6
  <2> QED
    BY <2>1, <2>7
<1> QED
  BY <1>1, CopyInit, CopyNext, PTL DEF Spec

-----------------------------------------------------------------------------
(* The letter run (LetterRun).                                              *)

Closed == {"sent", "cancelled"}

\* What the run adds to the invariant of the deliveries.
RunInv ==
    /\ status \in {"draft", "approved"} \cup Closed
    /\ receipts \subseteq Keys
    /\ status \in Closed => \A k \in Keys : ~Pending(k)
    /\ status = "sent" => \A l \in Letters : HasSent(KeyOf[l])
    /\ \A k \in receipts : HasSent(k)

LetterInv == IInv /\ RunInv

-----------------------------------------------------------------------------
(* The run's steps are steps of the deliveries, or none at all.            *)

LEMMA LetterStep == [LetterNext]_all => [Next]_vars
<1> SUFFICES ASSUME [LetterNext]_all PROVE [Next]_vars
  OBVIOUS
<1>1. ASSUME NEW r \in Requests,
             \/ StartSend(r) \/ BeginLetter(r) \/ DeclineLetter(r)
             \/ ReserveLetter(r) \/ SkipLetter(r)
             \/ Exchange(r) \/ RecordLetter(r)
             \/ FinishSend(r) \/ FinishFails(r)
      PROVE  Start(r) \/ Handler(r)
  BY <1>1 DEF StartSend, BeginLetter, DeclineLetter, ReserveLetter, SkipLetter,
              Exchange, RecordLetter, FinishSend, FinishFails, Handler
<1>2. CASE Surroundings
  BY <1>2 DEF Surroundings, Next
<1>3. CASE Approve \/ Cancel \/ \E k \in Keys : Receipt(k)
  BY <1>3 DEF Approve, Cancel, Receipt
<1>4. CASE UNCHANGED all
  BY <1>4 DEF all
<1> QED
  BY <1>1, <1>2, <1>3, <1>4 DEF LetterNext, Next

-----------------------------------------------------------------------------
(* The rows a closed run leaves.                                           *)

\* Only a reservation makes a row pending.
LEMMA NoNewPending ==
    ASSUME IInv, NEW k \in Keys, ~Pending(k),
           \/ rows' = rows \/ Tick
           \/ \E r \in Requests : Record(r)
    PROVE  ~Pending(k)'
<1>1. CASE rows' = rows
  BY <1>1 DEF Pending
<1>2. CASE Tick
  BY <1>2, TickRows DEF Pending
<1>3. ASSUME NEW r \in Requests, Record(r)
      PROVE  ~Pending(k)'
  <2>1. Key(r) # k
    <3>1. Holding(r)
      BY <1>3 DEF Record, Holding
    <3> QED
      BY <3>1 DEF IInv, HoldInv, Mine, Pending
  <2>2. rows'[k] = rows[k]
    BY <1>3, <2>1 DEF Record, IInv, TypeOK
  <2> QED
    BY <2>2 DEF Pending
<1> QED
  BY <1>1, <1>2, <1>3

\* A key with a sent row has no pending one, and one with rows has a letter.
LEMMA CompleteSettles ==
    ASSUME IInv, Complete, NEW k \in Keys
    PROVE  ~Pending(k)
<1> SUFFICES ASSUME NEW n \in DOMAIN rows[k], rows[k][n].status = "pending"
             PROVE  FALSE
  BY DEF Pending
<1>1. rows[k] # <<>>
  BY RowsOf DEF IInv
<1>2. PICK l \in Letters : KeyOf[l] = k
  BY <1>1 DEF IInv, RowsBelong
<1>3. PICK s \in DOMAIN rows[k] : rows[k][s].status = "sent"
  BY <1>2 DEF Complete, HasSent
<1>4. n = Len(rows[k]) /\ s = Len(rows[k])
  BY <1>3 DEF IInv, LastCounts
<1> QED
  BY <1>3, <1>4

\* No request holds a key when nothing is pending.
LEMMA NobodyHolds ==
    ASSUME IInv, \A k \in Keys : ~Pending(k), NEW r \in Requests
    PROVE  ~Holding(r)
<1>1. Key(r) \in Keys
  BY Position DEF IInv
<1> QED
  BY <1>1 DEF IInv, HoldInv, Mine, Pending

-----------------------------------------------------------------------------
(* The invariant of the run.                                               *)

LEMMA LetterInitInv == LetterInit => LetterInv
<1> SUFFICES ASSUME LetterInit PROVE LetterInv
  OBVIOUS
<1>1. IInv
  BY InitIInv DEF LetterInit
<1>2. RunInv
  BY DEF LetterInit, RunInv, Closed
<1> QED
  BY <1>1, <1>2 DEF LetterInv

\* The sent rows stay, whatever the step.
LEMMA SentKept ==
    ASSUME LetterInv, [LetterNext]_all
    PROVE  /\ IInv'
           /\ \A k \in Keys : HasSent(k) => HasSent(k)'
           /\ \A k \in receipts : HasSent(k)'
           /\ Complete => Complete'
<1>1. IInv'
  BY LetterStep, NextIInv DEF LetterInv
<1>2. \A k \in Keys : HasSent(k) => HasSent(k)'
  BY LetterStep, SentRows DEF LetterInv
<1>3. Complete => Complete'
  BY <1>2, DeliveryAssumption DEF Complete
<1> QED
  BY <1>1, <1>2, <1>3 DEF LetterInv, RunInv

LEMMA LetterNextInv == LetterInv /\ [LetterNext]_all => LetterInv'
<1> SUFFICES ASSUME LetterInv, [LetterNext]_all PROVE RunInv'
  BY SentKept DEF LetterInv
<1>0. /\ IInv /\ RunInv
      /\ \A k \in receipts : HasSent(k)'
      /\ Complete => Complete'
      /\ status = "sent" => Complete
      /\ status \in Closed => \A k \in Keys : ~Pending(k)
  BY SentKept DEF LetterInv, RunInv, Complete
<1>1. ASSUME UNCHANGED run,
             status \in Closed => \A k \in Keys : ~Pending(k)'
      PROVE  RunInv'
  BY <1>0, <1>1 DEF run, RunInv, Complete
<1>2. ASSUME UNCHANGED run, rows' = rows
      PROVE  RunInv'
  <2>1. ASSUME NEW k \in Keys, ~Pending(k) PROVE ~Pending(k)'
    BY <1>2, <2>1 DEF Pending
  <2> QED
    BY <1>0, <1>1, <1>2, <2>1
<1>3. CASE Approve
  BY <1>0, <1>3 DEF Approve, RunInv, Closed
<1>4. CASE Cancel
  <2>1. /\ receipts' = receipts
        /\ \A k \in Keys : Pending(k)' <=> Pending(k)
        /\ status' = Cancelling
    BY <1>4 DEF Cancel, vars, Pending
  <2>2. CASE \E k \in Keys : Pending(k)
    <3>1. UNCHANGED run
      BY <2>1, <2>2 DEF Cancelling, run
    <3> QED
      BY <1>0, <1>1, <2>1, <3>1
  <2>3. CASE ~\E k \in Keys : Pending(k)
    BY <1>0, <2>1, <2>3 DEF Cancelling, RunInv, Closed
  <2> QED
    BY <2>2, <2>3
<1>5. ASSUME NEW k \in Keys, Receipt(k)
      PROVE  RunInv'
  <2>1. /\ status' = status
        /\ receipts' = receipts \cup {k}
        /\ \A j \in Keys : HasSent(j)' <=> HasSent(j)
        /\ \A j \in Keys : Pending(j)' <=> Pending(j)
    BY <1>5 DEF Receipt, vars, HasSent, Pending
  <2>2. HasSent(k)
    BY <1>5 DEF Receipt
  <2> QED
    BY <1>0, <2>1, <2>2 DEF RunInv, Complete
<1>6. ASSUME NEW r \in Requests,
             StartSend(r) \/ BeginLetter(r) \/ DeclineLetter(r) \/ SkipLetter(r)
             \/ Exchange(r) \/ FinishFails(r)
      PROVE  RunInv'
  BY <1>2, <1>6 DEF StartSend, BeginLetter, DeclineLetter, SkipLetter, Exchange,
                    FinishFails, Start, Begin, Decline, Refuse, Skip, Send,
                    SendFails, Accept, Finish
<1>7. ASSUME NEW r \in Requests, ReserveLetter(r)
      PROVE  RunInv'
  <2>1. UNCHANGED run /\ status \notin Closed
    BY <1>7 DEF ReserveLetter, Open, Closed
  <2> QED
    BY <1>1, <2>1
<1>8. ASSUME UNCHANGED run,
             \/ rows' = rows \/ Tick
             \/ \E r \in Requests : Record(r)
      PROVE  RunInv'
  BY <1>0, <1>1, <1>8, NoNewPending
<1>9. ASSUME NEW r \in Requests, RecordLetter(r)
      PROVE  RunInv'
  BY <1>8, <1>9 DEF RecordLetter, RecordFails
<1>10. CASE Surroundings
  BY <1>8, <1>10 DEF Surroundings, Disconnect, Crash
<1>11. ASSUME NEW r \in Requests, FinishSend(r)
       PROVE  RunInv'
  <2>1. rows' = rows /\ receipts' = receipts
    BY <1>11 DEF FinishSend, Finish
  <2>2. CASE status = "approved" /\ Complete
    <3>1. status' = "sent"
      BY <1>11, <2>2 DEF FinishSend
    <3>2. \A k \in Keys : ~Pending(k)
      BY <1>0, <2>2, CompleteSettles
    <3>3. \A k \in Keys : ~Pending(k)'
      BY <2>1, <3>2 DEF Pending
    <3> QED
      BY <1>0, <2>1, <2>2, <3>1, <3>3 DEF RunInv, Complete, Closed
  <2>3. CASE ~(status = "approved" /\ Complete)
    <3>1. UNCHANGED run
      BY <1>11, <2>1, <2>3 DEF FinishSend, run
    <3> QED
      BY <1>2, <2>1, <3>1
  <2> QED
    BY <2>2, <2>3
<1>12. CASE UNCHANGED all
  BY <1>2, <1>12 DEF all, vars
<1> QED
  BY <1>3, <1>4, <1>5, <1>6, <1>7, <1>9, <1>10, <1>11, <1>12 DEF LetterNext

THEOREM RunInductive == LetterSpec => []LetterInv
<1> QED
  BY LetterInitInv, LetterNextInv, PTL DEF LetterSpec

\* A closed run has no reservation left and nobody who could still send.
THEOREM ClosedRunSettled == LetterSpec => []ClosedIsSettled
<1>1. LetterInv => ClosedIsSettled
  BY NobodyHolds DEF LetterInv, RunInv, Closed, ClosedIsSettled
<1> QED
  BY <1>1, RunInductive, PTL

\* A run that says sent has a sent row for every letter.
THEOREM SentRunComplete == LetterSpec => []SentRunIsComplete
<1>1. LetterInv => SentRunIsComplete
  BY DEF LetterInv, RunInv, SentRunIsComplete
<1> QED
  BY <1>1, RunInductive, PTL

\* No letter leaves after the cancellation of its run.
LEMMA CancelledStep ==
    ASSUME LetterInv, [LetterNext]_all, status = "cancelled"
    PROVE  mails' = mails
<1>1. [Next]_vars
  BY LetterStep
<1>2. ASSUME NEW r \in Requests PROVE ~At(r, "sending")
  <2>1. ~Holding(r)
    BY NobodyHolds DEF LetterInv, RunInv, Closed
  <2> QED
    BY <2>1 DEF Holding, Exchanging, At
<1>3. ASSUME NEW r \in Requests, Start(r) \/ Disconnect(r) \/ Handler(r)
      PROVE  mails' = mails
  BY <1>2, <1>3 DEF Start, Disconnect, Handler, Begin, Decline, Finish, Reserve,
                    Skip, Refuse, Send, SendFails, Record, RecordFails, Accept
<1> QED
  BY <1>1, <1>3 DEF Next, Crash, Tick, vars

THEOREM CancelledStops == LetterSpec => CancelStopsLetters
<1>1. LetterInv /\ [LetterNext]_all => [status = "cancelled" => mails' = mails]_all
  BY CancelledStep
<1> QED
  BY <1>1, RunInductive, PTL DEF LetterSpec, CancelStopsLetters

\* A receipt stays beside the row it confirms.
LEMMA ReceiptStep ==
    ASSUME LetterInv, [LetterNext]_all, NEW k \in receipts
    PROVE  rows'[k] = rows[k] /\ HasSent(k)
<1>1. k \in Keys /\ HasSent(k)
  BY DEF LetterInv, RunInv
<1> QED
  BY <1>1, LetterStep, SentRows DEF LetterInv

THEOREM ReceiptsStand == LetterSpec => ReceiptStands
<1>1. LetterInv /\ [LetterNext]_all
      => [\A k \in receipts : rows'[k] = rows[k] /\ HasSent(k)]_all
  BY ReceiptStep
<1> QED
  BY <1>1, RunInductive, PTL DEF LetterSpec, ReceiptStands

=============================================================================
