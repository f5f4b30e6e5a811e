--------------------------- MODULE ChargingProofs ---------------------------
(***************************************************************************)
(* Proofs about Charging for every number of sessions and every delay.     *)
(*                                                                         *)
(* SessionOwned, CommandIsRecorded and RelayRest are not inductive: they   *)
(* speak of the stored state, and an operation in flight carries the state *)
(* it is about to store.  IInv adds what such an operation may carry       *)
(* (InFlight), and that the stored switch age is never above the age of    *)
(* the decisions the relay was sent (Stamped).                             *)
(***************************************************************************)
EXTENDS Charging, TLAPS

-----------------------------------------------------------------------------
(* The inductive invariant *)

\* What an operation between its read and its save may be about to store.
InFlight ==
  op.stage = "persist" =>
    /\ op.write \in {"start", "end", "set"}
    /\ op.send # "none" => op.next.pending = op.send
    /\ op.write = "start" =>
         \/ op.kind = "surplus" /\ op.next.phase = "surplus"
         \/ op.kind = "manual" /\ op.next.phase = "manual_on"
    /\ op.write = "end" => op.prev.active \in Ids /\ op.next.phase \notin Charging
    /\ op.write = "set" =>
         \/ op.next.active = NoSession /\ op.next.phase \notin Charging
         \/ op.next.active = db.active /\ op.next.phase = db.phase
    /\ ~op.strict /\ op.send # "none" => op.retry /\ db.pending = op.send

\* The stored switch age against the decisions sent, and the age the tick
\* checked before it decided.
Stamped ==
  /\ db.sw <= onAge /\ db.sw <= offAge
  /\ op.stage = "persist" =>
       /\ op.next.sw <= onAge /\ op.next.sw <= offAge
       /\ op.send # "none" /\ ~op.retry => op.next.sw = 0
  /\ op.stage = "switch" /\ ~op.retry => db.sw = 0
  /\ op.stage # "none" /\ op.who = "tick" /\ ~op.retry =>
       /\ op.send = "on" => offAge >= MinOff
       /\ op.send = "off" => onAge >= MinOn

Staged ==
  /\ op.stage = "none" => op = Idle
  /\ op.stage = "switch" => op.send # "none"

ShadowInv == ShadowConsistent /\ shadow.st.phase \in {"idle", "surplus"}

IInv ==
  /\ TypeOK
  /\ SessionOwned
  /\ CommandIsRecorded
  /\ Staged
  /\ InFlight
  /\ Stamped
  /\ ShadowInv

-----------------------------------------------------------------------------
(* The decision core *)

\* What every decision of nextChargingState guarantees besides the type of
\* the state it returns.
Sound(s, d) ==
  /\ d.send \in Direction \union {"none"}
  /\ d.start \in BOOLEAN /\ d.end \in BOOLEAN /\ d.retry \in BOOLEAN
  /\ d.next.active = s.active
  /\ d.next.sw \in {s.sw, 0}
  /\ d.send # "none" => d.next.pending = d.send /\ d.next # s
  /\ d.retry => d.send = s.pending /\ ~d.start /\ ~d.end
  /\ d.start => /\ d.next.phase = "surplus" /\ d.send = "on" /\ ~d.end
                /\ s.phase = "idle" /\ s.pending = "none"
  /\ d.end => d.next.phase = "idle"
  /\ ~d.start /\ ~d.end => \/ d.next.phase = s.phase
                           \/ d.next.phase = "idle" /\ s.active = NoSession
  /\ d.send # "none" /\ ~d.retry => d.next.sw = 0
  /\ d.send = "on" /\ ~d.retry => s.sw >= MinOff /\ d.start
  /\ d.send = "off" /\ ~d.retry => s.sw >= MinOn /\ d.end /\ s.phase = "surplus"

\* Setting one field of a controller state to a value of its type.
LEMMA Updates ==
  ASSUME NEW s \in State
  PROVE  /\ \A v \in Phase : [s EXCEPT !.phase = v] \in State
         /\ \A v \in Age : [s EXCEPT !.sw = v] \in State
         /\ \A v \in Age \union {NoTime} : [s EXCEPT !.below = v] \in State
         /\ \A v \in Direction \union {"none"} : [s EXCEPT !.pending = v] \in State
         /\ \A v \in Age \union {NoTime} : [s EXCEPT !.since = v] \in State
         /\ \A v \in {0, 1} : [s EXCEPT !.retries = v] \in State
         /\ \A v \in BOOLEAN : [s EXCEPT !.notified = v] \in State
         /\ \A v \in Ids \union {NoSession} : [s EXCEPT !.active = v] \in State
  BY DEF State

\* Types of the values the state is built from.
LEMMA Values ==
  /\ 0 \in Age /\ Cap \in Age /\ Zero \in State /\ Idle \in Op
  /\ \A a \in Age : Older(a) \in Age /\ Older(a) >= a
  /\ Older(NoTime) = NoTime
  /\ \A s \in State : Grown(s) \in State /\ Settled(s) \in State
  /\ \A s \in State, d \in Direction : Awaiting(s, d) \in State
<1>1. 0 \in Age /\ Cap \in Age
  BY DelaysAssumption DEF Age
<1>2. Zero \in State
  BY <1>1 DEF Zero, State, Phase, Direction
<1>3. Idle \in Op
  BY <1>2 DEF Idle, Op
<1>4. \A a \in Age : Older(a) \in Age /\ Older(a) >= a
  BY DelaysAssumption DEF Age, Older, NoTime
<1>5. Older(NoTime) = NoTime
  BY DEF Older
<1>6. ASSUME NEW s \in State PROVE Grown(s) \in State
  <2>1. s.sw \in Age /\ s.below \in Age \union {NoTime} /\ s.since \in Age \union {NoTime}
    BY DEF State
  <2>2. /\ Older(s.sw) \in Age /\ Older(s.below) \in Age \union {NoTime}
        /\ Older(s.since) \in Age \union {NoTime}
    BY <2>1, <1>4, <1>5
  <2>3. [[[s EXCEPT !.sw = Older(s.sw)] EXCEPT !.below = Older(s.below)]
           EXCEPT !.since = Older(s.since)] \in State
    BY <2>2, Updates
  <2>4. Grown(s) = [[[s EXCEPT !.sw = Older(s.sw)] EXCEPT !.below = Older(s.below)]
                      EXCEPT !.since = Older(s.since)]
    BY DEF Grown, State
  <2> QED
    BY <2>3, <2>4
<1>7. ASSUME NEW s \in State PROVE Settled(s) \in State
  <2> DEFINE a == [s EXCEPT !.pending = "none"]
             b == [a EXCEPT !.since = NoTime]
             c == [b EXCEPT !.retries = 0]
  <2>1. a \in State
    BY Updates
  <2>2. b \in State
    BY <2>1, Updates
  <2>3. c \in State
    BY <2>2, Updates
  <2> QED
    BY <2>3 DEF Settled
<1>8. ASSUME NEW s \in State, NEW d \in Direction PROVE Awaiting(s, d) \in State
  <2> DEFINE a == [s EXCEPT !.pending = d]
             b == [a EXCEPT !.since = 0]
             c == [b EXCEPT !.retries = 0]
             e == [c EXCEPT !.sw = 0]
  <2>1. a \in State
    BY Updates
  <2>2. b \in State
    BY <1>1, <2>1, Updates
  <2>3. c \in State
    BY <2>2, Updates
  <2>4. e \in State
    BY <1>1, <2>3, Updates
  <2> QED
    BY <2>4 DEF Awaiting
<1> QED
  BY <1>1, <1>2, <1>3, <1>4, <1>5, <1>6, <1>7, <1>8

\* The next state of every decision is a controller state.
LEMMA DecideType ==
  ASSUME NEW s \in State, NEW in \in Inputs
  PROVE  Decide(s, in).next \in State
<1> DEFINE low == IF in.feed # "low" THEN NoTime
                  ELSE IF s.below = NoTime THEN 0 ELSE s.below
           off == Awaiting(s, "off")
           on == Awaiting(s, "on")
           stop == /\ in.soc = "low" \/ low >= StopDelay
                   /\ s.sw >= MinOn
<1>1. 0 \in Age /\ "idle" \in Phase /\ "surplus" \in Phase
      /\ "on" \in Direction /\ "off" \in Direction
  BY Values DEF Phase, Direction
<1>2. AwaitConfirm(s, in).next \in State
  <2>1. Settled(s) \in State
    BY Values
  <2>2. [s EXCEPT !.retries = 1] \in State
    BY Updates
  <2>3. [[s EXCEPT !.retries = 1] EXCEPT !.since = 0] \in State
    BY <1>1, <2>2, Updates
  <2>4. [Settled(s) EXCEPT !.phase = "idle"] \in State
    BY <1>1, <2>1, Updates
  <2>5. [[Settled(s) EXCEPT !.phase = "idle"] EXCEPT !.below = NoTime] \in State
    BY <2>4, Updates
  <2> QED
    BY <2>1, <2>3, <2>5 DEF AwaitConfirm, Keep
<1>3. [s EXCEPT !.phase = "idle"] \in State
  BY <1>1, Updates
<1>4. [[s EXCEPT !.phase = "idle"] EXCEPT !.sw = 0] \in State
  BY <1>1, <1>3, Updates
<1>5. InSurplus(s, in).next \in State
  <2>1. [[[s EXCEPT !.phase = "idle"] EXCEPT !.sw = 0] EXCEPT !.below = NoTime] \in State
    BY <1>4, Updates
  <2>2. ExternallyOff(s).next \in State
    BY <2>1 DEF ExternallyOff, Keep
  <2>3. low \in Age \union {NoTime}
    BY <1>1 DEF State
  <2>4. [s EXCEPT !.below = low] \in State
    BY <2>3, Updates
  <2>5. off \in State
    BY <1>1, Values
  <2>6. [off EXCEPT !.phase = "idle"] \in State
    BY <1>1, <2>5, Updates
  <2>7. [[off EXCEPT !.phase = "idle"] EXCEPT !.below = NoTime] \in State
    BY <2>6, Updates
  <2>8. CASE ~in.plug
    BY <2>2, <2>8 DEF InSurplus
  <2>9. CASE in.plug /\ ~stop
    BY <2>4, <2>9 DEF InSurplus, Keep
  <2>10. CASE in.plug /\ stop
    BY <2>7, <2>10 DEF InSurplus, Keep
  <2> QED
    BY <2>8, <2>9, <2>10
<1>6. InManual(s, in).next \in State
  BY <1>4 DEF InManual, Keep
<1>7. InIdle(s, in).next \in State
  <2>1. on \in State
    BY <1>1, Values
  <2>2. [on EXCEPT !.phase = "surplus"] \in State
    BY <1>1, <2>1, Updates
  <2>3. [[on EXCEPT !.phase = "surplus"] EXCEPT !.below = NoTime] \in State
    BY <2>2, Updates
  <2> QED
    BY <2>3 DEF InIdle, Keep
<1>8. Keep(s).next \in State
  BY DEF Keep
<1>9. s.phase \in {"surplus", "manual_on", "manual_off", "idle"}
  BY DEF State, Phase
<1> QED
  BY <1>2, <1>5, <1>6, <1>7, <1>8, <1>9 DEF Decide

\* The confirmation branch of nextChargingState.
LEMMA AwaitConfirmSound ==
  ASSUME NEW s \in State, NEW in \in Inputs, s.pending # "none"
  PROVE  Sound(s, AwaitConfirm(s, in))
<1> USE DEF Sound, AwaitConfirm, Keep, State, Direction
<1>1. CASE in.plug = (s.pending = "on")
  BY <1>1 DEF Settled
<1>2. CASE ~(in.plug = (s.pending = "on")) /\ s.since < ConfirmTimeout
  BY <1>2
<1>3. CASE ~(in.plug = (s.pending = "on")) /\ ~(s.since < ConfirmTimeout) /\ ~GivesUp(s)
  <2> DEFINE n == [s EXCEPT !.retries = 1, !.since = 0]
             d == [Keep(n) EXCEPT !.send = s.pending, !.retry = TRUE]
  <2>1. AwaitConfirm(s, in) = d
    BY <1>3
  <2>2. n.retries = 1 /\ s.retries # 1
    BY <1>3 DEF GivesUp
  <2>3. n # s /\ n.active = s.active /\ n.sw = s.sw /\ n.pending = s.pending /\ n.phase = s.phase
    BY <2>2
  <2> HIDE DEF n, AwaitConfirm
  <2> QED
    BY <2>1, <2>3
<1>4. CASE ~(in.plug = (s.pending = "on")) /\ ~(s.since < ConfirmTimeout) /\ GivesUp(s)
  BY <1>4 DEF Settled
<1> QED
  BY <1>1, <1>2, <1>3, <1>4

\* The surplus branch.
LEMMA InSurplusSound ==
  ASSUME NEW s \in State, NEW in \in Inputs, s.pending = "none", s.phase = "surplus"
  PROVE  Sound(s, InSurplus(s, in))
<1> DEFINE low == IF in.feed # "low" THEN NoTime
                  ELSE IF s.below = NoTime THEN 0 ELSE s.below
           stop == /\ in.soc = "low" \/ low >= StopDelay
                   /\ s.sw >= MinOn
<1> USE DEF Sound, Keep, State, Direction
<1>1. CASE ~in.plug
  BY <1>1 DEF InSurplus, ExternallyOff
<1>2. CASE in.plug /\ ~stop
  BY <1>2 DEF InSurplus
<1>3. CASE in.plug /\ stop
  <2> DEFINE n == [Awaiting(s, "off") EXCEPT !.phase = "idle", !.below = NoTime]
             d == [Keep(n) EXCEPT !.send = "off", !.end = TRUE]
  <2>1. InSurplus(s, in) = d
    BY <1>3 DEF InSurplus
  <2>2. n.phase = "idle" /\ n.pending = "off" /\ n.sw = 0 /\ n.active = s.active
    BY DEF Awaiting
  <2>3. n # s /\ s.sw >= MinOn
    BY <1>3, <2>2
  <2> HIDE DEF n
  <2> QED
    BY <2>1, <2>2, <2>3
<1> QED
  BY <1>1, <1>2, <1>3

\* The idle branch.
LEMMA InIdleSound ==
  ASSUME NEW s \in State, NEW in \in Inputs, s.pending = "none", s.phase = "idle"
  PROVE  Sound(s, InIdle(s, in))
<1> DEFINE stay == in.plug \/ in.soc # "high" \/ in.feed # "high" \/ s.sw < MinOff
           n == [Awaiting(s, "on") EXCEPT !.phase = "surplus", !.below = NoTime]
           d == [Keep(n) EXCEPT !.send = "on", !.start = TRUE]
<1> USE DEF Sound, Keep, State, Direction
<1>1. CASE stay
  BY <1>1 DEF InIdle
<1>2. CASE ~stay
  <2>1. InIdle(s, in) = d
    BY <1>2 DEF InIdle
  <2>2. n.phase = "surplus" /\ n.pending = "on" /\ n.sw = 0 /\ n.active = s.active
    BY DEF Awaiting
  <2>3. n # s
    BY <2>2
  <2>4. s.sw >= MinOff
    BY <1>2, DelaysAssumption DEF Age
  <2> HIDE DEF n
  <2> QED
    BY <2>1, <2>2, <2>3, <2>4
<1> QED
  BY <1>1, <1>2

\* Every branch together.
LEMMA DecideSound ==
  ASSUME NEW s \in State, NEW in \in Inputs
  PROVE  Sound(s, Decide(s, in))
<1>1. CASE s.pending # "none"
  BY <1>1, AwaitConfirmSound DEF Decide
<1>2. CASE s.pending = "none" /\ s.phase = "surplus"
  BY <1>2, InSurplusSound DEF Decide
<1>3. CASE s.pending = "none" /\ s.phase = "manual_on"
  <2>1. Decide(s, in) = InManual(s, in)
    BY <1>3 DEF Decide
  <2> DEFINE n == [s EXCEPT !.phase = "idle", !.sw = 0]
  <2>2. n.phase = "idle" /\ n.sw = 0 /\ n.active = s.active
    BY DEF State
  <2>3. CASE in.plug
    BY <2>1, <2>3, <1>3 DEF InManual, Sound, Keep, State, Direction
  <2>4. CASE ~in.plug
    <3> HIDE DEF n
    <3>1. InManual(s, in) = [Keep(n) EXCEPT !.end = (s.active # NoSession)]
      BY <2>4 DEF InManual, n
    <3> QED
      BY <2>1, <2>2, <3>1 DEF Sound, Keep
  <2> QED
    BY <2>3, <2>4
<1>4. CASE s.pending = "none" /\ s.phase = "manual_off"
  <2>1. Decide(s, in) = Keep(s)
    BY <1>4 DEF Decide
  <2> QED
    BY <2>1, <1>4 DEF Sound, Keep, State, Direction
<1>5. CASE s.pending = "none" /\ s.phase = "idle"
  BY <1>5, InIdleSound DEF Decide
<1>6. s.phase \in {"surplus", "manual_on", "manual_off", "idle"}
  BY DEF State, Phase
<1> QED
  BY <1>1, <1>2, <1>3, <1>4, <1>5, <1>6

-----------------------------------------------------------------------------
(* Preservation, action by action *)

\* The operation a good reading starts.
LEMMA TickOpInv ==
  ASSUME NEW in \in Inputs, db \in State, SessionOwned,
         WriteOf(db, Decide(db, in)) # "none" \/ Decide(db, in).send # "none"
  PROVE  LET d == Decide(db, in)
             o == TickOp(db, d)
         IN /\ o \in Op
            /\ o.stage = "persist"
            /\ o.write \in {"start", "end", "set"}
            /\ o.send # "none" => o.next.pending = o.send
            /\ o.write = "start" => o.kind = "surplus" /\ o.next.phase = "surplus"
            /\ o.write = "end" => o.prev.active \in Ids /\ o.next.phase \notin Charging
            /\ o.write = "set" =>
                 \/ o.next.active = NoSession /\ o.next.phase \notin Charging
                 \/ o.next.active = db.active /\ o.next.phase = db.phase
            /\ ~o.strict /\ o.send # "none" => o.retry /\ db.pending = o.send
            /\ o.next.sw \in {db.sw, 0}
            /\ o.send # "none" /\ ~o.retry => o.next.sw = 0
            /\ o.send = "on" /\ ~o.retry => db.sw >= MinOff
            /\ o.send = "off" /\ ~o.retry => db.sw >= MinOn
<1> DEFINE d == Decide(db, in)
           o == TickOp(db, d)
           w == WriteOf(db, d)
<1>1. Sound(db, d) /\ d.next \in State
  BY DecideSound, DecideType
<1>2. /\ o.stage = "persist" /\ o.write = w /\ o.strict = (w \in {"start", "end"})
      /\ o.prev = db /\ o.next = d.next /\ o.kind = "surplus" /\ o.send = d.send
      /\ o.retry = d.retry /\ o.who = "tick"
  BY DEF TickOp
<1>2a. w # "none" \/ d.send # "none"
  OBVIOUS
<1> HIDE DEF d
<1>3. w \in {"start", "end", "set"}
  BY <1>1, <1>2a DEF WriteOf, Sound
<1>4. o \in Op
  <2>1. w \in {"none", "start", "end", "set"}
    BY <1>3
  <2> HIDE DEF w
  <2> QED
    BY <1>1, <2>1 DEF TickOp, Op, Sound, w
<1>5. w = "start" => d.start
  BY DEF WriteOf
<1>6. w = "end" => d.end /\ db.active # NoSession
  BY DEF WriteOf
<1>7. w = "set" => ~d.start /\ (d.end => db.active = NoSession)
  BY DEF WriteOf
<1>8. db.active \in Ids \union {NoSession}
  BY DEF State
<1>9. db.phase = "surplus" => db.active # NoSession
  BY DEF SessionOwned, Charging
<1> HIDE DEF o, w
<1>10. w = "set" /\ d.send # "none" => d.retry
  BY <1>1, <1>7, <1>9 DEF Sound, Direction
<1>11. w = "set" =>
         \/ d.next.active = NoSession /\ d.next.phase \notin Charging
         \/ d.next.active = db.active /\ d.next.phase = db.phase
  BY <1>1, <1>7 DEF Sound, Charging
<1>12. w = "end" => db.active \in Ids /\ d.next.phase \notin Charging
  BY <1>1, <1>6, <1>8 DEF Sound, Charging
<1>13. w = "start" => d.next.phase = "surplus"
  BY <1>1, <1>5 DEF Sound
<1>14. ~o.strict => w = "set"
  BY <1>2, <1>3
<1>15. ~o.strict /\ o.send # "none" => o.retry /\ db.pending = o.send
  BY <1>1, <1>2, <1>10, <1>14 DEF Sound
<1>16. /\ d.next.sw \in {db.sw, 0}
       /\ d.send # "none" /\ ~d.retry => d.next.sw = 0
       /\ d.send = "on" /\ ~d.retry => db.sw >= MinOff
       /\ d.send = "off" /\ ~d.retry => db.sw >= MinOn
       /\ d.send # "none" => d.next.pending = d.send
  BY <1>1 DEF Sound
<1>17. o.send # "none" => o.next.pending = o.send
  BY <1>2, <1>16
<1> QED
  BY <1>2, <1>3, <1>4, <1>11, <1>12, <1>13, <1>15, <1>16, <1>17 DEF o, d

\* A live reading: the operation carries what TickOpInv says.
LEMMA TickLiveInv ==
  ASSUME IInv, NEW in \in Inputs, NEW stored \in BOOLEAN, TickLive(in, stored)
  PROVE  IInv'
<1> DEFINE d == Decide(db, in)
           idle == WriteOf(db, d) = "none" /\ d.send = "none"
<1>1. /\ db \in State /\ SessionOwned /\ Stamped /\ ShadowInv /\ TypeOK
      /\ onAge \in Int /\ offAge \in Int /\ db.sw \in Int
  BY DEF IInv, TypeOK, State, Age
<1>2. UNCHANGED <<open, mode, plug, cmd, shadow, recovered, onAge, offAge>>
  BY DEF TickLive, world
<1>3. /\ db' \in State /\ db'.phase = db.phase /\ db'.active = db.active
      /\ db'.pending = db.pending /\ db'.sw = db.sw
  <2>1. db' = db \/ db' = [db EXCEPT !.notified = FALSE]
    BY DEF TickLive
  <2> QED
    BY <1>1, <2>1 DEF State
<1>4. SessionOwned'
  BY <1>1, <1>2, <1>3 DEF SessionOwned
<1>5. ShadowInv'
  BY <1>1, <1>2 DEF ShadowInv, ShadowConsistent
<1>6. op' = IF idle THEN Idle ELSE TickOp(db, d)
  BY DEF TickLive
<1>7. fails' = 0 /\ 0 \in 0 .. FailLimit + 1
  BY DelaysAssumption DEF TickLive
<1> HIDE DEF d, idle
<1>8. CASE idle
  <2>1. op' = Idle
    BY <1>6, <1>8
  <2>2. TypeOK'
    BY <1>1, <1>2, <1>3, <1>7, <2>1, Values DEF TypeOK
  <2>3. Stamped'
    BY <1>1, <1>2, <1>3, <2>1 DEF Stamped, Idle
  <2> QED
    BY <1>4, <1>5, <2>1, <2>2, <2>3
    DEF IInv, CommandIsRecorded, Staged, InFlight, Idle
<1>9. CASE ~idle
  <2> DEFINE o == TickOp(db, d)
  <2>1. op' = o
    BY <1>6, <1>9
  <2>2. /\ o \in Op
        /\ o.stage = "persist"
        /\ o.write \in {"start", "end", "set"}
        /\ o.send # "none" => o.next.pending = o.send
        /\ o.write = "start" => o.kind = "surplus" /\ o.next.phase = "surplus"
        /\ o.write = "end" => o.prev.active \in Ids /\ o.next.phase \notin Charging
        /\ o.write = "set" =>
             \/ o.next.active = NoSession /\ o.next.phase \notin Charging
             \/ o.next.active = db.active /\ o.next.phase = db.phase
        /\ ~o.strict /\ o.send # "none" => o.retry /\ db.pending = o.send
        /\ o.next.sw \in {db.sw, 0}
        /\ o.send # "none" /\ ~o.retry => o.next.sw = 0
        /\ o.send = "on" /\ ~o.retry => db.sw >= MinOff
        /\ o.send = "off" /\ ~o.retry => db.sw >= MinOn
    BY <1>1, <1>9, TickOpInv DEF idle, d
  <2> HIDE DEF o
  <2>3. TypeOK'
    BY <1>1, <1>2, <1>3, <1>7, <2>1, <2>2 DEF TypeOK
  <2>4. InFlight'
    BY <1>3, <2>1, <2>2 DEF InFlight
  <2>5. Stamped'
    <3>1. db.sw <= onAge /\ db.sw <= offAge
      BY <1>1 DEF Stamped
    <3>2. onAge \in Age /\ offAge \in Age /\ db.sw \in Age
      BY <1>1 DEF TypeOK, State
    <3> QED
      BY <1>2, <1>3, <2>1, <2>2, <3>1, <3>2, DelaysAssumption DEF Stamped, Age
  <2> QED
    BY <1>4, <1>5, <2>1, <2>2, <2>3, <2>4, <2>5
    DEF IInv, CommandIsRecorded, Staged
<1> QED
  BY <1>8, <1>9

\* The shadow machine only ever starts and stops its virtual plug.
LEMMA TickShadowInv ==
  ASSUME IInv, NEW in \in Inputs, NEW stored \in BOOLEAN, TickShadow(in, stored)
  PROVE  IInv'
<1> DEFINE s == shadow.st
           d == Decide(s, in)
<1>1. /\ db \in State /\ SessionOwned /\ Stamped /\ ShadowInv /\ TypeOK
      /\ op = Idle
  BY DEF IInv, TypeOK, TickShadow, Free
<1>2. UNCHANGED <<open, mode, plug, cmd, op, recovered, onAge, offAge>>
  BY DEF TickShadow, world
<1>3. /\ db' \in State /\ db'.phase = db.phase /\ db'.active = db.active
      /\ db'.pending = db.pending /\ db'.sw = db.sw
  <2>1. db' = db \/ db' = [db EXCEPT !.notified = FALSE]
    BY DEF TickShadow
  <2> QED
    BY <1>1, <2>1 DEF State
<1>4. fails' = 0 /\ 0 \in 0 .. FailLimit + 1
  BY DelaysAssumption DEF TickShadow
<1>5. /\ s \in State /\ s.pending = "none" /\ s.active = NoSession
      /\ s.phase \in {"idle", "surplus"} /\ in.plug = (s.phase = "surplus")
  <2>1. shadow.plug = (s.phase = "surplus") /\ s \in State
    BY <1>1 DEF ShadowInv, ShadowConsistent, TypeOK
  <2> QED
    BY <1>1, <2>1 DEF TickShadow, VirtualPlug, ShadowInv, ShadowConsistent
<1>6. d.next \in State
  BY <1>5, DecideType
<1>7. \/ /\ d.send = "none" /\ d.next.phase = s.phase /\ d.next.pending = "none"
         /\ d.next.active = NoSession
      \/ /\ d.send = "on" /\ d.next.phase = "surplus" /\ d.next.active = NoSession
      \/ /\ d.send = "off" /\ d.next.phase = "idle" /\ d.next.active = NoSession
  <2>1. CASE s.phase = "surplus"
    <3>1. d = InSurplus(s, in)
      BY <1>5, <2>1 DEF Decide
    <3>2. in.plug
      BY <1>5, <2>1
    <3> QED
      BY <3>1, <3>2, <1>5, <2>1 DEF InSurplus, Keep, Awaiting, State
  <2>2. CASE s.phase = "idle"
    <3>1. d = InIdle(s, in)
      BY <1>5, <2>2 DEF Decide
    <3> QED
      BY <3>1, <1>5, <2>2 DEF InIdle, Keep, Awaiting, State
  <2> QED
    BY <1>5, <2>1, <2>2
<1>8. shadow' = IF d.send = "none" THEN [shadow EXCEPT !.st = d.next]
                ELSE [st |-> Settled(d.next), plug |-> d.send = "on"]
  BY DEF TickShadow
<1>9. shadow \in [st : State, plug : BOOLEAN] /\ shadow.plug = (s.phase = "surplus")
  BY <1>1 DEF TypeOK, ShadowInv, ShadowConsistent
<1> HIDE DEF d, s
<1>10. Settled(d.next) \in State /\ Settled(d.next).pending = "none"
       /\ Settled(d.next).phase = d.next.phase /\ Settled(d.next).active = d.next.active
  BY <1>6, Values DEF Settled, State
<1>11. shadow' \in [st : State, plug : BOOLEAN] /\ ShadowInv'
  <2>1. CASE d.send = "none"
    BY <2>1, <1>5, <1>6, <1>7, <1>8, <1>9 DEF ShadowInv, ShadowConsistent
  <2>2. CASE d.send # "none"
    BY <2>2, <1>7, <1>8, <1>10 DEF ShadowInv, ShadowConsistent
  <2> QED
    BY <2>1, <2>2
<1>12. TypeOK'
  BY <1>1, <1>2, <1>3, <1>4, <1>11 DEF TypeOK
<1>13. SessionOwned'
  BY <1>1, <1>2, <1>3 DEF SessionOwned
<1>14. Stamped'
  BY <1>1, <1>2, <1>3 DEF Stamped, Idle
<1> QED
  BY <1>1, <1>2, <1>11, <1>12, <1>13, <1>14
  DEF IInv, CommandIsRecorded, Staged, InFlight, Idle

\* An unusable reading touches the failure count and the alert only.
LEMMA TickFailedInv ==
  ASSUME IInv, NEW stored \in BOOLEAN, TickFailed(stored)
  PROVE  IInv'
<1>1. /\ db \in State /\ SessionOwned /\ Stamped /\ ShadowInv /\ TypeOK
      /\ op = Idle
  BY DEF IInv, TypeOK, TickFailed, Free
<1>2. UNCHANGED <<open, mode, plug, cmd, op, shadow, recovered, onAge, offAge>>
  BY DEF TickFailed, world
<1>3. /\ db' \in State /\ db'.phase = db.phase /\ db'.active = db.active
      /\ db'.pending = db.pending /\ db'.sw = db.sw
  <2>1. db' = db \/ db' = [db EXCEPT !.notified = TRUE]
    BY DEF TickFailed
  <2> QED
    BY <1>1, <2>1 DEF State
<1>4. fails' \in 0 .. FailLimit + 1
  BY <1>1, DelaysAssumption DEF TickFailed, TypeOK
<1>5. TypeOK'
  BY <1>1, <1>2, <1>3, <1>4 DEF TypeOK
<1>6. SessionOwned' /\ ShadowInv'
  BY <1>1, <1>2, <1>3 DEF SessionOwned, ShadowInv, ShadowConsistent
<1>7. Stamped'
  BY <1>1, <1>2, <1>3 DEF Stamped, Idle
<1> QED
  BY <1>1, <1>2, <1>5, <1>6, <1>7
  DEF IInv, CommandIsRecorded, Staged, InFlight, Idle

\* What a request or the recovery may put in flight keeps the invariant.
LEMMA Begins ==
  ASSUME IInv, op = Idle, op' \in Op, recovered' \in BOOLEAN,
         UNCHANGED <<db, open, mode, world, fails, shadow, history>>,
         op'.stage = "persist", op'.who # "tick", op'.strict,
         op'.send # "none" => op'.next.pending = op'.send /\ op'.next.sw = 0,
         op'.next.sw \in {db.sw, 0},
         \/ /\ op'.write = "start" /\ op'.kind = "manual"
            /\ op'.next.phase = "manual_on"
         \/ /\ op'.write = "end" /\ op'.prev.active \in Ids
            /\ op'.next.phase \notin Charging
         \/ /\ op'.write = "set" /\ op'.next.active = NoSession
            /\ op'.next.phase \notin Charging
  PROVE  IInv'
<1>1. /\ SessionOwned /\ Stamped /\ ShadowInv /\ TypeOK
      /\ onAge \in Age /\ offAge \in Age /\ db.sw \in Age
  BY DEF IInv, TypeOK, State
<1>2. UNCHANGED <<db, open, mode, plug, cmd, fails, shadow, onAge, offAge>>
  BY DEF world, history
<1>3. TypeOK'
  BY <1>1, <1>2 DEF TypeOK
<1>4. SessionOwned' /\ ShadowInv'
  BY <1>1, <1>2 DEF SessionOwned, ShadowInv, ShadowConsistent
<1>5. Stamped'
  BY <1>1, <1>2 DEF Stamped, Age
<1>6. InFlight'
  BY <1>2 DEF InFlight
<1> QED
  BY <1>3, <1>4, <1>5, <1>6 DEF IInv, CommandIsRecorded, Staged

\* The state a user's decision for direction d and phase p stores: a request
\* for "on" or "off" clears BelowStopSince, the return to automatic does not.
Cleared(s, d, p) == [Awaiting(s, d) EXCEPT !.phase = p, !.below = NoTime]
Uncleared(s, d, p) == [Awaiting(s, d) EXCEPT !.phase = p]

\* What both have in common.
LEMMA AwaitingFields ==
  ASSUME NEW s \in State, NEW d \in Direction, NEW p \in Phase
  PROVE  LET a == Cleared(s, d, p)
             b == Uncleared(s, d, p)
         IN /\ a \in State /\ a.phase = p /\ a.pending = d /\ a.sw = 0
            /\ a.active = s.active
            /\ b \in State /\ b.phase = p /\ b.pending = d /\ b.sw = 0
            /\ b.active = s.active
<1>1. Awaiting(s, d) \in State
  BY Values
<1>2. [Awaiting(s, d) EXCEPT !.phase = p] \in State
  BY <1>1, Updates
<1>3. [[Awaiting(s, d) EXCEPT !.phase = p] EXCEPT !.below = NoTime] \in State
  BY <1>2, Updates
<1>4. /\ Awaiting(s, d).pending = d /\ Awaiting(s, d).sw = 0
      /\ Awaiting(s, d).active = s.active
  BY DEF Awaiting, State
<1> QED
  BY <1>1, <1>2, <1>3, <1>4 DEF State, Cleared, Uncleared

\* The document an operation sees has its type.
LEMMA SeenType ==
  ASSUME db \in State, NEW readable \in BOOLEAN
  PROVE  Seen(readable) \in State
BY Values DEF Seen

\* Requests start well-formed operations.
LEMMA RequestInv ==
  ASSUME IInv, Request
  PROVE  IInv'
<1>1. op = Idle /\ db \in State /\ SessionOwned /\ recovered \in BOOLEAN
  BY DEF Request, ManualOn, ManualOff, Resume, Free, IInv, TypeOK
<1>2. /\ "manual_on" \in Phase /\ "manual_off" \in Phase /\ "idle" \in Phase
      /\ "on" \in Direction /\ "off" \in Direction
  BY DEF Phase, Direction
<1>3. ASSUME NEW readable \in BOOLEAN, ManualOn(readable) PROVE IInv'
  <2> DEFINE s == Seen(readable)
             n == Cleared(s, "on", "manual_on")
  <2>1. s \in State
    BY <1>1, SeenType
  <2>2. n \in State /\ n.phase = "manual_on" /\ n.pending = "on" /\ n.sw = 0
    BY <1>2, <2>1, AwaitingFields
  <2>3. op' = UserOp(s, "start", n, "on")
    BY <1>3 DEF ManualOn, Cleared
  <2>4. UNCHANGED <<db, open, mode, world, fails, shadow, recovered, history>>
    BY <1>3 DEF ManualOn
  <2> HIDE DEF s, n
  <2>5. op' \in Op
    BY <2>1, <2>2, <2>3 DEF UserOp, Op, Direction
  <2> QED
    BY <1>1, <2>2, <2>3, <2>4, <2>5, Begins DEF UserOp
<1>4. ASSUME NEW readable \in BOOLEAN, ManualOff(readable) PROVE IInv'
  <2> DEFINE s == Seen(readable)
             n == Cleared(s, "off", "manual_off")
  <2>1. s \in State
    BY <1>1, SeenType
  <2>2. n \in State /\ n.phase = "manual_off" /\ n.pending = "off" /\ n.sw = 0
        /\ n.active = s.active
    BY <1>2, <2>1, AwaitingFields
  <2>3. op' = UserOp(s, EndOrSet(s), n, "off")
    BY <1>4 DEF ManualOff, Cleared
  <2>4. UNCHANGED <<db, open, mode, world, fails, shadow, recovered, history>>
    BY <1>4 DEF ManualOff
  <2>5. s.active \in Ids \union {NoSession}
    BY <2>1 DEF State
  <2> HIDE DEF s, n
  <2>6. op' \in Op
    BY <2>1, <2>2, <2>3 DEF UserOp, EndOrSet, Op, Direction
  <2>7. n.phase \notin Charging
    BY <2>2 DEF Charging
  <2>8. CASE s.active # NoSession
    BY <1>1, <2>2, <2>3, <2>4, <2>5, <2>6, <2>7, <2>8, Begins DEF UserOp, EndOrSet
  <2>9. CASE s.active = NoSession
    BY <1>1, <2>2, <2>3, <2>4, <2>5, <2>6, <2>7, <2>9, Begins DEF UserOp, EndOrSet
  <2> QED
    BY <2>8, <2>9
<1>5. CASE Resume
  <2>1. UNCHANGED <<db, open, mode, world, fails, shadow, recovered, history>>
    BY <1>5 DEF Resume
  <2>2. CASE db.phase = "manual_off" /\ op' = UserOp(db, "set", [db EXCEPT !.phase = "idle"], "none")
    <3> DEFINE n == [db EXCEPT !.phase = "idle"]
    <3>1. n \in State
      BY <1>1, <1>2, Updates
    <3>2. n.phase = "idle" /\ n.sw = db.sw /\ n.active = db.active
      BY <1>1 DEF State
    <3>3. db.active = NoSession /\ n.phase \notin Charging
      BY <1>1, <2>2, <3>2 DEF SessionOwned, Charging
    <3>4. op' = UserOp(db, "set", n, "none")
      BY <2>2
    <3> HIDE DEF n
    <3>5. op' \in Op
      BY <1>1, <3>1, <3>4 DEF UserOp, Op
    <3> QED
      BY <1>1, <2>1, <3>2, <3>3, <3>4, <3>5, Begins DEF UserOp
  <2>3. CASE /\ db.phase = "manual_on"
             /\ op' = UserOp(db, EndOrSet(db), [Awaiting(db, "off") EXCEPT !.phase = "idle"], "off")
    <3> DEFINE n == Uncleared(db, "off", "idle")
    <3>1. n \in State /\ n.phase = "idle" /\ n.pending = "off" /\ n.sw = 0
      BY <1>1, <1>2, AwaitingFields
    <3>2. op' = UserOp(db, EndOrSet(db), n, "off")
      BY <2>3 DEF Uncleared
    <3>3. db.active \in Ids
      BY <1>1, <2>3 DEF SessionOwned, Charging, State
    <3> HIDE DEF n
    <3>4. op' = UserOp(db, "end", n, "off")
      BY <3>2, <3>3, SettingsAssumption DEF EndOrSet
    <3>5. op' \in Op
      BY <1>1, <3>1, <3>4 DEF UserOp, Op, Direction
    <3>6. n.phase \notin Charging
      BY <3>1 DEF Charging
    <3> QED
      BY <1>1, <2>1, <3>1, <3>3, <3>4, <3>5, <3>6, Begins DEF UserOp
  <2> QED
    BY <1>5, <2>2, <2>3 DEF Resume
<1> QED
  BY <1>3, <1>4, <1>5 DEF Request

\* Recovery either leaves the session alone or starts an operation that ends it.
LEMMA BootInv ==
  ASSUME IInv, Boot
  PROVE  IInv'
<1> PICK readable \in BOOLEAN, answer \in Answers : Recover(readable, answer)
  BY DEF Boot
<1> DEFINE s == Seen(readable)
           n == [Settled(s) EXCEPT !.phase = "idle"]
           o == [who |-> "recover", stage |-> "persist", write |-> "end",
                 strict |-> TRUE, prev |-> s, next |-> n,
                 kind |-> "none", send |-> "none", retry |-> FALSE]
           ends == s.active # NoSession /\ answer \in {"off", "unavailable"}
<1>1. /\ op = Idle /\ db \in State /\ SessionOwned /\ recovered' = TRUE
      /\ Stamped /\ ShadowInv /\ TypeOK
  BY DEF Recover, Free, IInv, TypeOK
<1>2. UNCHANGED <<db, open, mode, world, fails, shadow, history>>
  BY DEF Recover
<1>3. op' = IF ends THEN o ELSE Idle
  BY DEF Recover
<1>4. s \in State
  BY <1>1, SeenType
<1>5. CASE ends
  <2>1. readable /\ s = db
    BY <1>5 DEF Seen, Zero
  <2>2. n \in State
    <3>1. Settled(s) \in State /\ "idle" \in Phase
      BY <1>4, Values DEF Phase
    <3> QED
      BY <3>1, Updates
  <2>3. n.phase = "idle" /\ n.sw = db.sw
    BY <1>4, <2>1 DEF Settled, State
  <2>4. s.active \in Ids /\ n.phase \notin Charging
    BY <1>4, <1>5, <2>3 DEF State, Charging
  <2> HIDE DEF s, n
  <2>5. op' = o
    BY <1>3, <1>5
  <2>6. o \in Op
    BY <1>4, <2>2 DEF Op
  <2> QED
    BY <1>1, <1>2, <2>3, <2>4, <2>5, <2>6, Begins
<1>6. CASE ~ends
  <2>1. op' = Idle
    BY <1>3, <1>6
  <2>2. UNCHANGED <<db, open, mode, plug, cmd, op, fails, shadow, onAge, offAge>>
    BY <1>1, <1>2, <2>1 DEF world, history
  <2>3. TypeOK'
    BY <1>1, <2>2 DEF TypeOK
  <2>4. SessionOwned' /\ ShadowInv' /\ Stamped'
    BY <1>1, <2>2 DEF SessionOwned, ShadowInv, ShadowConsistent, Stamped
  <2> QED
    BY <2>1, <2>3, <2>4 DEF IInv, CommandIsRecorded, Staged, InFlight, Idle
<1> QED
  BY <1>5, <1>6

\* The next stage of an operation whose save is over.
LEMMA AheadType ==
  ASSUME op \in Op
  PROVE  /\ Ahead \in Op
         /\ \/ Ahead = Idle /\ op.send = "none"
            \/ /\ Ahead.stage = "switch" /\ Ahead.send = op.send /\ op.send # "none"
               /\ Ahead.retry = op.retry /\ Ahead.who = op.who
<1>1. [op EXCEPT !.stage = "switch"] \in Op
  BY DEF Op
<1> QED
  BY <1>1, Values DEF Ahead, Op

\* After a save the stored state is the one the operation carried, with the
\* session the store put in.
LEMMA SaveInv ==
  ASSUME IInv, op.stage = "persist", op' = Ahead, db' \in State,
         open' \in [Ids -> {"none", "surplus", "manual"}], SessionOwned',
         db'.pending = op.next.pending, db'.sw = op.next.sw,
         UNCHANGED <<mode, world, fails, shadow, recovered, history>>
  PROVE  IInv'
<1>1. /\ op \in Op /\ TypeOK /\ Stamped /\ InFlight /\ ShadowInv
      /\ UNCHANGED <<mode, plug, cmd, fails, shadow, recovered, onAge, offAge>>
  BY DEF IInv, TypeOK, world, history
<1>2. /\ Ahead \in Op
      /\ \/ Ahead = Idle /\ op.send = "none"
         \/ /\ Ahead.stage = "switch" /\ Ahead.send = op.send /\ op.send # "none"
            /\ Ahead.retry = op.retry /\ Ahead.who = op.who
  BY <1>1, AheadType
<1>3. TypeOK'
  BY <1>1, <1>2 DEF TypeOK
<1>4. Stamped'
  BY <1>1, <1>2 DEF Stamped, Idle
<1>5. CommandIsRecorded' /\ Staged' /\ InFlight'
  BY <1>1, <1>2 DEF CommandIsRecorded, Staged, InFlight, Idle
<1>6. ShadowInv'
  BY <1>1 DEF ShadowInv, ShadowConsistent
<1> QED
  BY <1>3, <1>4, <1>5, <1>6 DEF IInv

\* The operation in flight goes on.
LEMMA FinishInv ==
  ASSUME IInv, Finish
  PROVE  IInv'
<1>1. /\ op \in Op /\ TypeOK /\ Stamped /\ InFlight /\ ShadowInv /\ SessionOwned
      /\ db \in State /\ open \in [Ids -> {"none", "surplus", "manual"}]
      /\ Staged /\ CommandIsRecorded
  BY DEF IInv, TypeOK
<1>2. op.next \in State /\ op.prev \in State
  BY <1>1 DEF Op
<1>3. ASSUME NEW id \in Ids, PersistStart(id) PROVE IInv'
  <2>1. db' = [op.next EXCEPT !.active = id]
    BY <1>3 DEF PersistStart
  <2>2. /\ db' \in State /\ db'.pending = op.next.pending /\ db'.sw = op.next.sw
        /\ db'.active = id /\ db'.phase = op.next.phase
    BY <1>2, <2>1 DEF State
  <2>3. \/ op.kind = "surplus" /\ op.next.phase = "surplus"
        \/ op.kind = "manual" /\ op.next.phase = "manual_on"
    BY <1>1, <1>3 DEF PersistStart, InFlight
  <2>4. open' \in [Ids -> {"none", "surplus", "manual"}] /\ open'[id] = op.kind
    BY <1>1, <1>3, <2>3 DEF PersistStart
  <2>5. SessionOwned'
    BY <2>2, <2>3, <2>4, SettingsAssumption DEF SessionOwned, Charging
  <2> QED
    BY <1>3, <2>2, <2>4, <2>5, SaveInv DEF PersistStart
<1>4. CASE PersistEnd
  <2>1. db' = [op.next EXCEPT !.active = NoSession]
    BY <1>4 DEF PersistEnd
  <2>2. /\ db' \in State /\ db'.pending = op.next.pending /\ db'.sw = op.next.sw
        /\ db'.active = NoSession /\ db'.phase = op.next.phase
    BY <1>2, <2>1 DEF State
  <2>3. op.next.phase \notin Charging
    BY <1>1, <1>4 DEF PersistEnd, InFlight
  <2>4. open' \in [Ids -> {"none", "surplus", "manual"}]
    BY <1>1, <1>4 DEF PersistEnd
  <2>5. SessionOwned'
    BY <2>2, <2>3 DEF SessionOwned, Charging
  <2> QED
    BY <1>4, <2>2, <2>4, <2>5, SaveInv DEF PersistEnd
<1>5. CASE PersistState
  <2>1. op.write = "set" /\ db' = op.next /\ open' = open
    BY <1>1, <1>5 DEF PersistState, InFlight
  <2>2. \/ op.next.active = NoSession /\ op.next.phase \notin Charging
        \/ op.next.active = db.active /\ op.next.phase = db.phase
    BY <1>1, <1>5, <2>1 DEF PersistState, InFlight
  <2>3. SessionOwned'
    BY <1>1, <2>1, <2>2 DEF SessionOwned, Charging
  <2> QED
    BY <1>1, <1>2, <1>5, <2>1, <2>3, SaveInv DEF PersistState
<1>6. CASE PersistFails
  <2>1. UNCHANGED <<db, open, mode, plug, cmd, fails, shadow, recovered, onAge, offAge>>
    BY <1>6 DEF PersistFails, world, history
  <2>2. op.stage = "persist" /\ op' = IF op.strict THEN Idle ELSE Ahead
    BY <1>6 DEF PersistFails
  <2>3. /\ op' \in Op
        /\ \/ op' = Idle
           \/ /\ op'.stage = "switch" /\ op'.send = op.send /\ op.send # "none"
              /\ op'.retry = op.retry /\ op'.who = op.who /\ ~op.strict
    BY <1>1, <2>2, AheadType, Values
  <2>4. TypeOK' /\ SessionOwned' /\ ShadowInv'
    BY <1>1, <2>1, <2>3 DEF TypeOK, SessionOwned, ShadowInv, ShadowConsistent
  <2>5. ~op.strict /\ op.send # "none" => op.retry /\ db.pending = op.send
    BY <1>1, <2>2 DEF InFlight
  <2>6. CASE op' = Idle
    <3>1. Stamped'
      BY <1>1, <2>1, <2>6 DEF Stamped, Idle
    <3> QED
      BY <2>4, <2>6, <3>1 DEF IInv, CommandIsRecorded, Staged, InFlight, Idle
  <2>7. CASE op' # Idle
    <3>1. /\ op'.stage = "switch" /\ op'.send = op.send /\ op.send # "none"
          /\ op'.retry /\ db.pending = op.send
      BY <2>3, <2>5, <2>7
    <3>2. Stamped'
      BY <1>1, <2>1, <3>1 DEF Stamped
    <3> QED
      BY <2>1, <2>4, <3>1, <3>2 DEF IInv, CommandIsRecorded, Staged, InFlight
  <2> QED
    BY <2>6, <2>7
<1>7. ASSUME NEW taken \in BOOLEAN, Switch(taken) PROVE IInv'
  <2>1. UNCHANGED <<db, open, mode, plug, fails, shadow, recovered>> /\ op' = Idle
    BY <1>7 DEF Switch
  <2>2. cmd' \in Direction \union {"none"} /\ onAge' \in Age /\ offAge' \in Age
    BY <1>1, <1>7, Values DEF Switch, TypeOK, Op
  <2>3. onAge' \in {onAge, 0} /\ offAge' \in {offAge, 0}
        /\ (op.retry => onAge' = onAge /\ offAge' = offAge)
    BY <1>7 DEF Switch
  <2>4. Stamped'
    <3>1. db.sw <= onAge /\ db.sw <= offAge /\ (~op.retry => db.sw = 0)
      BY <1>1, <1>7 DEF Stamped, Switch
    <3> QED
      BY <2>1, <2>3, <3>1 DEF Stamped, Idle
  <2>5. TypeOK' /\ SessionOwned' /\ ShadowInv'
    BY <1>1, <2>1, <2>2, Values DEF TypeOK, SessionOwned, ShadowInv, ShadowConsistent
  <2> QED
    BY <2>1, <2>4, <2>5 DEF IInv, CommandIsRecorded, Staged, InFlight, Idle
<1> QED
  BY <1>3, <1>4, <1>5, <1>6, <1>7 DEF Finish

\* The environment leaves the stored state alone except for its age.
LEMMA EnvironmentInv ==
  ASSUME IInv, Environment
  PROVE  IInv'
<1>1. /\ TypeOK /\ Stamped /\ InFlight /\ ShadowInv /\ SessionOwned
      /\ db \in State /\ Staged /\ CommandIsRecorded
  BY DEF IInv, TypeOK
<1>2. ASSUME NEW m \in Modes, ChangeMode(m) PROVE IInv'
  <2>1. UNCHANGED <<db, open, plug, cmd, op, fails, shadow, recovered, onAge, offAge>>
    BY <1>2 DEF ChangeMode, world, history
  <2>2. mode' \in {"disabled", "shadow", "live"}
    BY <1>2, SettingsAssumption DEF ChangeMode
  <2> QED
    BY <1>1, <2>1, <2>2 DEF IInv, TypeOK, Stamped, InFlight, ShadowInv,
      ShadowConsistent, SessionOwned, Staged, CommandIsRecorded
<1>3. ASSUME RelayActs \/ SwitchedByHand PROVE IInv'
  <2>1. UNCHANGED <<db, open, mode, op, fails, shadow, recovered, onAge, offAge>>
    BY <1>3 DEF RelayActs, SwitchedByHand, history
  <2>2. plug' \in BOOLEAN /\ cmd' \in Direction \union {"none"}
    BY <1>1, <1>3 DEF RelayActs, SwitchedByHand, TypeOK
  <2> QED
    BY <1>1, <2>1, <2>2 DEF IInv, TypeOK, Stamped, InFlight, ShadowInv,
      ShadowConsistent, SessionOwned, Staged, CommandIsRecorded
<1>4. CASE Minute
  <2>1. UNCHANGED <<open, mode, plug, cmd, op, fails, recovered>> /\ op = Idle
    BY <1>4 DEF Minute, Free, world
  <2>2. /\ db' \in State /\ db'.phase = db.phase /\ db'.active = db.active
        /\ db'.pending = db.pending /\ db'.sw = Older(db.sw)
    BY <1>1, <1>4, Values DEF Minute, Grown, State
  <2>3. /\ shadow'.st \in State /\ shadow'.st.phase = shadow.st.phase
        /\ shadow'.st.active = shadow.st.active
        /\ shadow'.st.pending = shadow.st.pending
        /\ shadow' \in [st : State, plug : BOOLEAN] /\ shadow'.plug = shadow.plug
    <3>1. shadow.st \in State /\ shadow' = [shadow EXCEPT !.st = Grown(shadow.st)]
      BY <1>1, <1>4 DEF Minute, TypeOK
    <3>2. /\ Grown(shadow.st) \in State /\ Grown(shadow.st).phase = shadow.st.phase
          /\ Grown(shadow.st).active = shadow.st.active
          /\ Grown(shadow.st).pending = shadow.st.pending
      BY <3>1, Values DEF Grown, State
    <3> QED
      BY <1>1, <3>1, <3>2 DEF TypeOK
  <2>4. /\ onAge \in Age /\ offAge \in Age /\ db.sw \in Age
        /\ onAge' = Older(onAge) /\ offAge' = Older(offAge)
    BY <1>1, <1>4 DEF Minute, TypeOK, State
  <2>5. db.sw <= onAge /\ db.sw <= offAge
    BY <1>1 DEF Stamped
  <2>6. /\ onAge' \in Age /\ offAge' \in Age
        /\ db'.sw <= onAge' /\ db'.sw <= offAge'
    BY <2>2, <2>4, <2>5, DelaysAssumption DEF Older, Age, NoTime
  <2>7. TypeOK'
    BY <1>1, <2>1, <2>2, <2>3, <2>6 DEF TypeOK
  <2>8. SessionOwned' /\ ShadowInv'
    BY <1>1, <2>1, <2>2, <2>3 DEF SessionOwned, ShadowInv, ShadowConsistent
  <2> QED
    BY <2>1, <2>6, <2>7, <2>8
    DEF IInv, Stamped, CommandIsRecorded, Staged, InFlight, Idle
<1>5. CASE Restart
  <2>1. UNCHANGED <<db, open, mode, plug, cmd, onAge, offAge>> /\ op' = Idle
    BY <1>5 DEF Restart, world, history
  <2>2. /\ fails' \in 0 .. FailLimit + 1 /\ recovered' = FALSE
        /\ shadow' = [st |-> Zero, plug |-> FALSE]
    BY <1>5, DelaysAssumption DEF Restart
  <2>3. TypeOK'
    BY <1>1, <2>1, <2>2, Values DEF TypeOK
  <2>4. ShadowInv'
    BY <2>2 DEF ShadowInv, ShadowConsistent, Zero
  <2>5. SessionOwned' /\ Stamped'
    BY <1>1, <2>1 DEF SessionOwned, Stamped, Idle
  <2> QED
    BY <2>1, <2>3, <2>4, <2>5 DEF IInv, CommandIsRecorded, Staged, InFlight, Idle
<1> QED
  BY <1>2, <1>3, <1>4, <1>5 DEF Environment

\* Every step preserves the invariant.
LEMMA StepInv ==
  ASSUME IInv, [Next]_vars
  PROVE  IInv'
<1>1. CASE Tick
  BY <1>1, TickLiveInv, TickShadowInv, TickFailedInv DEF Tick, Outcomes
<1>2. CASE UNCHANGED vars
  BY <1>2 DEF vars, IInv, TypeOK, Stamped, InFlight, ShadowInv, ShadowConsistent,
    SessionOwned, Staged, CommandIsRecorded
<1> QED
  BY <1>1, <1>2, RequestInv, BootInv, FinishInv, EnvironmentInv DEF Next

\* The invariant holds at the start.
LEMMA InitInv ==
  ASSUME Init
  PROVE  IInv
<1>1. db = Zero /\ op = Idle /\ shadow = [st |-> Zero, plug |-> FALSE]
  BY DEF Init
<1>2. TypeOK
  <2>1. mode \in {"disabled", "shadow", "live"}
    BY SettingsAssumption DEF Init
  <2>2. open \in [Ids -> {"none", "surplus", "manual"}]
    BY DEF Init
  <2>3. fails \in 0 .. FailLimit + 1 /\ onAge \in Age /\ offAge \in Age
    BY Values, DelaysAssumption DEF Init
  <2>4. db \in State /\ op \in Op
    BY <1>1, Values
  <2>5. shadow \in [st : State, plug : BOOLEAN]
    BY <1>1, Values
  <2>6. plug \in BOOLEAN /\ cmd \in Direction \union {"none"}
        /\ recovered \in BOOLEAN
    BY DEF Init
  <2> QED
    BY <2>1, <2>2, <2>3, <2>4, <2>5, <2>6 DEF TypeOK
<1>3. SessionOwned /\ ShadowInv
  BY <1>1 DEF SessionOwned, ShadowInv, ShadowConsistent, Zero, Charging
<1>4. Stamped
  BY DelaysAssumption DEF Init, Stamped, Idle, Zero
<1> QED
  BY <1>1, <1>2, <1>3, <1>4 DEF IInv, CommandIsRecorded, Staged, InFlight, Idle

\* The rest times of the relay in one step.
LEMMA StepRest ==
  ASSUME IInv, [Next]_vars, op.stage = "switch", op'.stage = "none",
         op.who = "tick", ~op.retry
  PROVE  (op.send = "on" => offAge >= MinOff) /\ (op.send = "off" => onAge >= MinOn)
BY DEF IInv, Stamped

-----------------------------------------------------------------------------
(* Theorems *)

\* The inductive invariant of the controller.
THEOREM Invariant == Spec => []IInv
BY InitInv, StepInv, PTL DEF Spec

\* charging.go, stores_c.go: every value keeps its type.
THEOREM TypeCorrect == Spec => []TypeOK
<1>1. IInv => TypeOK
  BY DEF IInv
<1> QED
  BY <1>1, Invariant, PTL

\* stores_c.go, StartChargingSession and EndChargingSession: the stored phase
\* always owns an open session of its tariff, across crashes and failed saves.
THEOREM SessionSafety == Spec => []SessionOwned
<1>1. IInv => SessionOwned
  BY DEF IInv
<1> QED
  BY <1>1, Invariant, PTL

\* applyChargingAction, switchChargingPlug: no command without its record.
THEOREM WriteAhead == Spec => []CommandIsRecorded
<1>1. IInv => CommandIsRecorded
  BY DEF IInv
<1> QED
  BY <1>1, Invariant, PTL

\* tickChargingShadow: the virtual plug follows the shadow phase.
THEOREM ShadowSafety == Spec => []ShadowConsistent
<1>1. IInv => ShadowConsistent
  BY DEF IInv, ShadowInv
<1> QED
  BY <1>1, Invariant, PTL

\* nextChargingState: the automatic control respects MinOn and MinOff.
THEOREM RestRespected == Spec => RelayRest
<1>1. IInv /\ [Next]_vars =>
        [ /\ op.stage = "switch" /\ op'.stage = "none" /\ op.who = "tick" /\ ~op.retry
          => /\ op.send = "on" => offAge >= MinOff
             /\ op.send = "off" => onAge >= MinOn ]_vars
  BY StepRest
<1> QED
  BY <1>1, Invariant, PTL DEF Spec, RelayRest
=============================================================================
