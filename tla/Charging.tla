------------------------------ MODULE Charging ------------------------------
(***************************************************************************)
(* The surplus-charging controller of one parking tenant                   *)
(* (internal/server/charging.go) with the part of the parking document it  *)
(* persists (internal/store/stores_c.go, parking_sql.go).                  *)
(*                                                                         *)
(* A worker ticks, users press on / off / auto, an operator changes the    *)
(* mode, and the relay ("plug") is a remote device that may be slow, lose  *)
(* a command or be switched by hand.  Every operation holds chargingMu     *)
(* from its read to its last call, but it writes the database first and    *)
(* talks to the relay afterwards, and the process may stop in between.     *)
(*                                                                         *)
(* Time.  The code keeps absolute timestamps and only ever compares        *)
(* now - stamp with a configured delay, so the model keeps the AGE of each *)
(* stamp, saturated at the longest delay.  A zero timestamp of a switch    *)
(* behaves like a very old one.  Remote calls are bounded by eight seconds *)
(* and the delays count minutes, so the clock stands still inside an       *)
(* operation.                                                              *)
(***************************************************************************)
EXTENDS Integers, FiniteSets

CONSTANTS
  Ids,            \* charging sessions that may be open at the same time (bound)
  MinOn,          \* settings.MinOnMinutes
  MinOff,         \* settings.MinOffMinutes
  StopDelay,      \* settings.StopDelayMinutes
  ConfirmTimeout, \* CHARGING_CONFIRM_TIMEOUT
  FailLimit,      \* CHARGING_HA_FAIL_LIMIT
  Cap,            \* ages saturate here, at or above every delay
  Modes,          \* operator modes a run lets settings take
  SavesFail,      \* whether a save of the parking document may fail
  NoSession       \* the empty ActiveSessionID

ASSUME DelaysAssumption ==
  /\ MinOn \in Nat \ {0} /\ MinOff \in Nat \ {0}
  /\ StopDelay \in Nat \ {0} /\ ConfirmTimeout \in Nat \ {0}
  /\ FailLimit \in Nat \ {0}
  /\ Cap \in Nat
  /\ MinOn <= Cap /\ MinOff <= Cap /\ StopDelay <= Cap /\ ConfirmTimeout <= Cap

ASSUME SettingsAssumption ==
  /\ Modes \subseteq {"disabled", "shadow", "live"}
  /\ NoSession \notin Ids
  /\ SavesFail \in BOOLEAN
  /\ IsFiniteSet(Ids)

VARIABLES
  db,        \* persisted ChargingControllerState
  open,      \* persisted open sessions: id -> mode, "none" when not open
  mode,      \* persisted Settings.Charging: disabled, shadow or live
  plug,      \* relay position
  cmd,       \* command the relay has accepted and not yet carried out
  op,        \* the operation holding chargingMu
  fails,     \* chargingHAFails (memory), saturated above the limit
  shadow,    \* chargingShadow and chargingShadowPlug (memory)
  recovered, \* the worker is past recoverChargingTenants
  onAge,     \* history: age of the last "on" decision sent to the relay
  offAge     \* history: age of the last "off" decision sent to the relay

vars == <<db, open, mode, plug, cmd, op, fails, shadow, recovered,
          onAge, offAge>>
history == <<onAge, offAge>>
world == <<plug, cmd>>

-----------------------------------------------------------------------------
(* Values *)

NoTime == -1
Age == 0 .. Cap
Phase == {"idle", "surplus", "manual_on", "manual_off"}
Charging == {"surplus", "manual_on"}
Direction == {"on", "off"}
Level == {"low", "mid", "high"}  \* below Stop..., between, at or above Start...

Zero == [phase |-> "idle", active |-> NoSession, sw |-> Cap, below |-> NoTime,
         pending |-> "none", since |-> NoTime, retries |-> 0,
         notified |-> FALSE]

State == [phase : Phase, active : Ids \union {NoSession}, sw : Age,
          below : Age \union {NoTime}, pending : Direction \union {"none"},
          since : Age \union {NoTime}, retries : 0 .. 1, notified : BOOLEAN]

Inputs == [soc : Level, feed : Level, plug : BOOLEAN]

\* The operation in flight: which write it still owes, then which command.
Idle == [who |-> "none", stage |-> "none", write |-> "none", strict |-> FALSE,
         prev |-> Zero, next |-> Zero, kind |-> "none", send |-> "none",
         retry |-> FALSE]

Op == [who : {"none", "tick", "user", "recover"},
       stage : {"none", "persist", "switch"},
       write : {"none", "start", "end", "set"}, strict : BOOLEAN,
       prev : State, next : State, kind : {"none", "surplus", "manual"},
       send : Direction \union {"none"}, retry : BOOLEAN]

Older(a) == IF a = NoTime \/ a = Cap THEN a ELSE a + 1

Grown(s) == [s EXCEPT !.sw = Older(@), !.below = Older(@), !.since = Older(@)]

-----------------------------------------------------------------------------
(* nextChargingState: the pure decision core.  A decision names the next   *)
(* controller state, the command for the relay and the session boundary.   *)

Keep(s) == [next |-> s, send |-> "none", start |-> FALSE, end |-> FALSE,
            retry |-> FALSE]

Settled(s) == [s EXCEPT !.pending = "none", !.since = NoTime, !.retries = 0]

\* Mutant: a decision forgets to stamp LastSwitchAt.
AwaitingUnstamped(s, d) == [s EXCEPT !.pending = d, !.since = 0, !.retries = 0]

Awaiting(s, d) == [s EXCEPT !.pending = d, !.since = 0, !.retries = 0, !.sw = 0]

\* Mutant: the retries are not counted.
NeverGivesUp(s) == FALSE

GivesUp(s) == s.retries >= 1

AwaitConfirm(s, in) ==
  IF in.plug = (s.pending = "on") THEN Keep(Settled(s))
  ELSE IF s.since < ConfirmTimeout THEN Keep(s)
  ELSE IF ~GivesUp(s)
  THEN [Keep([s EXCEPT !.retries = 1, !.since = 0])
          EXCEPT !.send = s.pending, !.retry = TRUE]
  ELSE [Keep([Settled(s) EXCEPT !.phase = "idle", !.below = NoTime])
          EXCEPT !.end = (s.active # NoSession)]

\* Mutant: the session is not ended.
ExternallyOffKeepsSession(s) ==
  Keep([s EXCEPT !.phase = "idle", !.sw = 0, !.below = NoTime])

ExternallyOff(s) ==
  [Keep([s EXCEPT !.phase = "idle", !.sw = 0, !.below = NoTime])
     EXCEPT !.end = (s.active # NoSession)]

InSurplus(s, in) ==
  LET low == IF in.feed # "low" THEN NoTime
             ELSE IF s.below = NoTime THEN 0 ELSE s.below
      held == [s EXCEPT !.below = low]
      stop == /\ in.soc = "low" \/ low >= StopDelay
              /\ s.sw >= MinOn
  IN IF ~in.plug THEN ExternallyOff(s)
     ELSE IF ~stop THEN Keep(held)
     ELSE [Keep([Awaiting(s, "off") EXCEPT !.phase = "idle", !.below = NoTime])
             EXCEPT !.send = "off", !.end = TRUE]

\* Mutant: a manual session does not look at the plug.
InManualBlind(s, in) == Keep(s)

\* manual_on leaves BelowStopSince alone when the plug is found off.
InManual(s, in) ==
  IF in.plug THEN Keep(s)
  ELSE [Keep([s EXCEPT !.phase = "idle", !.sw = 0])
          EXCEPT !.end = (s.active # NoSession)]

InIdle(s, in) ==
  IF in.plug \/ in.soc # "high" \/ in.feed # "high" \/ s.sw < MinOff
  THEN Keep(s)
  ELSE [Keep([Awaiting(s, "on") EXCEPT !.phase = "surplus", !.below = NoTime])
          EXCEPT !.send = "on", !.start = TRUE]

Decide(s, in) ==
  CASE s.pending # "none"   -> AwaitConfirm(s, in)
    [] s.pending = "none" /\ s.phase = "surplus"    -> InSurplus(s, in)
    [] s.pending = "none" /\ s.phase = "manual_on"  -> InManual(s, in)
    [] s.pending = "none" /\ s.phase = "manual_off" -> Keep(s)
    [] s.pending = "none" /\ s.phase = "idle"       -> InIdle(s, in)

-----------------------------------------------------------------------------
(* Operations take the lock and read; Persist and Switch finish them. *)

Free == op = Idle

\* Whether a save succeeds.
Outcomes == IF SavesFail THEN BOOLEAN ELSE {TRUE}

\* TenantData answers the default document when the row cannot be read.
Seen(readable) == IF readable THEN db ELSE Zero

\* applyChargingAction: which write a decision of the tick asks for.
WriteOf(s, d) ==
  IF d.end /\ s.active # NoSession THEN "end"
  ELSE IF d.start THEN "start"
  ELSE IF d.next # s THEN "set" ELSE "none"

TickOp(s, d) ==
  [who |-> "tick", stage |-> "persist", write |-> WriteOf(s, d),
   strict |-> WriteOf(s, d) \in {"start", "end"}, prev |-> s,
   next |-> d.next, kind |-> "surplus", send |-> d.send, retry |-> d.retry]

\* tickChargingTenant in live mode: a good reading.  noteChargingReadRecovery
\* may store the cleared alert (or fail to), yet the decision is computed from
\* the document read before that.
TickLive(in, stored) ==
  /\ Free /\ recovered /\ mode = "live"
  /\ in.plug = plug
  /\ fails' = 0
  /\ db' = IF fails > 0 /\ db.notified /\ stored
           THEN [db EXCEPT !.notified = FALSE] ELSE db
  /\ LET d == Decide(db, in)
     IN op' = IF WriteOf(db, d) = "none" /\ d.send = "none"
              THEN Idle ELSE TickOp(db, d)
  /\ UNCHANGED <<open, mode, world, shadow, recovered, onAge, offAge>>

\* The shadow machine sees the virtual plug, never the real one.
VirtualPlug(in) == in.plug = shadow.plug

\* tickChargingShadow: the same machine on memory and a virtual plug that
\* obeys at once; nothing is stored and nothing is sent.
TickShadow(in, stored) ==
  /\ Free /\ recovered /\ mode = "shadow"
  /\ VirtualPlug(in)
  /\ fails' = 0
  /\ db' = IF fails > 0 /\ db.notified /\ stored
           THEN [db EXCEPT !.notified = FALSE] ELSE db
  /\ LET d == Decide(shadow.st, in)
     IN shadow' = IF d.send = "none" THEN [shadow EXCEPT !.st = d.next]
                  ELSE [st |-> Settled(d.next), plug |-> d.send = "on"]
  /\ UNCHANGED <<open, mode, world, op, recovered, onAge, offAge>>

\* tickChargingTenant with unusable inputs: noteChargingReadFailure.
TickFailed(stored) ==
  LET n == fails + 1
      alert == n = FailLimit /\ ~db.notified
  IN /\ Free /\ recovered /\ mode # "disabled"
     /\ fails' = IF fails > FailLimit THEN fails ELSE n
     /\ db' = IF alert /\ stored THEN [db EXCEPT !.notified = TRUE] ELSE db
     /\ UNCHANGED <<open, mode, world, op, shadow, recovered, onAge, offAge>>

UserOp(s, write, next, send) ==
  [who |-> "user", stage |-> "persist", write |-> write, strict |-> TRUE,
   prev |-> s, next |-> next, kind |-> "manual", send |-> send,
   retry |-> FALSE]

EndOrSet(s) == IF s.active # NoSession THEN "end" ELSE "set"

\* requestManualCharging(on): only an actual change starts an operation.
ManualOn(readable) ==
  LET s == Seen(readable)
      next == [Awaiting(s, "on") EXCEPT !.phase = "manual_on", !.below = NoTime]
  IN
  /\ Free
  /\ readable => mode # "shadow"
  /\ ~plug
  /\ s.sw >= MinOff
  /\ op' = UserOp(s, "start", next, "on")
  /\ UNCHANGED <<db, open, mode, world, fails, shadow, recovered, history>>

\* requestManualCharging(off)
ManualOff(readable) ==
  LET s == Seen(readable)
      next == [Awaiting(s, "off") EXCEPT !.phase = "manual_off", !.below = NoTime]
  IN
  /\ Free
  /\ readable => mode # "shadow"
  /\ ~(plug /\ s.sw < MinOn /\ s.active # NoSession)
  /\ op' = UserOp(s, EndOrSet(s), next, "off")
  /\ UNCHANGED <<db, open, mode, world, fails, shadow, recovered, history>>

\* requestAutomaticCharging; the default document is idle, so an unreadable
\* one changes nothing.
Resume ==
  /\ Free
  /\ \/ /\ db.phase = "manual_off"
        /\ op' = UserOp(db, "set", [db EXCEPT !.phase = "idle"], "none")
     \/ /\ db.phase = "manual_on"
        /\ op' = UserOp(db, EndOrSet(db),
                        [Awaiting(db, "off") EXCEPT !.phase = "idle"], "off")
  /\ UNCHANGED <<db, open, mode, world, fails, shadow, recovered, history>>

\* recoverChargingTenants: a session whose plug reads "on" resumes, a failed
\* call defers to the ticks, and any other answer closes the session; Home
\* Assistant answers "unavailable" while the relay is off the network.
Answers == {"on", "off", "unavailable", "failed"}

Recover(readable, answer) ==
  LET s == Seen(readable)
  IN
  /\ Free /\ ~recovered
  /\ answer \in {"on", "off"} => (answer = "on") = plug
  /\ recovered' = TRUE
  /\ op' = IF s.active # NoSession /\ answer \in {"off", "unavailable"}
           THEN [who |-> "recover", stage |-> "persist", write |-> "end",
                 strict |-> TRUE, prev |-> s,
                 next |-> [Settled(s) EXCEPT !.phase = "idle"],
                 kind |-> "none", send |-> "none", retry |-> FALSE]
           ELSE Idle
  /\ UNCHANGED <<db, open, mode, world, fails, shadow, history>>

Ahead == IF op.send = "none" THEN Idle ELSE [op EXCEPT !.stage = "switch"]

\* StartChargingSession: the session and the state in one atomic save.
PersistStart(id) ==
  /\ op.stage = "persist" /\ op.write = "start"
  /\ open[id] = "none"
  /\ open' = [open EXCEPT ![id] = op.kind]
  /\ db' = [op.next EXCEPT !.active = id]
  /\ op' = Ahead
  /\ UNCHANGED <<mode, world, fails, shadow, recovered, history>>

\* EndChargingSession
PersistEnd ==
  /\ op.stage = "persist" /\ op.write = "end"
  /\ open' = [open EXCEPT ![op.prev.active] = "none"]
  /\ db' = [op.next EXCEPT !.active = NoSession]
  /\ op' = Ahead
  /\ UNCHANGED <<mode, world, fails, shadow, recovered, history>>

\* SetChargingState, or nothing to store
PersistState ==
  /\ op.stage = "persist" /\ op.write \in {"set", "none"}
  /\ db' = IF op.write = "set" THEN op.next ELSE db
  /\ op' = Ahead
  /\ UNCHANGED <<open, mode, world, fails, shadow, recovered, history>>

\* Mutant: every operation goes on to the relay after a failed save.
FailedSaveGoesOn ==
  /\ SavesFail
  /\ op.stage = "persist" /\ op.write # "none"
  /\ op' = Ahead
  /\ UNCHANGED <<db, open, mode, world, fails, shadow, recovered, history>>

\* A failed save ends the operation, except that the tick goes on to the
\* relay after a failed SetChargingState.
PersistFails ==
  /\ SavesFail
  /\ op.stage = "persist" /\ op.write # "none"
  /\ op' = IF op.strict THEN Idle ELSE Ahead
  /\ UNCHANGED <<db, open, mode, world, fails, shadow, recovered, history>>

\* SetSwitch: the relay takes the command, or the call fails.
Switch(taken) ==
  /\ op.stage = "switch"
  /\ cmd' = IF taken THEN op.send ELSE cmd
  /\ onAge' = IF op.send = "on" /\ ~op.retry THEN 0 ELSE onAge
  /\ offAge' = IF op.send = "off" /\ ~op.retry THEN 0 ELSE offAge
  /\ op' = Idle
  /\ UNCHANGED <<db, open, mode, plug, fails, shadow, recovered>>

-----------------------------------------------------------------------------
(* Environment *)

\* SetChargingControl from the settings form or the charging-mode command;
\* it does not take chargingMu.
ChangeMode(m) ==
  /\ m # mode
  /\ mode' = m
  /\ UNCHANGED <<db, open, world, op, fails, shadow, recovered, history>>

\* The relay carries a command out, or drops it.
RelayActs ==
  /\ cmd # "none"
  /\ cmd' = "none"
  /\ plug' \in {plug, cmd = "on"}
  /\ UNCHANGED <<db, open, mode, op, fails, shadow, recovered, history>>

\* Someone uses the button on the relay or the Home Assistant page.
SwitchedByHand ==
  /\ plug' = ~plug
  /\ UNCHANGED <<db, open, mode, cmd, op, fails, shadow, recovered, history>>

\* One minute between operations.
Minute ==
  /\ Free
  /\ db' = Grown(db)
  /\ shadow' = [shadow EXCEPT !.st = Grown(@)]
  /\ onAge' = Older(onAge)
  /\ offAge' = Older(offAge)
  /\ UNCHANGED <<open, mode, world, op, fails, recovered>>

\* The process stops and boots again; memory is gone, a pending command is not.
Restart ==
  /\ op' = Idle
  /\ fails' = 0
  /\ shadow' = [st |-> Zero, plug |-> FALSE]
  /\ recovered' = FALSE
  /\ UNCHANGED <<db, open, mode, world, history>>

-----------------------------------------------------------------------------
Init ==
  /\ db = Zero
  /\ open = [i \in Ids |-> "none"]
  /\ mode \in Modes
  /\ plug = FALSE
  /\ cmd = "none"
  /\ op = Idle
  /\ fails = 0
  /\ shadow = [st |-> Zero, plug |-> FALSE]
  /\ recovered = FALSE
  /\ onAge = Cap
  /\ offAge = Cap

Tick ==
  \/ \E in \in Inputs, stored \in Outcomes :
       TickLive(in, stored) \/ TickShadow(in, stored)
  \/ \E stored \in Outcomes : TickFailed(stored)

Request ==
  \/ \E readable \in BOOLEAN : ManualOn(readable) \/ ManualOff(readable)
  \/ Resume

Boot == \E readable \in BOOLEAN, answer \in Answers : Recover(readable, answer)

Finish ==
  \/ \E id \in Ids : PersistStart(id)
  \/ PersistEnd
  \/ PersistState
  \/ PersistFails
  \/ \E taken \in BOOLEAN : Switch(taken)

Environment ==
  \/ \E m \in Modes : ChangeMode(m)
  \/ RelayActs
  \/ SwitchedByHand
  \/ Minute
  \/ Restart

Next == Tick \/ Request \/ Boot \/ Finish \/ Environment

Spec == Init /\ [][Next]_vars

\* Fairness: the controller keeps ticking with usable readings although some
\* fail or the process restarts, its saves do not all fail, the clock runs.
Stored == PersistEnd \/ PersistState \/ \E id \in Ids : PersistStart(id)

Fairness ==
  /\ SF_vars(\E in \in Inputs, stored \in Outcomes : TickLive(in, stored))
  /\ SF_vars(Boot)
  /\ SF_vars(Stored)
  /\ SF_vars(\E taken \in BOOLEAN : Switch(taken))
  /\ SF_vars(Minute)

LiveSpec == Spec /\ Fairness

-----------------------------------------------------------------------------
(* Properties *)

\* Every variable keeps its type.
TypeOK ==
  /\ db \in State
  /\ open \in [Ids -> {"none", "surplus", "manual"}]
  /\ mode \in {"disabled", "shadow", "live"}
  /\ plug \in BOOLEAN
  /\ cmd \in Direction \union {"none"}
  /\ op \in Op
  /\ fails \in 0 .. FailLimit + 1
  /\ shadow \in [st : State, plug : BOOLEAN]
  /\ recovered \in BOOLEAN
  /\ onAge \in Age /\ offAge \in Age

\* The phase and the session agree whatever interrupts an operation: the
\* persisted state is charging exactly when it names a session, that session
\* is still open, and it is billed at the tariff of the phase.
SessionOwned ==
  /\ db.active # NoSession <=> db.phase \in Charging
  /\ db.phase = "surplus" => open[db.active] = "surplus"
  /\ db.phase = "manual_on" => open[db.active] = "manual"

\* Write-ahead: a command reaches the relay only after the controller state
\* that waits for its confirmation was stored.
CommandIsRecorded == op.stage = "switch" => db.pending = op.send

\* The automatic control respects the rest times of the relay across restarts,
\* failed saves and requests in between: it switches on only MinOff after the
\* last "off" decision and off only MinOn after the last "on" decision.
RelayRest ==
  [][ /\ op.stage = "switch" /\ op'.stage = "none" /\ op.who = "tick" /\ ~op.retry
      => /\ op.send = "on" => offAge >= MinOff
         /\ op.send = "off" => onAge >= MinOn ]_vars

\* The shadow machine waits for no confirmation and its virtual plug is on
\* exactly while it would be charging; it owns no session.
ShadowConsistent ==
  /\ shadow.st.pending = "none"
  /\ shadow.plug <=> shadow.st.phase = "surplus"
  /\ shadow.st.active = NoSession

\* A command that waits for its read-back is confirmed or given up, unless a
\* user issues the next one.
ConfirmationEnds == []<>(db.pending = "none" \/ op.who = "user")

\* A session whose plug is off is closed, unless the plug comes back or a user
\* steps in.
DeadSessionEnds == []<>(db.active = NoSession \/ plug \/ op.who = "user")

\* stores_c.go: "an open session is live controller state".
OpenIsLive == \A id \in Ids : open[id] # "none" => id = db.active
=============================================================================
