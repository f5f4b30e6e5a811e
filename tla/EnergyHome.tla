------------------------------- MODULE EnergyHome -------------------------------
(***************************************************************************)
(* The energy data of one home: the requests that write and delete it      *)
(* under the lifecycle lock (energy_lifecycle_lock.go, energy_data.go) and *)
(* the background sampler that works beside them without it                *)
(* (energy_sampler.go, energy/sampling.go).  Time is counted in sampling   *)
(* steps; energy_data.go's retention, which only deletes, is left out.     *)
(***************************************************************************)
EXTENDS Naturals, FiniteSets

CONSTANTS
    Requests,   \* requests running at a time
    Entities,   \* sensors that can be mapped as grid import
    None,
    Quarter,    \* sampling steps in a quarter of an hour
    Hold,       \* MaxHold, in sampling steps
    Start,      \* the sampling step the process starts in
    Horizon     \* bound: the clock stops there

VARIABLES
    profile,    \* "unclaimed" (also the tombstone of a deletion) or "claimed"
    mapping,    \* the confirmed grid import sensor
    imports,    \* smart-meter data is stored
    intervals,  \* the sampler's rows; entity and late are history
    chart,      \* the chart cache holds something of this home
    request,    \* per request: its kind and how far it is
    tick,       \* the sampler's step: the mapping and the time it took
    buffer,     \* energySamplerState
    now,
    seen,       \* history: the readings that could be used
    onboarding  \* history: an onboarding request wrote since the deletion

vars == <<profile, mapping, imports, intervals, chart, request, tick, buffer, now, seen, onboarding>>
data == <<profile, mapping, imports, intervals, onboarding>>

Resets == {"history", "profile"}
NeedClaim == Resets \cup {"import", "map"}
Kinds == NeedClaim \cup {"onboard", "chart"}

Idle == [at |-> "idle", kind |-> "chart"]
NoTick == [at |-> "idle", entity |-> None, now |-> 0, late |-> FALSE]
Empty == [entity |-> None, start |-> 0, samples |-> {}]

Row == [quarter : 0 .. Horizon, entity : Entities, value : BOOLEAN, late : BOOLEAN]

TypeOK ==
    /\ profile \in {"unclaimed", "claimed"}
    /\ mapping \in Entities \cup {None}
    /\ imports \in BOOLEAN /\ chart \in BOOLEAN /\ onboarding \in BOOLEAN
    /\ intervals \subseteq Row
    /\ request \in [Requests -> [at : {"idle", "in", "erased"}, kind : Kinds]]
    /\ tick \in [at : {"idle", "read"}, entity : Entities \cup {None},
                 now : 0 .. Horizon, late : BOOLEAN]
    /\ buffer \in [entity : Entities \cup {None}, start : 0 .. Horizon,
                   samples : SUBSET (0 .. Horizon)]
    /\ now \in 0 .. Horizon
    /\ seen \subseteq (0 .. Horizon) \X Entities

Init ==
    /\ profile = "unclaimed" /\ mapping = None
    /\ imports = FALSE /\ intervals = {} /\ chart = FALSE
    /\ request = [r \in Requests |-> Idle]
    /\ tick = NoTick /\ buffer = Empty
    /\ now = Start /\ seen = {} /\ onboarding = FALSE
-------------------------------------------------------------------------------
(* The requests and their lock.                                             *)

Holds(r) == request[r].at \in {"in", "erased"}

\* Mutant: a reset shares the lock like everybody else.
FreeShared(r, kind) == \A s \in Requests : request[s].at # "erased"

\* The reset is alone; the others share.
Free(r, kind) ==
    \A s \in Requests \ {r} :
        Holds(s) => kind \notin Resets /\ request[s].kind \notin Resets

\* A request gets the lock, however long it has waited (waiting changes
\* nothing); the claim is looked at behind the lock and may send it away.
Enter(r, kind) ==
    /\ request[r].at = "idle" /\ Free(r, kind)
    /\ kind \in NeedClaim => profile = "claimed"
    /\ request' = [request EXCEPT ![r] = [at |-> "in", kind |-> kind]]
    /\ UNCHANGED <<data, chart, tick, buffer, now, seen>>

In(r, kind) == request[r] = [at |-> "in", kind |-> kind]

\* The handler returns, with or without having written.
Leave(r) ==
    /\ request[r].at = "in"
    /\ request' = [request EXCEPT ![r] = Idle]
    /\ UNCHANGED <<data, chart, tick, buffer, now, seen>>

Import(r) ==
    /\ In(r, "import")
    /\ imports' = TRUE
    /\ UNCHANGED <<profile, mapping, intervals, onboarding, chart, request, tick, buffer, now, seen>>

\* Mappings are deleted and inserted one statement at a time.
Map(r, e) ==
    /\ In(r, "map") \/ In(r, "onboard")
    /\ mapping' = e
    /\ onboarding' = (onboarding \/ In(r, "onboard"))
    /\ UNCHANGED <<profile, imports, intervals, chart, request, tick, buffer, now, seen>>

\* Every step of the onboarding saves a claimed profile, after its mappings.
Onboard(r) ==
    /\ In(r, "onboard")
    /\ profile' = "claimed" /\ onboarding' = TRUE
    /\ request' = [request EXCEPT ![r] = Idle]
    /\ UNCHANGED <<mapping, imports, intervals, chart, tick, buffer, now, seen>>

\* A history has been fetched over the network, under the lock.
Chart(r) ==
    /\ In(r, "chart") /\ profile = "claimed"
    /\ chart' = TRUE
    /\ UNCHANGED <<data, request, tick, buffer, now, seen>>

Prune ==
    /\ chart /\ chart' = FALSE
    /\ UNCHANGED <<data, request, tick, buffer, now, seen>>

DeleteMeasurementData(r) ==
    /\ In(r, "history")
    /\ imports' = FALSE /\ intervals' = {}
    /\ request' = [request EXCEPT ![r] = Idle]
    /\ UNCHANGED <<profile, mapping, onboarding, chart, tick, buffer, now, seen>>

\* The rows go in one transaction, the cached charts after it.
DeleteProfile(r) ==
    /\ In(r, "profile")
    /\ profile' = "unclaimed" /\ mapping' = None
    /\ imports' = FALSE /\ intervals' = {} /\ onboarding' = FALSE
    /\ request' = [request EXCEPT ![r].at = "erased"]
    /\ tick' = [tick EXCEPT !.late = tick.at = "read"]
    /\ UNCHANGED <<chart, buffer, now, seen>>

ClearChart(r) ==
    /\ request[r].at = "erased"
    /\ chart' = FALSE
    /\ request' = [request EXCEPT ![r] = Idle]
    /\ UNCHANGED <<data, tick, buffer, now, seen>>
-------------------------------------------------------------------------------
(* The sampler.                                                             *)

\* The ticker: one sampling step after the other, some of them missed (Tock).
\* Without a mapping what was collected describes nothing any more.
Sample ==
    /\ tick.at = "idle" /\ now < Horizon
    /\ now' = now + 1
    /\ IF mapping = None
       THEN buffer' = Empty /\ UNCHANGED tick
       ELSE /\ tick' = [at |-> "read", entity |-> mapping, now |-> now, late |-> FALSE]
            /\ UNCHANGED buffer
    /\ UNCHANGED <<data, chart, request, seen>>

Steps(q) == q * Quarter .. q * Quarter + Quarter - 1

\* PowerSampleCoverage: each sample counts until the next one, Hold at most.
Covered(samples, q) == {t \in Steps(q) : \E s \in samples : s <= t /\ t < s + Hold}
Complete(steps) == 10 * Cardinality(steps) >= 9 * Quarter

\* QuarterFromPowerSamples: too little of the quarter seen leaves a gap; the
\* aggregation of the watts may leave one all the same and is not modelled.
QuarterFrom(b) ==
    [quarter |-> b.start, entity |-> b.entity,
     value |-> Complete(Covered(b.samples, b.start)), late |-> tick.late]

\* energyCarryForward: the last sample before the new quarter stays.
CarryForward(samples, q) ==
    {s \in samples : \A t \in samples : t >= q * Quarter \/ t <= s}

\* Mutant: the buffer of the former sensor goes on.
BufferKept(e, q) ==
    IF buffer.entity = None THEN [entity |-> e, start |-> q, samples |-> {}]
    ELSE [buffer EXCEPT !.entity = e]

\* The buffer of another sensor describes another quantity.
BufferFor(e, q) ==
    IF buffer.entity = e THEN buffer ELSE [entity |-> e, start |-> q, samples |-> {}]

\* PutInterval replaces the row of the quarter.
Put(row) == {i \in intervals : i.quarter # row.quarter} \cup {row}

\* The answer is here: the quarter that is over is written, the sample kept.
Finish(usable, stored) ==
    LET q == tick.now \div Quarter
        b == BufferFor(tick.entity, q)
        over == q > b.start
    IN
    /\ tick.at = "read"
    /\ intervals' = IF over /\ stored THEN Put(QuarterFrom(b)) ELSE intervals
    /\ buffer' = [b EXCEPT !.start = q,
                           !.samples = (IF over THEN CarryForward(@, q) ELSE @)
                                       \cup (IF usable THEN {tick.now} ELSE {})]
    /\ seen' = IF usable THEN seen \cup {<<tick.now, tick.entity>>} ELSE seen
    /\ tick' = NoTick
    /\ UNCHANGED <<profile, mapping, imports, onboarding, chart, request, now>>

Tock ==
    /\ now < Horizon
    /\ now' = now + 1
    /\ UNCHANGED <<data, chart, request, tick, buffer, seen>>

Crash ==
    /\ request' = [r \in Requests |-> Idle]
    /\ tick' = NoTick /\ buffer' = Empty /\ chart' = FALSE
    /\ UNCHANGED <<data, now, seen>>

Next ==
    \/ \E r \in Requests :
          \/ \E kind \in Kinds : Enter(r, kind)
          \/ Leave(r) \/ Import(r) \/ Onboard(r) \/ Chart(r)
          \/ \E e \in Entities \cup {None} : Map(r, e)
          \/ DeleteMeasurementData(r) \/ DeleteProfile(r) \/ ClearChart(r)
    \/ Prune \/ Sample \/ Tock \/ Crash
    \/ \E usable, stored \in BOOLEAN : Finish(usable, stored)

Spec == Init /\ [][Next]_vars
-------------------------------------------------------------------------------
(* Properties.                                                              *)

\* Until somebody onboards the home again nothing comes back after its
\* deletion, whatever was running or waiting (energy_lifecycle_lock.go:12),
\* but the quarter of a sampling step that had taken its mapping before.
NothingRevived ==
    profile = "unclaimed" /\ ~onboarding =>
        /\ mapping = None /\ ~imports
        /\ \A i \in intervals : i.late
        /\ (\A r \in Requests : request[r].at # "erased") => ~chart

\* A quarter with a value is over and was watched: nine tenths of it lie
\* within MaxHold of a reading of one sensor, over failures, restarts,
\* changes of the sensor and deletions (energy_sampler.go:155,
\* energy/sampling.go:24).
QuarterObserved ==
    \A i \in intervals :
        /\ i.quarter * Quarter + Quarter <= now
        /\ i.value => Complete({t \in Steps(i.quarter) :
               \E s \in 0 .. t : <<s, i.entity>> \in seen /\ t < s + Hold})

===============================================================================
