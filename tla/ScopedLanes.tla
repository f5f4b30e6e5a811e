------------------------------ MODULE ScopedLanes ------------------------------
(***************************************************************************)
(* The connection lanes of one process (src/internal/db/scoped.go): every  *)
(* tenant, and the maintenance scope, has a pool of its own, a lane; at    *)
(* most LaneCap lanes exist.  An operation leases its lane, takes a        *)
(* connection of it, returns the connection and drops the lease; an idle   *)
(* lane is evicted when another needs its place; Close retires them all.   *)
(* Scoped.mu makes each of the sections below one step; pools are closed   *)
(* and connections cut outside it.                                         *)
(***************************************************************************)
EXTENDS Naturals, Sequences, FiniteSets

CONSTANTS
    Requests,    \* operations, each of which runs once
    Keys,        \* the lane keys: tenants and the maintenance scope
    LaneCap,     \* Config.LaneCap
    PerLane,     \* Config.LaneMaxConns
    Cancellable, \* requests whose context may end; Background never does
    Nesting,     \* requests that start an operation on another lane inside their own
    NoKey        \* no lane

ASSUME LanesAssumption ==
    /\ LaneCap \in Nat \ {0}
    /\ PerLane \in Nat \ {0}
    /\ Cancellable \subseteq Requests
    /\ Nesting \subseteq Requests
    /\ NoKey \notin Keys

VARIABLES
    lane,    \* per key: in s.lanes and open, in it and retiring, not in it
    leases,  \* scopedLane.leases
    order,   \* s.order, least recently used first
    pool,    \* per key the connections of its sql.DB
    leaked,  \* connections an operation discarded, alive after their lane left s.lanes
    slipped, \* those the pool's own cleaner was cutting at that moment
    req,     \* per request: step, lane, the lane it holds around it, context, waiting
    closer   \* Scoped.Close: not called, waiting for the lanes, returned

vars == <<lane, leases, order, pool, leaked, slipped, req, closer>>

Waits == {"try", "wait", "conn"}
Steps == {"use", "release", "done"} \cup Waits
\* idle: free in the pool; busy: checked out; dropping: discarded by an
\* operation; expiring: taken by the pool's cleaner; closing: cut by pool.Close.
NoConnections == [idle |-> 0, busy |-> 0, dropping |-> 0, expiring |-> 0,
                  closing |-> 0, shut |-> FALSE]
Start(r, k) == [at |-> "try", key |-> k, outer |-> NoKey, gone |-> FALSE,
             timer |-> FALSE, woken |-> FALSE, nests |-> r \in Nesting]

closed == closer # "none"
Held == {k \in Keys : lane[k] # "none"}
InUse(k) == pool[k].busy + pool[k].dropping + pool[k].expiring
Alive(k) == pool[k].idle + InUse(k) + pool[k].closing

TypeOK ==
    /\ lane \in [Keys -> {"none", "open", "retiring"}]
    /\ leases \in [Keys -> Nat]
    /\ order \in Seq(Keys)
    /\ pool \in [Keys -> [idle : Nat, busy : Nat, dropping : Nat,
                          expiring : Nat, closing : Nat, shut : BOOLEAN]]
    /\ leaked \in Nat
    /\ slipped \in Nat
    /\ req \in [Requests -> [at : Steps, key : Keys \cup {NoKey},
                             outer : Keys \cup {NoKey}, gone : BOOLEAN,
                             timer : BOOLEAN, woken : BOOLEAN, nests : BOOLEAN]]
    /\ closer \in {"none", "waiting", "done"}

Init ==
    /\ lane = [k \in Keys |-> "none"]
    /\ leases = [k \in Keys |-> 0]
    /\ order = <<>>
    /\ pool = [k \in Keys |-> NoConnections]
    /\ leaked = 0
    /\ slipped = 0
    /\ \E ask \in [Requests -> Keys] : req = [r \in Requests |-> Start(r, ask[r])]
    /\ closer = "none"
-------------------------------------------------------------------------------
(* s.mu, s.changed and s.order.                                             *)

\* notify: the channel every waiter has read is closed.
Notified(q) == [r \in Requests |-> IF q[r].at = "wait" THEN [q[r] EXCEPT !.woken = TRUE] ELSE q[r]]

Without(k) == SelectSeq(order, LAMBDA other : other # k)

\* Mutant: a lane counts as idle as soon as no lease is left.
EvictableUnleased(k) == lane[k] = "open" /\ leases[k] = 0

\* Mutant: the connections alone are looked at.
EvictableUnused(k) == lane[k] = "open" /\ InUse(k) = 0

Evictable(k) == lane[k] = "open" /\ leases[k] = 0 /\ InUse(k) = 0

\* evictForRoom stops at the first lane it can retire.
Victims == {i \in DOMAIN order : Evictable(order[i]) /\
                \A j \in 1 .. i - 1 : ~Evictable(order[j])}
\* Mutant: evictForRoom does not report a cleanup, so no timer is set.
NeverPending == FALSE

\* An unleased lane it passed still has a connection to be cut.
CleanupPending ==
    \E i \in DOMAIN order :
        /\ lane[order[i]] = "open" /\ leases[order[i]] = 0 /\ InUse(order[i]) # 0
        /\ \A v \in Victims : i < v

\* An operation of r has ended; the one around it goes on.
Ended(q) == IF q.outer = NoKey
            THEN [q EXCEPT !.at = "done", !.key = NoKey]
            ELSE [q EXCEPT !.at = "use", !.key = q.outer, !.outer = NoKey]

Move(r, at) == req' = [req EXCEPT ![r].at = at]
-------------------------------------------------------------------------------
(* acquire.                                                                 *)

\* An operation inside another one, on another lane.
Nest(r, k) ==
    /\ req[r].at = "use" /\ req[r].nests /\ k # req[r].key
    /\ req' = [req EXCEPT ![r].at = "try", ![r].key = k, ![r].outer = req[r].key,
                          ![r].nests = FALSE]
    /\ UNCHANGED <<lane, leases, order, pool, leaked, slipped, closer>>

Cancel(r) ==
    /\ r \in Cancellable /\ ~req[r].gone /\ req[r].at \in Waits
    /\ req' = [req EXCEPT ![r].gone = TRUE]
    /\ UNCHANGED <<lane, leases, order, pool, leaked, slipped, closer>>

Refused(r) ==
    /\ req[r].at = "try" /\ (req[r].gone \/ closed)
    /\ req' = [req EXCEPT ![r] = Ended(req[r])]
    /\ UNCHANGED <<lane, leases, order, pool, leaked, slipped, closer>>

Admitted(r) == req[r].at = "try" /\ ~req[r].gone /\ ~closed

Lease(r) ==
    /\ Admitted(r) /\ lane[req[r].key] = "open"
    /\ leases' = [leases EXCEPT ![req[r].key] = @ + 1]
    /\ order' = Append(Without(req[r].key), req[r].key)
    /\ Move(r, "conn")
    /\ UNCHANGED <<lane, pool, leaked, slipped, closer>>

Room == Cardinality(Held) < LaneCap

Create(r) ==
    LET k == req[r].key IN
    /\ Admitted(r) /\ lane[k] = "none" /\ Room
    /\ lane' = [lane EXCEPT ![k] = "open"]
    /\ leases' = [leases EXCEPT ![k] = 1]
    /\ order' = Append(order, k)
    /\ pool' = [pool EXCEPT ![k] = NoConnections]
    /\ Move(r, "conn")
    /\ UNCHANGED <<leaked, slipped, closer>>

\* No room, or the own lane is retiring: evict one lane, then wait.
Await(r) ==
    LET k == req[r].key
        full == lane[k] = "none" /\ ~Room IN
    /\ Admitted(r) /\ (full \/ lane[k] = "retiring")
    /\ lane' = [other \in Keys |-> IF full /\ \E i \in Victims : order[i] = other
                                   THEN "retiring" ELSE lane[other]]
    /\ req' = [req EXCEPT ![r].at = "wait", ![r].woken = FALSE,
                          ![r].timer = full /\ CleanupPending]
    /\ UNCHANGED <<leases, order, pool, leaked, slipped, closer>>

Wake(r) ==
    /\ req[r].at = "wait" /\ (req[r].woken \/ req[r].timer \/ req[r].gone)
    /\ req' = [req EXCEPT ![r].at = "try", ![r].woken = FALSE, ![r].timer = FALSE]
    /\ UNCHANGED <<lane, leases, order, pool, leaked, slipped, closer>>
-------------------------------------------------------------------------------
(* The connection of an operation (checkout, finish, release).              *)

\* The free connection, or a new one.
GetConn(r) ==
    LET k == req[r].key IN
    /\ req[r].at = "conn" /\ ~pool[k].shut
    /\ pool[k].idle > 0 \/ Alive(k) < PerLane
    /\ pool' = [pool EXCEPT ![k].busy = @ + 1, ![k].idle = IF @ > 0 THEN @ - 1 ELSE 0]
    /\ Move(r, "use")
    /\ UNCHANGED <<lane, leases, order, leaked, slipped, closer>>

\* The connection fails, the context ends or the pool was closed.
GetNone(r) ==
    /\ req[r].at = "conn"
    /\ \/ req[r].gone \/ pool[req[r].key].shut
       \/ Alive(req[r].key) < PerLane
    /\ Move(r, "release")
    /\ UNCHANGED <<lane, leases, order, pool, leaked, slipped, closer>>

\* The operation ends (finish) with conn.Close: kept for the next operation, or discarded; a closed pool keeps none.
Return(r) ==
    LET k == req[r].key IN
    /\ req[r].at = "use"
    /\ \/ /\ ~pool[k].shut
          /\ pool' = [pool EXCEPT ![k].busy = @ - 1, ![k].idle = @ + 1]
       \/ pool' = [pool EXCEPT ![k].busy = @ - 1, ![k].dropping = @ + 1]
    /\ Move(r, "release")
    /\ UNCHANGED <<lane, leases, order, leaked, slipped, closer>>

Release(r) ==
    /\ req[r].at = "release"
    /\ leases' = [leases EXCEPT ![req[r].key] = @ - 1]
    /\ req' = Notified([req EXCEPT ![r] = Ended(req[r])])
    /\ UNCHANGED <<lane, order, pool, leaked, slipped, closer>>

Step(r) ==
    \/ Refused(r) \/ Lease(r) \/ Create(r) \/ Await(r) \/ Wake(r)
    \/ GetConn(r) \/ GetNone(r) \/ Return(r) \/ Release(r)
-------------------------------------------------------------------------------
(* The pools: database/sql and retire.                                      *)

\* The pool's cleaner takes a free connection that lived too long.
Expire(k) ==
    /\ pool[k].idle > 0
    /\ pool' = [pool EXCEPT ![k].idle = @ - 1, ![k].expiring = @ + 1]
    /\ UNCHANGED <<lane, leases, order, leaked, slipped, req, closer>>

\* The socket of a discarded or expired connection is gone.
Cut(k) ==
    /\ \/ pool[k].dropping > 0 /\ pool' = [pool EXCEPT ![k].dropping = @ - 1]
       \/ pool[k].expiring > 0 /\ pool' = [pool EXCEPT ![k].expiring = @ - 1]
    /\ UNCHANGED <<lane, leases, order, leaked, slipped, req, closer>>

\* The same once the lane is no longer in s.lanes.
CutLate ==
    /\ \/ leaked > 0 /\ leaked' = leaked - 1 /\ slipped' = slipped
       \/ slipped > 0 /\ slipped' = slipped - 1 /\ leaked' = leaked
    /\ UNCHANGED <<lane, leases, order, pool, req, closer>>

\* retire: pool.Close cuts the free connections and waits for no other.
ClosePool(k) ==
    /\ lane[k] = "retiring" /\ ~pool[k].shut
    /\ pool' = [pool EXCEPT ![k].idle = 0, ![k].closing = pool[k].idle, ![k].shut = TRUE]
    /\ UNCHANGED <<lane, leases, order, leaked, slipped, req, closer>>

\* retire, after pool.Close: the lane leaves s.lanes.
Retire(k) ==
    /\ lane[k] = "retiring" /\ pool[k].shut
    /\ lane' = [lane EXCEPT ![k] = "none"]
    /\ order' = Without(k)
    /\ leaked' = leaked + pool[k].dropping
    /\ slipped' = slipped + pool[k].expiring
    /\ pool' = [pool EXCEPT ![k].closing = 0, ![k].dropping = 0, ![k].expiring = 0]
    /\ req' = Notified(req)
    /\ UNCHANGED <<leases, closer>>
-------------------------------------------------------------------------------
(* Close.                                                                   *)

\* Mutant: Close spares the lanes in use, as eviction does.
RetireUnleased == [k \in Keys |-> IF lane[k] = "open" /\ leases[k] = 0 THEN "retiring" ELSE lane[k]]

RetireAll == [k \in Keys |-> IF lane[k] = "open" THEN "retiring" ELSE lane[k]]

Close ==
    /\ closer = "none"
    /\ closer' = "waiting"
    /\ lane' = RetireAll
    /\ req' = Notified(req)
    /\ UNCHANGED <<leases, order, pool, leaked, slipped>>

\* Every lane Close has listed is retired; none was created since.
CloseReturns ==
    /\ closer = "waiting" /\ Held = {}
    /\ closer' = "done"
    /\ UNCHANGED <<lane, leases, order, pool, leaked, slipped, req>>

\* The pools' goroutines and Close.
Background == CloseReturns \/ \E k \in Keys : Cut(k) \/ ClosePool(k) \/ Retire(k)

Next ==
    \/ \E r \in Requests : Step(r) \/ Cancel(r) \/ \E k \in Keys : Nest(r, k)
    \/ \E k \in Keys : Expire(k)
    \/ Background \/ CutLate \/ Close

\* Goroutines run, statements have a timeout and sockets close in the end.
Fairness == (\A r \in Requests : WF_vars(Step(r))) /\ WF_vars(Background)

Spec == Init /\ [][Next]_vars /\ Fairness
-------------------------------------------------------------------------------
(* Properties.                                                              *)

\* Requests that hold a lease of k.
Uses(r, k) == \/ req[r].outer = k
              \/ req[r].key = k /\ req[r].at \in {"conn", "use", "release"}
Holders(k) == {r \in Requests : Uses(r, k)}

\* A lease is held by exactly one operation and its pool is not closed before
\* it ends, unless the whole factory is: eviction and creation never take a
\* lane from under its user, and once Close has returned no lane is left
\* (acquire, evictForRoom, release, Close).
LeaseHolds ==
    \A k \in Keys :
        /\ leases[k] = Cardinality(Holders(k))
        /\ Holders(k) # {} /\ ~closed => lane[k] = "open" /\ ~pool[k].shut
        /\ closer = "done" => lane[k] = "none"

\* The connections of the pools, numbered.
Connections == UNION {{k} \X (1 .. Alive(k)) : k \in Keys}

\* The connections that are physically open, in lanes and outside of them, fit
\* the plan Budget states, although lanes are closed outside the mutex and
\* discarded connections die late; only one the pool's cleaner took between
\* the eviction's look at InUse and pool.Close is beyond it (acquire, laneConn,
\* evictForRoom, retire).
WithinBudget ==
    /\ Cardinality(Held) <= LaneCap
    /\ Cardinality(Connections) + leaked <= LaneCap * PerLane

\* Operations that wait for one another: all lanes, or all connections of the
\* one they lease, are held around them.
Around(S, k) == {r \in S : req[r].outer = k}
Stuck(S) ==
    \A r \in S :
        \/ /\ req[r].at \in {"wait", "try"}
           /\ \A k \in Held : Around(S, k) # {}
        \/ /\ req[r].at = "conn"
           /\ Cardinality(Around(S, req[r].key)) >= PerLane
Knotted == \E S \in SUBSET Requests : S # {} /\ Stuck(S)

\* Whatever waits for a lane or a connection gets it, or an error, unless it
\* is one of a knot of operations nested in operations: a single operation
\* never waits for itself (acquire, notify, the cleanup timer).
RequestEnds == \A r \in Requests : req[r].at \in Waits ~> (req[r].at \notin Waits \/ Knotted)

\* Close returns although operations still hold leases and others wait for
\* room (Close, retire).
CloseEnds == closer = "waiting" ~> closer = "done"
===============================================================================
