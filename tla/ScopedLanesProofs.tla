--------------------------- MODULE ScopedLanesProofs ---------------------------
(***************************************************************************)
(* For any requests, tenants, lanes and connections per lane: a leased     *)
(* lane stays open until its last lease is dropped or the factory closes,  *)
(* and the connections fit the budget, however eviction, discarded         *)
(* connections and Close meet.                                             *)
(***************************************************************************)
EXTENDS ScopedLanes, FiniteSetTheorems, TLAPS

\* The types of everything but the order of the lanes, which only says who is
\* evicted first.
Connection == [idle : Nat, busy : Nat, dropping : Nat, expiring : Nat,
               closing : Nat, shut : BOOLEAN]
Asking == [at : Steps, key : Keys \cup {NoKey}, outer : Keys \cup {NoKey}, gone : BOOLEAN,
           timer : BOOLEAN, woken : BOOLEAN, nests : BOOLEAN]
Typed ==
    /\ lane \in [Keys -> {"none", "open", "retiring"}]
    /\ leases \in [Keys -> Nat]
    /\ pool \in [Keys -> Connection]
    /\ leaked \in Nat
    /\ slipped \in Nat
    /\ req \in [Requests -> Asking]
    /\ closer \in {"none", "waiting", "done"}

\* An operation has a lane until it is done, and another one around it at most.
Shaped(q) ==
    /\ q.at # "done" => q.key \in Keys
    /\ q.at = "done" => q.key = NoKey /\ q.outer = NoKey
    /\ q.outer # NoKey => q.outer # q.key /\ ~q.nests
ReqInv == \A r \in Requests : Shaped(req[r])

\* Requests that have a connection of k checked out.
Occupies(r, k) == req[r].outer = k \/ (req[r].key = k /\ req[r].at = "use")
Users(k) == {r \in Requests : Occupies(r, k)}

\* Leases and checked out connections are counted.
CountInv ==
    \A k \in Keys :
        /\ IsFiniteSet(Holders(k)) /\ leases[k] = Cardinality(Holders(k))
        /\ IsFiniteSet(Users(k)) /\ pool[k].busy = Cardinality(Users(k))

\* A lane that is leased is open unless the factory closes; then its pool may
\* be gone, but is not in use by anybody new.
LaneInv(k) ==
    /\ Holders(k) # {} => IF closed THEN lane[k] # "none" \/ pool[k].shut ELSE lane[k] = "open"
    /\ lane[k] = "open" => ~pool[k].shut /\ ~closed
    /\ pool[k].shut => pool[k].idle = 0
    /\ lane[k] = "none" /\ ~closed => Alive(k) = 0
    /\ lane[k] = "retiring" /\ ~closed => pool[k].dropping = 0
    /\ Alive(k) <= PerLane
OpenInv ==
    /\ \A k \in Keys : LaneInv(k)
    /\ ~closed => leaked = 0
    /\ closer = "done" => Held = {}

\* What a lane may still grow to: its plan while its pool takes connections,
\* what is alive of it afterwards.
Reserve(k) == IF lane[k] # "none" /\ ~pool[k].shut THEN PerLane ELSE Alive(k)
Slots(k) == {k} \X (1 .. Reserve(k))
Reserved == UNION {Slots(k) : k \in Keys}
BudgetInv ==
    /\ IsFiniteSet(Held) /\ Cardinality(Held) <= LaneCap
    /\ IsFiniteSet(Reserved) /\ Cardinality(Reserved) + leaked <= LaneCap * PerLane

IInv == Typed /\ ReqInv /\ CountInv /\ OpenInv /\ BudgetInv
-------------------------------------------------------------------------------
(* The requests.                                                            *)

\* What Notified and Ended make of a request.
LEMMA NotifiedKeeps ==
  ASSUME NEW q \in [Requests -> Asking]
  PROVE  /\ Notified(q) \in [Requests -> Asking]
         /\ \A r \in Requests : /\ Notified(q)[r].at = q[r].at /\ Notified(q)[r].key = q[r].key
                                /\ Notified(q)[r].outer = q[r].outer
                                /\ Notified(q)[r].nests = q[r].nests
<1>1. ASSUME NEW r \in Requests
      PROVE  /\ Notified(q)[r] \in Asking
             /\ Notified(q)[r].at = q[r].at /\ Notified(q)[r].key = q[r].key
             /\ Notified(q)[r].outer = q[r].outer /\ Notified(q)[r].nests = q[r].nests
  <2>1. q[r] \in Asking
    OBVIOUS
  <2>2. CASE q[r].at = "wait"
    <3>1. Notified(q)[r] = [q[r] EXCEPT !.woken = TRUE]
      BY <2>2 DEF Notified
    <3> QED BY <2>1, <3>1 DEF Asking
  <2>3. CASE q[r].at # "wait"
    <3>1. Notified(q)[r] = q[r]
      BY <2>3 DEF Notified
    <3> QED BY <2>1, <3>1
  <2> QED BY <2>2, <2>3
<1>2. Notified(q) = [r \in Requests |-> Notified(q)[r]]
  BY DEF Notified
<1> QED BY <1>1, <1>2

LEMMA EndedKeeps ==
  ASSUME NEW q \in Asking, Shaped(q), q.at # "done"
  PROVE  /\ Ended(q) \in Asking /\ Shaped(Ended(q))
         /\ q.outer = NoKey => Ended(q).at = "done" /\ Ended(q).key = NoKey /\ Ended(q).outer = NoKey
         /\ q.outer # NoKey => Ended(q).at = "use" /\ Ended(q).key = q.outer /\ Ended(q).outer = NoKey
<1>1. CASE q.outer = NoKey
  <2>1. Ended(q) = [q EXCEPT !.at = "done", !.key = NoKey]
    BY <1>1 DEF Ended
  <2>2. "done" \in Steps
    BY DEF Steps
  <2>3. Ended(q) \in Asking
    BY <2>1, <2>2 DEF Asking
  <2>4. Ended(q).at = "done" /\ Ended(q).key = NoKey /\ Ended(q).outer = NoKey
    BY <1>1, <2>1 DEF Asking
  <2> QED BY <1>1, <2>3, <2>4 DEF Shaped
<1>2. CASE q.outer # NoKey
  <2>1. Ended(q) = [q EXCEPT !.at = "use", !.key = q.outer, !.outer = NoKey]
    BY <1>2 DEF Ended
  <2>2. "use" \in Steps /\ q.outer \in Keys
    BY <1>2 DEF Steps, Asking
  <2>3. Ended(q) \in Asking
    BY <2>1, <2>2 DEF Asking
  <2>4. Ended(q).at = "use" /\ Ended(q).key = q.outer /\ Ended(q).outer = NoKey
    BY <2>1 DEF Asking
  <2> QED BY <1>2, <2>2, <2>3, <2>4 DEF Shaped
<1> QED BY <1>1, <1>2

\* What the step of one request makes of it, and of nobody else.
Alone(r, q) == /\ q \in Asking /\ Shaped(q)
               /\ req'[r] = q
               /\ req' \in [Requests -> Asking]
               /\ \A s \in Requests : /\ s # r => req'[s].at = req[s].at /\ req'[s].key = req[s].key
                                                 /\ req'[s].outer = req[s].outer
                                                 /\ req'[s].nests = req[s].nests

LEMMA MoveAlone ==
  ASSUME Typed, NEW r \in Requests, NEW q \in Asking, Shaped(q), req' = [req EXCEPT ![r] = q]
  PROVE  Alone(r, q)
  BY DEF Typed, Alone

\* The lanes a request leases and has connections of before and after it goes on.
LEMMA Onward ==
  ASSUME Typed, ReqInv, NEW r \in Requests, NEW at \in {"conn", "use", "release"},
         req[r].at # "done", Move(r, at)
  PROVE  \E q \in Asking : /\ Alone(r, q) /\ q.at = at
                           /\ q.key = req[r].key /\ q.outer = req[r].outer
<1> DEFINE q == [req[r] EXCEPT !.at = at]
<1>1. req[r] \in Asking /\ Shaped(req[r]) /\ at \in Steps /\ req \in [Requests -> Asking]
  BY DEF Typed, ReqInv, Steps, Waits
<1>2. q \in Asking /\ q.at = at /\ q.key = req[r].key /\ q.outer = req[r].outer /\ q.nests = req[r].nests
  BY <1>1 DEF Asking
<1>3. req' = [req EXCEPT ![r] = q]
  BY <1>1 DEF Move
<1> HIDE DEF q
<1>4. Shaped(q)
  BY <1>1, <1>2 DEF Shaped
<1> QED BY <1>2, <1>3, <1>4, MoveAlone

\* The steps after which a request has the leases and connections it had.
SameLanes(q, p) ==
    \A k \in Keys :
        /\ (q.outer = k \/ (q.key = k /\ q.at \in {"conn", "use", "release"}))
           <=> (p.outer = k \/ (p.key = k /\ p.at \in {"conn", "use", "release"}))
        /\ (q.outer = k \/ (q.key = k /\ q.at = "use")) <=> (p.outer = k \/ (p.key = k /\ p.at = "use"))

LEMMA QuietRequests ==
  ASSUME Typed, ReqInv, NEW r \in Requests,
         (\E k \in Keys : Nest(r, k)) \/ Cancel(r) \/ Refused(r) \/ Await(r) \/ Wake(r)
  PROVE  \E q \in Asking : Alone(r, q) /\ SameLanes(q, req[r])
<1>1. /\ req[r] \in Asking /\ Shaped(req[r]) /\ req \in [Requests -> Asking]
      /\ {"try", "wait", "use"} \subseteq Steps /\ NoKey \notin Keys
  BY LanesAssumption DEF Typed, ReqInv, Steps, Waits
<1>2. ASSUME NEW k \in Keys, Nest(r, k) PROVE \E q \in Asking : Alone(r, q) /\ SameLanes(q, req[r])
  <2> DEFINE q == [req[r] EXCEPT !.at = "try", !.key = k, !.outer = req[r].key, !.nests = FALSE]
  <2>1. req[r].at = "use" /\ req[r].key \in Keys /\ req[r].key # k /\ req[r].outer = NoKey
    BY <1>1, <1>2 DEF Nest, Shaped
  <2>2. /\ q \in Asking /\ q.at = "try" /\ q.key = k /\ q.outer = req[r].key /\ ~q.nests
    BY <1>1, <2>1 DEF Asking
  <2>3. req' = [req EXCEPT ![r] = q]
    BY <1>1, <1>2 DEF Nest, Asking
  <2> HIDE DEF q
  <2>4. Shaped(q) /\ SameLanes(q, req[r])
    BY <1>1, <2>1, <2>2 DEF Shaped, SameLanes
  <2> QED BY <2>2, <2>3, <2>4, MoveAlone
<1>3. CASE Cancel(r)
  <2> DEFINE q == [req[r] EXCEPT !.gone = TRUE]
  <2>1. /\ q \in Asking /\ q.at = req[r].at /\ q.key = req[r].key
        /\ q.outer = req[r].outer /\ q.nests = req[r].nests
    BY <1>1 DEF Asking
  <2>2. req' = [req EXCEPT ![r] = q]
    BY <1>1, <1>3 DEF Cancel
  <2> HIDE DEF q
  <2>3. Shaped(q) /\ SameLanes(q, req[r])
    BY <1>1, <2>1 DEF Shaped, SameLanes
  <2> QED BY <2>1, <2>2, <2>3, MoveAlone
<1>4. CASE Refused(r)
  <2>1. req[r].at = "try" /\ req' = [req EXCEPT ![r] = Ended(req[r])]
    BY <1>4 DEF Refused
  <2>2. Ended(req[r]) \in Asking /\ Shaped(Ended(req[r]))
    BY <1>1, <2>1, EndedKeeps
  <2>3. SameLanes(Ended(req[r]), req[r])
    <3>1. CASE req[r].outer = NoKey
      BY <1>1, <2>1, <3>1, EndedKeeps DEF SameLanes
    <3>2. CASE req[r].outer # NoKey
      BY <1>1, <2>1, <3>2, EndedKeeps DEF SameLanes
    <3> QED BY <3>1, <3>2
  <2> QED BY <2>1, <2>2, <2>3, MoveAlone
<1>5. ASSUME NEW at \in {"try", "wait"}, NEW timer \in BOOLEAN, req[r].at \in {"try", "wait"},
             req' = [req EXCEPT ![r].at = at, ![r].woken = FALSE, ![r].timer = timer]
      PROVE  \E q \in Asking : Alone(r, q) /\ SameLanes(q, req[r])
  <2> DEFINE q == [req[r] EXCEPT !.at = at, !.woken = FALSE, !.timer = timer]
  <2>1. /\ q \in Asking /\ q.at = at /\ q.key = req[r].key
        /\ q.outer = req[r].outer /\ q.nests = req[r].nests
    BY <1>1 DEF Asking
  <2>2. req' = [req EXCEPT ![r] = q]
    BY <1>1, <1>5
  <2> HIDE DEF q
  <2>3. Shaped(q) /\ SameLanes(q, req[r])
    BY <1>1, <1>5, <2>1 DEF Shaped, SameLanes
  <2> QED BY <2>1, <2>2, <2>3, MoveAlone
<1>6. CASE Await(r)
  <2>1. PICK timer \in BOOLEAN :
            req' = [req EXCEPT ![r].at = "wait", ![r].woken = FALSE, ![r].timer = timer]
    BY <1>6 DEF Await
  <2> QED BY <1>5, <1>6, <2>1 DEF Await, Admitted
<1>7. CASE Wake(r)
  BY <1>5, <1>7 DEF Wake
<1> QED BY <1>2, <1>3, <1>4, <1>6, <1>7

LEMMA ReleaseAlone ==
  ASSUME Typed, ReqInv, NEW r \in Requests, Release(r)
  PROVE  \E q \in Asking :
            /\ Alone(r, q) /\ q.outer = NoKey
            /\ req[r].outer = NoKey => q.at = "done" /\ q.key = NoKey
            /\ req[r].outer # NoKey => q.at = "use" /\ q.key = req[r].outer
<1>1. req[r] \in Asking /\ Shaped(req[r]) /\ req \in [Requests -> Asking] /\ req[r].at = "release"
  BY DEF Typed, ReqInv, Release
<1> DEFINE ended == [req EXCEPT ![r] = Ended(req[r])]
<1>2. Ended(req[r]) \in Asking /\ Shaped(Ended(req[r]))
  BY <1>1, EndedKeeps
<1>3. ended \in [Requests -> Asking] /\ req' = Notified(ended)
  BY <1>1, <1>2 DEF Release
<1>4. ended[r] = Ended(req[r]) /\ \A s \in Requests : s # r => ended[s] = req[s]
  BY <1>1
<1> HIDE DEF ended
<1>5. /\ req' \in [Requests -> Asking]
      /\ \A s \in Requests : /\ req'[s].at = ended[s].at /\ req'[s].key = ended[s].key
                             /\ req'[s].outer = ended[s].outer /\ req'[s].nests = ended[s].nests
  BY <1>3, NotifiedKeeps
<1>6. Shaped(req'[r])
  BY <1>2, <1>4, <1>5 DEF Shaped
<1>7. Alone(r, req'[r])
  BY <1>4, <1>5, <1>6 DEF Alone
<1>8. req'[r].at = Ended(req[r]).at /\ req'[r].key = Ended(req[r]).key /\ req'[r].outer = Ended(req[r]).outer
  BY <1>4, <1>5
<1> QED BY <1>1, <1>5, <1>7, <1>8, EndedKeeps
-------------------------------------------------------------------------------
(* Holders and users.                                                       *)

\* A step of one request moves only that request in and out of them.
LEMMA HoldersMove ==
  ASSUME Typed, NEW r \in Requests, NEW q, Alone(r, q), NEW k \in Keys
  PROVE  /\ (Uses(r, k)' <=> Uses(r, k)) => Holders(k)' = Holders(k)
         /\ Uses(r, k)' /\ ~Uses(r, k) => Holders(k)' = Holders(k) \cup {r} /\ r \notin Holders(k)
         /\ ~Uses(r, k)' /\ Uses(r, k) => Holders(k)' = Holders(k) \ {r} /\ r \in Holders(k)
<1>1. \A s \in Requests : s # r => (Uses(s, k)' <=> Uses(s, k))
  BY DEF Alone, Uses
<1> QED BY <1>1 DEF Holders

LEMMA UsersMove ==
  ASSUME Typed, NEW r \in Requests, NEW q, Alone(r, q), NEW k \in Keys
  PROVE  /\ (Occupies(r, k)' <=> Occupies(r, k)) => Users(k)' = Users(k)
         /\ Occupies(r, k)' /\ ~Occupies(r, k) => Users(k)' = Users(k) \cup {r} /\ r \notin Users(k)
         /\ ~Occupies(r, k)' /\ Occupies(r, k) => Users(k)' = Users(k) \ {r} /\ r \in Users(k)
<1>1. \A s \in Requests : s # r => (Occupies(s, k)' <=> Occupies(s, k))
  BY DEF Alone, Occupies
<1> QED BY <1>1 DEF Users

\* What the steps do to the requests and who has what.
SameHolders == \A k \in Keys : Holders(k)' = Holders(k)
SameUsers == \A k \in Keys : Users(k)' = Users(k)

LEMMA AloneReq ==
  ASSUME ReqInv, NEW r \in Requests, NEW q, Alone(r, q)
  PROVE  ReqInv'
<1> SUFFICES ASSUME NEW s \in Requests PROVE Shaped(req'[s])
  BY DEF ReqInv
<1>1. Shaped(req[s])
  BY DEF ReqInv
<1> QED BY <1>1 DEF Alone, Shaped

LEMMA QuietAlone ==
  ASSUME Typed, ReqInv, NEW r \in Requests,
         (\E k \in Keys : Nest(r, k)) \/ Cancel(r) \/ Refused(r) \/ Await(r) \/ Wake(r)
  PROVE  req' \in [Requests -> Asking] /\ ReqInv' /\ SameHolders /\ SameUsers
<1>1. PICK q \in Asking : Alone(r, q) /\ SameLanes(q, req[r])
  BY QuietRequests
<1>2. \A k \in Keys : (Uses(r, k)' <=> Uses(r, k)) /\ (Occupies(r, k)' <=> Occupies(r, k))
  BY <1>1 DEF Alone, SameLanes, Uses, Occupies
<1> QED BY <1>1, <1>2, HoldersMove, UsersMove, AloneReq DEF SameHolders, SameUsers, Alone

LEMMA NotifiedAlone ==
  ASSUME Typed, ReqInv, req' = Notified(req) \/ UNCHANGED req
  PROVE  req' \in [Requests -> Asking] /\ ReqInv' /\ SameHolders /\ SameUsers
<1>1. /\ req' \in [Requests -> Asking]
      /\ \A r \in Requests : /\ req'[r].at = req[r].at /\ req'[r].key = req[r].key
                             /\ req'[r].outer = req[r].outer /\ req'[r].nests = req[r].nests
  BY NotifiedKeeps DEF Typed
<1>2. ReqInv'
  BY <1>1 DEF ReqInv, Shaped
<1>3. \A k \in Keys, r \in Requests : (Uses(r, k)' <=> Uses(r, k)) /\ (Occupies(r, k)' <=> Occupies(r, k))
  BY <1>1 DEF Uses, Occupies
<1> QED BY <1>1, <1>2, <1>3 DEF SameHolders, SameUsers, Holders, Users

\* A lease is taken, a connection checked out and in, a lease dropped.
LEMMA Takes ==
  ASSUME Typed, ReqInv, NEW r \in Requests, Lease(r) \/ Create(r)
  PROVE  /\ req' \in [Requests -> Asking] /\ ReqInv' /\ SameUsers
         /\ req[r].key \in Keys
         /\ \A k \in Keys : IF k = req[r].key
                            THEN Holders(k)' = Holders(k) \cup {r} /\ r \notin Holders(k)
                            ELSE Holders(k)' = Holders(k)
<1>1. req[r].at = "try" /\ Move(r, "conn") /\ Shaped(req[r]) /\ NoKey \notin Keys
  BY LanesAssumption DEF Lease, Create, Admitted, ReqInv
<1>2. PICK q \in Asking : Alone(r, q) /\ q.at = "conn" /\ q.key = req[r].key /\ q.outer = req[r].outer
  BY <1>1, Onward
<1>3. req[r].key \in Keys /\ req[r].outer # req[r].key
  BY <1>1 DEF Shaped
<1>4. \A k \in Keys : /\ Occupies(r, k)' <=> Occupies(r, k)
                      /\ k # req[r].key => (Uses(r, k)' <=> Uses(r, k))
  BY <1>1, <1>2 DEF Alone, Uses, Occupies
<1>5. Uses(r, req[r].key)' /\ ~Uses(r, req[r].key)
  <2>1. Uses(r, req[r].key)' <=> (req'[r].outer = req'[r].key \/ req'[r].at \in {"conn", "use", "release"})
    BY DEF Uses
  <2> QED BY <1>1, <1>2, <1>3, <2>1 DEF Alone, Uses
<1> QED BY <1>2, <1>3, <1>4, <1>5, HoldersMove, UsersMove, AloneReq DEF SameUsers, Alone

LEMMA ChecksOut ==
  ASSUME Typed, ReqInv, NEW r \in Requests, GetConn(r)
  PROVE  /\ req' \in [Requests -> Asking] /\ ReqInv' /\ SameHolders
         /\ req[r].key \in Keys /\ Uses(r, req[r].key)
         /\ \A k \in Keys : IF k = req[r].key
                            THEN Users(k)' = Users(k) \cup {r} /\ r \notin Users(k)
                            ELSE Users(k)' = Users(k)
<1>1. req[r].at = "conn" /\ Move(r, "use") /\ Shaped(req[r]) /\ NoKey \notin Keys
  BY LanesAssumption DEF GetConn, ReqInv
<1>2. PICK q \in Asking : Alone(r, q) /\ q.at = "use" /\ q.key = req[r].key /\ q.outer = req[r].outer
  BY <1>1, Onward
<1>3. req[r].key \in Keys /\ req[r].outer # req[r].key
  BY <1>1 DEF Shaped
<1>4. \A k \in Keys : /\ Uses(r, k)' <=> Uses(r, k)
                      /\ k # req[r].key => (Occupies(r, k)' <=> Occupies(r, k))
                      /\ k = req[r].key => Occupies(r, k)' /\ ~Occupies(r, k)
  BY <1>1, <1>2, <1>3 DEF Alone, Uses, Occupies
<1> QED BY <1>1, <1>2, <1>3, <1>4, HoldersMove, UsersMove, AloneReq DEF SameHolders, Alone, Uses

LEMMA ChecksIn ==
  ASSUME Typed, ReqInv, NEW r \in Requests, Return(r)
  PROVE  /\ req' \in [Requests -> Asking] /\ ReqInv' /\ SameHolders
         /\ req[r].key \in Keys /\ Uses(r, req[r].key)
         /\ \A k \in Keys : IF k = req[r].key
                            THEN Users(k)' = Users(k) \ {r} /\ r \in Users(k)
                            ELSE Users(k)' = Users(k)
<1>1. req[r].at = "use" /\ Move(r, "release") /\ Shaped(req[r]) /\ NoKey \notin Keys
  BY LanesAssumption DEF Return, ReqInv
<1>2. PICK q \in Asking :
          Alone(r, q) /\ q.at = "release" /\ q.key = req[r].key /\ q.outer = req[r].outer
  BY <1>1, Onward
<1>3. req[r].key \in Keys /\ req[r].outer # req[r].key
  BY <1>1 DEF Shaped
<1>4. \A k \in Keys : /\ Uses(r, k)' <=> Uses(r, k)
                      /\ k # req[r].key => (Occupies(r, k)' <=> Occupies(r, k))
                      /\ k = req[r].key => ~Occupies(r, k)' /\ Occupies(r, k)
  BY <1>1, <1>2, <1>3 DEF Alone, Uses, Occupies
<1> QED BY <1>1, <1>2, <1>3, <1>4, HoldersMove, UsersMove, AloneReq DEF SameHolders, Alone, Uses

LEMMA GetsNone ==
  ASSUME Typed, ReqInv, NEW r \in Requests, GetNone(r)
  PROVE  req' \in [Requests -> Asking] /\ ReqInv' /\ SameHolders /\ SameUsers
<1>1. req[r].at = "conn" /\ Move(r, "release")
  BY DEF GetNone
<1>2. PICK q \in Asking :
          Alone(r, q) /\ q.at = "release" /\ q.key = req[r].key /\ q.outer = req[r].outer
  BY <1>1, Onward
<1>3. \A k \in Keys : (Uses(r, k)' <=> Uses(r, k)) /\ (Occupies(r, k)' <=> Occupies(r, k))
  BY <1>1, <1>2 DEF Alone, Uses, Occupies
<1> QED BY <1>2, <1>3, HoldersMove, UsersMove, AloneReq DEF SameHolders, SameUsers, Alone

LEMMA Drops ==
  ASSUME Typed, ReqInv, NEW r \in Requests, Release(r)
  PROVE  /\ req' \in [Requests -> Asking] /\ ReqInv' /\ SameUsers
         /\ req[r].key \in Keys
         /\ \A k \in Keys : IF k = req[r].key
                            THEN Holders(k)' = Holders(k) \ {r} /\ r \in Holders(k)
                            ELSE Holders(k)' = Holders(k)
<1>1. req[r].at = "release" /\ Shaped(req[r]) /\ NoKey \notin Keys
  BY LanesAssumption DEF Release, ReqInv
<1>2. PICK q \in Asking : /\ Alone(r, q) /\ q.outer = NoKey
                          /\ req[r].outer = NoKey => q.at = "done" /\ q.key = NoKey
                          /\ req[r].outer # NoKey => q.at = "use" /\ q.key = req[r].outer
  BY ReleaseAlone
<1>3. req[r].key \in Keys /\ req[r].outer # req[r].key
  BY <1>1 DEF Shaped
<1>4. \A k \in Keys : /\ Occupies(r, k)' <=> Occupies(r, k)
                      /\ k # req[r].key => (Uses(r, k)' <=> Uses(r, k))
                      /\ k = req[r].key => ~Uses(r, k)' /\ Uses(r, k)
  <2>1. CASE req[r].outer = NoKey
    BY <1>1, <1>2, <1>3, <2>1 DEF Alone, Uses, Occupies
  <2>2. CASE req[r].outer # NoKey
    BY <1>1, <1>2, <1>3, <2>2 DEF Alone, Uses, Occupies
  <2> QED BY <2>1, <2>2
<1> QED BY <1>2, <1>3, <1>4, HoldersMove, UsersMove, AloneReq DEF SameUsers, Alone
-------------------------------------------------------------------------------
(* Leases and checked out connections.                                      *)

LEMMA Counted ==
  ASSUME Typed, CountInv, NEW k \in Keys
  PROVE  /\ Holders(k) # {} <=> leases[k] > 0
         /\ Users(k) # {} <=> pool[k].busy > 0
<1>1. /\ IsFiniteSet(Holders(k)) /\ leases[k] = Cardinality(Holders(k))
      /\ IsFiniteSet(Users(k)) /\ pool[k].busy = Cardinality(Users(k))
      /\ leases[k] \in Nat /\ pool[k].busy \in Nat
  BY DEF CountInv, Typed, Connection
<1> QED BY <1>1, FS_EmptySet

LEMMA CountsStay ==
  ASSUME CountInv, SameHolders, SameUsers, UNCHANGED leases,
         \A k \in Keys : pool'[k].busy = pool[k].busy
  PROVE  CountInv'
  BY DEF CountInv, SameHolders, SameUsers

\* One pool changes.
LEMMA OnePool ==
  ASSUME Typed, NEW k \in Keys, NEW c \in Connection, pool' = [pool EXCEPT ![k] = c]
  PROVE  /\ pool' \in [Keys -> Connection] /\ pool'[k] = c
         /\ \A j \in Keys : j # k => pool'[j] = pool[j]
  BY DEF Typed

LEMMA NoPool == NoConnections \in Connection
  BY DEF NoConnections, Connection

LEMMA LeaseCounts ==
  ASSUME Typed, ReqInv, CountInv, NEW r \in Requests, Lease(r) PROVE Typed' /\ CountInv'
<1>1. req[r].key \in Keys /\ SameUsers /\ req' \in [Requests -> Asking]
  BY Takes
<1>2. leases' = [leases EXCEPT ![req[r].key] = @ + 1] /\ UNCHANGED <<lane, pool, leaked, slipped, closer>>
  BY DEF Lease
<1>3. Typed'
  BY <1>1, <1>2 DEF Typed
<1>4. ASSUME NEW k \in Keys PROVE IsFiniteSet(Holders(k)') /\ leases'[k] = Cardinality(Holders(k)')
  <2>1. IsFiniteSet(Holders(k)) /\ leases[k] = Cardinality(Holders(k))
    BY DEF CountInv
  <2>2. CASE k = req[r].key
    <3>1. Holders(k)' = Holders(k) \cup {r} /\ r \notin Holders(k)
      BY <2>2, Takes
    <3>2. leases'[k] = leases[k] + 1
      BY <1>2, <2>2 DEF Typed
    <3> QED BY <2>1, <3>1, <3>2, FS_AddElement
  <2>3. CASE k # req[r].key
    <3>1. Holders(k)' = Holders(k)
      BY <2>3, Takes
    <3>2. leases'[k] = leases[k]
      BY <1>2, <2>3 DEF Typed
    <3> QED BY <2>1, <3>1, <3>2
  <2> QED BY <2>2, <2>3
<1> QED BY <1>1, <1>2, <1>3, <1>4 DEF CountInv, SameUsers

LEMMA CreateCounts ==
  ASSUME IInv, NEW r \in Requests, Create(r) PROVE Typed' /\ CountInv'
<1> USE DEF IInv
<1> DEFINE key == req[r].key
<1>1. key \in Keys /\ SameUsers /\ req' \in [Requests -> Asking]
  BY Takes
<1>2. /\ lane' = [lane EXCEPT ![key] = "open"] /\ leases' = [leases EXCEPT ![key] = 1]
      /\ pool' = [pool EXCEPT ![key] = NoConnections] /\ lane[key] = "none" /\ ~closed
      /\ UNCHANGED <<leaked, slipped, closer>>
  BY DEF Create, Admitted
<1>3. /\ pool' \in [Keys -> Connection] /\ pool'[key].busy = 0
      /\ \A k \in Keys : k # key => pool'[k] = pool[k]
  BY <1>1, <1>2, NoPool, OnePool DEF NoConnections
<1>4. Typed'
  BY <1>1, <1>2, <1>3 DEF Typed
<1>5. Holders(key) = {}
  BY <1>1, <1>2 DEF OpenInv, LaneInv
<1>6. Users(key) = {}
  BY <1>5 DEF Holders, Users, Uses, Occupies
<1>7. ASSUME NEW k \in Keys
      PROVE  /\ IsFiniteSet(Holders(k)') /\ leases'[k] = Cardinality(Holders(k)')
             /\ IsFiniteSet(Users(k)') /\ pool'[k].busy = Cardinality(Users(k)')
  <2>1. CASE k = key
    <3>1. Holders(k)' = {r} /\ Users(k)' = {}
      BY <1>1, <1>5, <1>6, <2>1, Takes DEF SameUsers
    <3>2. leases'[k] = 1
      BY <1>1, <1>2, <2>1 DEF Typed
    <3>3. pool'[k].busy = 0
      BY <1>3, <2>1
    <3>4. IsFiniteSet({r}) /\ Cardinality({r}) = 1 /\ IsFiniteSet({}) /\ Cardinality({}) = 0
      BY FS_Singleton, FS_EmptySet
    <3> QED BY <3>1, <3>2, <3>3, <3>4
  <2>2. CASE k # key
    <3>1. Holders(k)' = Holders(k) /\ Users(k)' = Users(k)
      BY <1>1, <2>2, Takes DEF SameUsers
    <3>2. leases'[k] = leases[k] /\ pool'[k] = pool[k]
      BY <1>1, <1>2, <1>3, <2>2 DEF Typed
    <3> QED BY <3>1, <3>2 DEF CountInv
  <2> QED BY <2>1, <2>2
<1> QED BY <1>4, <1>7 DEF CountInv

LEMMA ReleaseCounts ==
  ASSUME Typed, ReqInv, CountInv, NEW r \in Requests, Release(r) PROVE Typed' /\ CountInv'
<1>1. req[r].key \in Keys /\ SameUsers /\ req' \in [Requests -> Asking]
  BY Drops
<1>2. leases' = [leases EXCEPT ![req[r].key] = @ - 1] /\ UNCHANGED <<lane, pool, leaked, slipped, closer>>
  BY DEF Release
<1>3. leases[req[r].key] > 0
  BY <1>1, Counted, Drops
<1>4. Typed'
  BY <1>1, <1>2, <1>3 DEF Typed
<1>5. ASSUME NEW k \in Keys PROVE IsFiniteSet(Holders(k)') /\ leases'[k] = Cardinality(Holders(k)')
  <2>1. IsFiniteSet(Holders(k)) /\ leases[k] = Cardinality(Holders(k))
    BY DEF CountInv
  <2>2. CASE k = req[r].key
    <3>1. Holders(k)' = Holders(k) \ {r} /\ r \in Holders(k)
      BY <2>2, Drops
    <3>2. leases'[k] = leases[k] - 1
      BY <1>2, <2>2 DEF Typed
    <3> QED BY <2>1, <3>1, <3>2, FS_RemoveElement
  <2>3. CASE k # req[r].key
    <3>1. Holders(k)' = Holders(k)
      BY <2>3, Drops
    <3>2. leases'[k] = leases[k]
      BY <1>2, <2>3 DEF Typed
    <3> QED BY <2>1, <3>1, <3>2
  <2> QED BY <2>2, <2>3
<1> QED BY <1>1, <1>2, <1>4, <1>5 DEF CountInv, SameUsers
-------------------------------------------------------------------------------
(* The pools, field by field.                                               *)

\* The pool of k, and no other, has these connections after the step.
PoolIs(k, idle, busy, dropping, expiring, closing, shut) ==
    /\ pool' \in [Keys -> Connection]
    /\ pool'[k].idle = idle /\ pool'[k].busy = busy /\ pool'[k].dropping = dropping
    /\ pool'[k].expiring = expiring /\ pool'[k].closing = closing /\ pool'[k].shut = shut
    /\ \A j \in Keys : j # k => pool'[j] = pool[j]

LEMMA PoolFields ==
  ASSUME Typed, NEW k \in Keys
  PROVE  /\ pool[k] \in Connection
         /\ pool[k].idle \in Nat /\ pool[k].busy \in Nat /\ pool[k].dropping \in Nat
         /\ pool[k].expiring \in Nat /\ pool[k].closing \in Nat /\ pool[k].shut \in BOOLEAN
  BY DEF Typed, Connection

LEMMA ExpirePool ==
  ASSUME Typed, NEW k \in Keys, Expire(k)
  PROVE  /\ pool[k].idle > 0
         /\ PoolIs(k, pool[k].idle - 1, pool[k].busy, pool[k].dropping, pool[k].expiring + 1,
                   pool[k].closing, pool[k].shut)
<1> DEFINE c == [pool[k] EXCEPT !.idle = @ - 1, !.expiring = @ + 1]
<1>1. pool[k].idle > 0 /\ pool' = [pool EXCEPT ![k] = c]
  BY DEF Expire, Typed
<1>3. pool[k].idle - 1 \in Nat /\ pool[k].expiring + 1 \in Nat
  BY <1>1, PoolFields
<1>2. /\ c \in Connection /\ c.idle = pool[k].idle - 1 /\ c.busy = pool[k].busy
      /\ c.dropping = pool[k].dropping /\ c.expiring = pool[k].expiring + 1
      /\ c.closing = pool[k].closing /\ c.shut = pool[k].shut
  BY <1>3, PoolFields DEF Connection
<1> HIDE DEF c
<1> QED BY <1>1, <1>2, OnePool DEF PoolIs

LEMMA CutPool ==
  ASSUME Typed, NEW k \in Keys, Cut(k)
  PROVE  \/ /\ pool[k].dropping > 0
            /\ PoolIs(k, pool[k].idle, pool[k].busy, pool[k].dropping - 1, pool[k].expiring,
                      pool[k].closing, pool[k].shut)
         \/ /\ pool[k].expiring > 0
            /\ PoolIs(k, pool[k].idle, pool[k].busy, pool[k].dropping, pool[k].expiring - 1,
                      pool[k].closing, pool[k].shut)
<1>1. CASE pool[k].dropping > 0 /\ pool' = [pool EXCEPT ![k].dropping = @ - 1]
  <2> DEFINE c == [pool[k] EXCEPT !.dropping = @ - 1]
  <2>1. pool' = [pool EXCEPT ![k] = c]
    BY <1>1 DEF Typed
  <2>2. /\ c \in Connection /\ c.idle = pool[k].idle /\ c.busy = pool[k].busy
        /\ c.dropping = pool[k].dropping - 1 /\ c.expiring = pool[k].expiring
        /\ c.closing = pool[k].closing /\ c.shut = pool[k].shut
    BY <1>1, PoolFields DEF Connection
  <2> HIDE DEF c
  <2> QED BY <1>1, <2>1, <2>2, OnePool DEF PoolIs
<1>2. CASE pool[k].expiring > 0 /\ pool' = [pool EXCEPT ![k].expiring = @ - 1]
  <2> DEFINE c == [pool[k] EXCEPT !.expiring = @ - 1]
  <2>1. pool' = [pool EXCEPT ![k] = c]
    BY <1>2 DEF Typed
  <2>2. /\ c \in Connection /\ c.idle = pool[k].idle /\ c.busy = pool[k].busy
        /\ c.dropping = pool[k].dropping /\ c.expiring = pool[k].expiring - 1
        /\ c.closing = pool[k].closing /\ c.shut = pool[k].shut
    BY <1>2, PoolFields DEF Connection
  <2> HIDE DEF c
  <2> QED BY <1>2, <2>1, <2>2, OnePool DEF PoolIs
<1> QED BY <1>1, <1>2 DEF Cut

LEMMA ClosePoolPool ==
  ASSUME Typed, NEW k \in Keys, ClosePool(k)
  PROVE  PoolIs(k, 0, pool[k].busy, pool[k].dropping, pool[k].expiring, pool[k].idle, TRUE)
<1> DEFINE c == [pool[k] EXCEPT !.idle = 0, !.closing = pool[k].idle, !.shut = TRUE]
<1>1. pool' = [pool EXCEPT ![k] = c]
  BY DEF ClosePool, Typed
<1>2. /\ c \in Connection /\ c.idle = 0 /\ c.busy = pool[k].busy
      /\ c.dropping = pool[k].dropping /\ c.expiring = pool[k].expiring
      /\ c.closing = pool[k].idle /\ c.shut = TRUE
  BY PoolFields DEF Connection
<1> HIDE DEF c
<1> QED BY <1>1, <1>2, OnePool DEF PoolIs

LEMMA RetirePool ==
  ASSUME Typed, NEW k \in Keys, Retire(k)
  PROVE  PoolIs(k, pool[k].idle, pool[k].busy, 0, 0, 0, TRUE)
<1> DEFINE c == [pool[k] EXCEPT !.closing = 0, !.dropping = 0, !.expiring = 0]
<1>1. pool' = [pool EXCEPT ![k] = c]
  BY DEF Retire, Typed
<1>2. /\ c \in Connection /\ c.idle = pool[k].idle /\ c.busy = pool[k].busy
      /\ c.dropping = 0 /\ c.expiring = 0 /\ c.closing = 0 /\ c.shut = TRUE
  BY PoolFields DEF Connection, Retire
<1> HIDE DEF c
<1> QED BY <1>1, <1>2, OnePool DEF PoolIs

LEMMA GetConnPool ==
  ASSUME Typed, NEW r \in Requests, req[r].key \in Keys, GetConn(r)
  PROVE  PoolIs(req[r].key, IF pool[req[r].key].idle > 0 THEN pool[req[r].key].idle - 1 ELSE 0,
                pool[req[r].key].busy + 1, pool[req[r].key].dropping, pool[req[r].key].expiring,
                pool[req[r].key].closing, FALSE)
<1> DEFINE k == req[r].key
           left == IF pool[k].idle > 0 THEN pool[k].idle - 1 ELSE 0
           c == [pool[k] EXCEPT !.busy = @ + 1, !.idle = left]
<1>1. pool' = [pool EXCEPT ![k] = c] /\ ~pool[k].shut
  BY DEF GetConn, Typed
<1>2. pool[k].busy + 1 \in Nat /\ left \in Nat /\ pool[k] \in Connection
  BY PoolFields
<1> HIDE DEF left
<1>3. /\ c \in Connection /\ c.idle = left /\ c.busy = pool[k].busy + 1
      /\ c.dropping = pool[k].dropping /\ c.expiring = pool[k].expiring
      /\ c.closing = pool[k].closing /\ c.shut = pool[k].shut
  BY <1>2 DEF Connection
<1> HIDE DEF c
<1>4. c.shut = FALSE
  BY <1>1, <1>3 DEF Connection
<1> QED BY <1>1, <1>3, <1>4, OnePool DEF PoolIs, left

LEMMA ReturnPool ==
  ASSUME Typed, NEW r \in Requests, req[r].key \in Keys, pool[req[r].key].busy > 0, Return(r)
  PROVE  \/ /\ ~pool[req[r].key].shut
            /\ PoolIs(req[r].key, pool[req[r].key].idle + 1, pool[req[r].key].busy - 1,
                      pool[req[r].key].dropping, pool[req[r].key].expiring,
                      pool[req[r].key].closing, pool[req[r].key].shut)
         \/ PoolIs(req[r].key, pool[req[r].key].idle, pool[req[r].key].busy - 1,
                   pool[req[r].key].dropping + 1, pool[req[r].key].expiring,
                   pool[req[r].key].closing, pool[req[r].key].shut)
<1> DEFINE k == req[r].key
<1>1. pool[k].busy - 1 \in Nat /\ pool[k].idle + 1 \in Nat /\ pool[k].dropping + 1 \in Nat
      /\ pool[k] \in Connection
  BY PoolFields
<1>2. CASE ~pool[k].shut /\ pool' = [pool EXCEPT ![k].busy = @ - 1, ![k].idle = @ + 1]
  <2> DEFINE c == [pool[k] EXCEPT !.busy = @ - 1, !.idle = @ + 1]
  <2>1. pool' = [pool EXCEPT ![k] = c]
    BY <1>2 DEF Typed
  <2>2. /\ c \in Connection /\ c.idle = pool[k].idle + 1 /\ c.busy = pool[k].busy - 1
        /\ c.dropping = pool[k].dropping /\ c.expiring = pool[k].expiring
        /\ c.closing = pool[k].closing /\ c.shut = pool[k].shut
    BY <1>1 DEF Connection
  <2> HIDE DEF c
  <2> QED BY <1>2, <2>1, <2>2, OnePool DEF PoolIs
<1>3. CASE pool' = [pool EXCEPT ![k].busy = @ - 1, ![k].dropping = @ + 1]
  <2> DEFINE c == [pool[k] EXCEPT !.busy = @ - 1, !.dropping = @ + 1]
  <2>1. pool' = [pool EXCEPT ![k] = c]
    BY <1>3 DEF Typed
  <2>2. /\ c \in Connection /\ c.idle = pool[k].idle /\ c.busy = pool[k].busy - 1
        /\ c.dropping = pool[k].dropping + 1 /\ c.expiring = pool[k].expiring
        /\ c.closing = pool[k].closing /\ c.shut = pool[k].shut
    BY <1>1 DEF Connection
  <2> HIDE DEF c
  <2> QED BY <2>1, <2>2, OnePool DEF PoolIs
<1> QED BY <1>2, <1>3 DEF Return

LEMMA GetConnCounts ==
  ASSUME Typed, ReqInv, CountInv, NEW r \in Requests, GetConn(r) PROVE Typed' /\ CountInv'
<1> DEFINE key == req[r].key
<1>1. key \in Keys /\ SameHolders /\ req' \in [Requests -> Asking]
  BY ChecksOut
<1>2. UNCHANGED <<lane, leases, leaked, slipped, closer>>
  BY DEF GetConn
<1>3. /\ pool' \in [Keys -> Connection] /\ pool'[key].busy = pool[key].busy + 1
      /\ \A j \in Keys : j # key => pool'[j] = pool[j]
  BY <1>1, GetConnPool DEF PoolIs
<1>4. ASSUME NEW k \in Keys PROVE IsFiniteSet(Users(k)') /\ pool'[k].busy = Cardinality(Users(k)')
  <2>1. IsFiniteSet(Users(k)) /\ pool[k].busy = Cardinality(Users(k))
    BY DEF CountInv
  <2>2. CASE k = key
    <3>1. Users(k)' = Users(k) \cup {r} /\ r \notin Users(k)
      BY <2>2, ChecksOut
    <3> QED BY <1>3, <2>1, <2>2, <3>1, FS_AddElement
  <2>3. CASE k # key
    <3>1. Users(k)' = Users(k) /\ pool'[k] = pool[k]
      BY <1>3, <2>3, ChecksOut
    <3> QED BY <2>1, <3>1
  <2> QED BY <2>2, <2>3
<1> QED BY <1>1, <1>2, <1>3, <1>4 DEF Typed, CountInv, SameHolders

LEMMA ReturnCounts ==
  ASSUME Typed, ReqInv, CountInv, NEW r \in Requests, Return(r)
  PROVE  Typed' /\ CountInv' /\ pool[req[r].key].busy > 0
<1> DEFINE key == req[r].key
<1>1. key \in Keys /\ SameHolders /\ req' \in [Requests -> Asking] /\ pool[key].busy > 0
  BY ChecksIn, Counted
<1>2. UNCHANGED <<lane, leases, leaked, slipped, closer>>
  BY DEF Return
<1>3. /\ pool' \in [Keys -> Connection] /\ pool'[key].busy = pool[key].busy - 1
      /\ \A j \in Keys : j # key => pool'[j] = pool[j]
  BY <1>1, ReturnPool DEF PoolIs
<1>4. ASSUME NEW k \in Keys PROVE IsFiniteSet(Users(k)') /\ pool'[k].busy = Cardinality(Users(k)')
  <2>1. IsFiniteSet(Users(k)) /\ pool[k].busy = Cardinality(Users(k))
    BY DEF CountInv
  <2>2. CASE k = key
    <3>1. Users(k)' = Users(k) \ {r} /\ r \in Users(k)
      BY <2>2, ChecksIn
    <3> QED BY <1>3, <2>1, <2>2, <3>1, FS_RemoveElement
  <2>3. CASE k # key
    <3>1. Users(k)' = Users(k) /\ pool'[k] = pool[k]
      BY <1>3, <2>3, ChecksIn
    <3> QED BY <2>1, <3>1
  <2> QED BY <2>2, <2>3
<1> QED BY <1>1, <1>2, <1>3, <1>4 DEF Typed, CountInv, SameHolders

\* The steps that keep leases and checked out connections as they are.
Quiet ==
    \/ \E r \in Requests : (\E k \in Keys : Nest(r, k)) \/ Cancel(r) \/ Refused(r) \/ Await(r)
                           \/ Wake(r) \/ GetNone(r)
    \/ \E k \in Keys : Expire(k) \/ Cut(k) \/ ClosePool(k) \/ Retire(k)
    \/ CutLate \/ Close \/ CloseReturns \/ UNCHANGED vars

LEMMA QuietStep ==
  ASSUME Typed, ReqInv, Quiet
  PROVE  req' \in [Requests -> Asking] /\ ReqInv' /\ SameHolders /\ SameUsers
<1>1. ASSUME NEW r \in Requests,
             (\E k \in Keys : Nest(r, k)) \/ Cancel(r) \/ Refused(r) \/ Await(r) \/ Wake(r) \/ GetNone(r)
      PROVE  req' \in [Requests -> Asking] /\ ReqInv' /\ SameHolders /\ SameUsers
  BY <1>1, QuietAlone, GetsNone
<1>2. CASE req' = Notified(req) \/ UNCHANGED req
  BY <1>2, NotifiedAlone
<1> QED BY <1>1, <1>2 DEF Quiet, Expire, Cut, ClosePool, Retire, CutLate, Close, CloseReturns, vars

LEMMA QuietTypes ==
  ASSUME Typed, ReqInv, CountInv, Quiet
  PROVE  Typed' /\ CountInv'
<1> DEFINE Lanes == [Keys -> {"none", "open", "retiring"}]
<1>1. req' \in [Requests -> Asking] /\ SameHolders /\ SameUsers /\ UNCHANGED leases
  BY QuietStep DEF Quiet, Nest, Cancel, Refused, Await, Wake, GetNone, Expire, Cut, ClosePool, Retire,
                   CutLate, Close, CloseReturns, vars
<1>2. ASSUME pool' \in [Keys -> Connection], \A k \in Keys : pool'[k].busy = pool[k].busy,
             lane' \in Lanes, leaked' \in Nat, slipped' \in Nat, closer' \in {"none", "waiting", "done"}
      PROVE  Typed' /\ CountInv'
  BY <1>1, <1>2, CountsStay DEF Typed
<1>3. CASE UNCHANGED <<lane, pool, leaked, slipped, closer>>
  BY <1>2, <1>3 DEF Typed
<1>4. ASSUME NEW r \in Requests, Await(r) PROVE Typed' /\ CountInv'
  <2>1. lane' \in Lanes /\ UNCHANGED <<pool, leaked, slipped, closer>>
    BY <1>4 DEF Await, Typed
  <2> QED BY <1>2, <2>1 DEF Typed
<1>5. CASE Close
  <2>1. lane' \in Lanes /\ closer' = "waiting" /\ UNCHANGED <<pool, leaked, slipped>>
    BY <1>5 DEF Close, RetireAll, Typed
  <2> QED BY <1>2, <2>1 DEF Typed
<1>6. CASE CloseReturns
  <2>1. closer' = "done" /\ UNCHANGED <<lane, pool, leaked, slipped>>
    BY <1>6 DEF CloseReturns
  <2> QED BY <1>2, <2>1 DEF Typed
<1>7. CASE CutLate
  <2>1. leaked' \in Nat /\ slipped' \in Nat /\ UNCHANGED <<lane, pool, closer>>
    BY <1>7 DEF CutLate, Typed
  <2> QED BY <1>2, <2>1 DEF Typed
<1>8. ASSUME NEW k \in Keys, Expire(k) \/ Cut(k) \/ ClosePool(k) PROVE Typed' /\ CountInv'
  <2>1. pool' \in [Keys -> Connection] /\ \A j \in Keys : pool'[j].busy = pool[j].busy
    BY <1>8, ExpirePool, CutPool, ClosePoolPool DEF PoolIs
  <2>2. UNCHANGED <<lane, leaked, slipped, closer>>
    BY <1>8 DEF Expire, Cut, ClosePool
  <2> QED BY <1>2, <2>1, <2>2 DEF Typed
<1>9. ASSUME NEW k \in Keys, Retire(k) PROVE Typed' /\ CountInv'
  <2>1. pool' \in [Keys -> Connection] /\ \A j \in Keys : pool'[j].busy = pool[j].busy
    BY <1>9, RetirePool DEF PoolIs
  <2>2. lane' \in Lanes /\ leaked' \in Nat /\ slipped' \in Nat /\ UNCHANGED closer
    BY <1>9, PoolFields DEF Retire, Typed
  <2> QED BY <1>2, <2>1, <2>2 DEF Typed
<1> QED BY <1>3, <1>4, <1>5, <1>6, <1>7, <1>8, <1>9
        DEF Quiet, Nest, Cancel, Refused, Wake, GetNone, vars
-------------------------------------------------------------------------------
(* The lanes.                                                               *)

LEMMA Untouched ==
  ASSUME NEW k \in Keys, LaneInv(k), lane'[k] = lane[k], pool'[k] = pool[k], closed' <=> closed,
         Holders(k)' \subseteq Holders(k)
  PROVE  LaneInv(k)'
  BY DEF LaneInv, Alive, InUse

\* Who has a connection of a lane has leased it.
LEMMA UsersHold ==
  ASSUME Typed, CountInv, NEW k \in Keys
  PROVE  /\ Holders(k) = {} => pool[k].busy = 0
         /\ Alive(k) \in Nat /\ InUse(k) \in Nat
         /\ Alive(k) = pool[k].idle + pool[k].busy + pool[k].dropping + pool[k].expiring + pool[k].closing
<1>1. Holders(k) = {} => Users(k) = {}
  BY DEF Holders, Users, Uses, Occupies
<1> QED BY <1>1, Counted, PoolFields DEF Alive, InUse

\* The shared part of the steps that change no lane but the one of k.
LEMMA OneLane ==
  ASSUME IInv, NEW k \in Keys, closed' <=> closed, UNCHANGED closer,
         \A j \in Keys : j # k => /\ lane'[j] = lane[j] /\ pool'[j] = pool[j]
                                  /\ Holders(j)' \subseteq Holders(j),
         LaneInv(k)', lane[k] = "none" /\ closed' => lane'[k] = "none", ~closed => leaked' = 0
  PROVE  OpenInv'
<1>1. ASSUME NEW j \in Keys PROVE LaneInv(j)'
  BY <1>1, Untouched DEF IInv, OpenInv
<1>2. closer' = "done" => Held' = {}
  BY DEF IInv, OpenInv, Held, closed
<1> QED BY <1>1, <1>2 DEF OpenInv

LEMMA LeaseOpen == ASSUME IInv, NEW r \in Requests, Lease(r) PROVE OpenInv'
<1> USE DEF IInv
<1>0. PICK key \in Keys : key = req[r].key
  BY Takes
<1>1. \A j \in Keys : j # key => Holders(j)' = Holders(j)
  BY <1>0, Takes
<1>2. lane[key] = "open" /\ UNCHANGED <<lane, pool, leaked, closer>>
  BY <1>0 DEF Lease
<1>3. LaneInv(key)'
  BY <1>0, <1>1, <1>2 DEF OpenInv, LaneInv, Alive, InUse, closed
<1> QED BY <1>0, <1>1, <1>2, <1>3, OneLane DEF OpenInv, closed

LEMMA CreateOpen == ASSUME IInv, NEW r \in Requests, Create(r) PROVE OpenInv'
<1> USE DEF IInv
<1>0. PICK key \in Keys : key = req[r].key
  BY Takes
<1>1. \A j \in Keys : j # key => Holders(j)' = Holders(j)
  BY <1>0, Takes
<1>2. /\ ~closed /\ UNCHANGED <<leaked, closer>>
      /\ lane' = [lane EXCEPT ![key] = "open"] /\ pool' = [pool EXCEPT ![key] = NoConnections]
  BY <1>0 DEF Create, Admitted
<1>3. /\ lane'[key] = "open" /\ pool'[key] = NoConnections
      /\ \A j \in Keys : j # key => lane'[j] = lane[j] /\ pool'[j] = pool[j]
  BY <1>0, <1>1, <1>2 DEF Typed
<1>4. Alive(key)' = 0 /\ ~pool'[key].shut
  BY <1>0, <1>3 DEF NoConnections, Alive, InUse
<1>5. LaneInv(key)'
  BY <1>0, <1>2, <1>3, <1>4, LanesAssumption DEF LaneInv, closed
<1> QED BY <1>0, <1>1, <1>2, <1>3, <1>5, OneLane DEF OpenInv, closed

LEMMA ReleaseOpen == ASSUME IInv, NEW r \in Requests, Release(r) PROVE OpenInv'
<1> USE DEF IInv
<1>1. req[r].key \in Keys /\ \A j \in Keys : Holders(j)' \subseteq Holders(j)
  BY Drops
<1>2. UNCHANGED <<lane, pool, leaked, closer>>
  BY DEF Release
<1>3. \A j \in Keys : LaneInv(j)'
  BY <1>1, <1>2, Untouched DEF OpenInv, closed
<1> QED BY <1>2, <1>3 DEF OpenInv, Held, closed

LEMMA GetConnOpen == ASSUME IInv, NEW r \in Requests, GetConn(r) PROVE OpenInv'
<1> USE DEF IInv
<1>0. PICK key \in Keys : key = req[r].key
  BY ChecksOut
<1>1. SameHolders /\ Holders(key) # {}
  BY <1>0, ChecksOut DEF Holders
<1>2. UNCHANGED <<lane, leaked, closer>> /\ ~pool[key].shut /\ (pool[key].idle > 0 \/ Alive(key) < PerLane)
  BY <1>0 DEF GetConn
<1>3. PoolIs(key, IF pool[key].idle > 0 THEN pool[key].idle - 1 ELSE 0,
             pool[key].busy + 1, pool[key].dropping, pool[key].expiring, pool[key].closing, FALSE)
  BY <1>0, <1>1, GetConnPool
<1>4. Alive(key)' <= PerLane
  <2>1. Alive(key) <= PerLane /\ PerLane \in Nat
    BY <1>0, <1>1, LanesAssumption DEF OpenInv, LaneInv
  <2> QED BY <1>0, <1>1, <1>2, <1>3, <2>1, PoolFields DEF PoolIs, Alive, InUse
<1>5. LaneInv(key)'
  BY <1>0, <1>1, <1>2, <1>3, <1>4 DEF OpenInv, LaneInv, PoolIs, closed, SameHolders
<1> QED BY <1>0, <1>1, <1>2, <1>3, <1>5, OneLane DEF OpenInv, PoolIs, SameHolders, closed

LEMMA ReturnOpen == ASSUME IInv, NEW r \in Requests, Return(r) PROVE OpenInv'
<1> USE DEF IInv
<1>0. PICK key \in Keys : key = req[r].key
  BY ChecksIn
<1>1. SameHolders /\ Holders(key) # {} /\ pool[key].busy > 0
  BY <1>0, ChecksIn, ReturnCounts DEF Holders
<1>2. UNCHANGED <<lane, leaked, closer>>
  BY <1>0 DEF Return
<1>3. \/ /\ ~pool[key].shut
         /\ PoolIs(key, pool[key].idle + 1, pool[key].busy - 1, pool[key].dropping, pool[key].expiring,
                   pool[key].closing, pool[key].shut)
      \/ PoolIs(key, pool[key].idle, pool[key].busy - 1, pool[key].dropping + 1, pool[key].expiring,
                pool[key].closing, pool[key].shut)
  BY <1>0, <1>1, ReturnPool
<1>4. Alive(key)' = Alive(key)
  BY <1>0, <1>1, <1>3, PoolFields DEF PoolIs, Alive, InUse
<1>5. LaneInv(key)'
  BY <1>0, <1>1, <1>2, <1>3, <1>4 DEF OpenInv, LaneInv, PoolIs, closed, SameHolders
<1> QED BY <1>0, <1>1, <1>2, <1>3, <1>5, OneLane DEF OpenInv, PoolIs, SameHolders, closed

LEMMA PoolOpen == ASSUME IInv, NEW k \in Keys, Expire(k) \/ Cut(k) \/ ClosePool(k) PROVE OpenInv'
<1> USE DEF IInv
<1>1. SameHolders /\ UNCHANGED <<lane, leaked, closer>>
  BY QuietStep DEF Quiet, Expire, Cut, ClosePool
<1>2. /\ \A j \in Keys : j # k => pool'[j] = pool[j]
      /\ Alive(k)' \in Nat /\ Alive(k)' <= Alive(k) /\ pool'[k].dropping <= pool[k].dropping
      /\ pool'[k].dropping \in Nat /\ pool'[k].idle \in Nat
      /\ pool'[k].shut => pool'[k].idle = 0
      /\ lane[k] # "open" \/ ~pool'[k].shut
  <2>1. /\ pool[k].shut => pool[k].idle = 0
        /\ lane[k] = "open" => ~pool[k].shut
    BY DEF OpenInv, LaneInv
  <2>2. CASE Expire(k)
    BY <2>1, <2>2, ExpirePool, PoolFields DEF PoolIs, Alive, InUse
  <2>3. CASE Cut(k)
    BY <2>1, <2>3, CutPool, PoolFields DEF PoolIs, Alive, InUse
  <2>4. CASE ClosePool(k)
    <3>1. lane[k] # "open"
      BY <2>4 DEF ClosePool
    <3>2. PoolIs(k, 0, pool[k].busy, pool[k].dropping, pool[k].expiring, pool[k].idle, TRUE)
      BY <2>4, ClosePoolPool
    <3> QED BY <3>1, <3>2, PoolFields DEF PoolIs, Alive, InUse
  <2> QED BY <2>2, <2>3, <2>4
<1>3. pool[k].shut => pool'[k].shut
  BY ExpirePool, CutPool, ClosePoolPool DEF PoolIs
<1>4. Alive(k) \in Nat /\ pool[k].dropping \in Nat /\ PerLane \in Nat /\ LaneInv(k)
  BY UsersHold, PoolFields, LanesAssumption DEF OpenInv
<1>5. Holders(k)' = Holders(k) /\ lane'[k] = lane[k] /\ (closed' <=> closed)
  BY <1>1 DEF SameHolders, closed
<1>6. LaneInv(k)'
  BY <1>2, <1>3, <1>4, <1>5 DEF LaneInv
<1> QED BY <1>1, <1>2, <1>6, OneLane DEF OpenInv, SameHolders, closed

LEMMA RetireOpen == ASSUME IInv, NEW k \in Keys, Retire(k) PROVE OpenInv'
<1> USE DEF IInv
<1>1. SameHolders /\ UNCHANGED closer
  BY QuietStep DEF Quiet, Retire
<1>2. /\ lane[k] = "retiring" /\ pool[k].shut /\ lane'[k] = "none" /\ leaked' = leaked + pool[k].dropping
      /\ \A j \in Keys : j # k => lane'[j] = lane[j]
  BY DEF Retire, Typed
<1>3. PoolIs(k, pool[k].idle, pool[k].busy, 0, 0, 0, TRUE)
  BY RetirePool
<1>4. LaneInv(k) /\ Alive(k) \in Nat /\ PerLane \in Nat
  BY UsersHold, LanesAssumption DEF OpenInv
<1>5. Alive(k)' = pool[k].busy /\ pool[k].busy <= Alive(k)
  BY <1>2, <1>3, <1>4, PoolFields DEF PoolIs, Alive, InUse, LaneInv
<1>6. ~closed => pool[k].busy = 0 /\ pool[k].dropping = 0 /\ Holders(k) = {}
  BY <1>2, <1>4, UsersHold DEF LaneInv
<1>7. LaneInv(k)'
  BY <1>1, <1>2, <1>3, <1>4, <1>5, <1>6, PoolFields DEF LaneInv, PoolIs, SameHolders, closed
<1>8. ~closed => leaked' = 0
  BY <1>2, <1>6 DEF OpenInv
<1> QED BY <1>1, <1>2, <1>3, <1>7, <1>8, OneLane DEF PoolIs, SameHolders, closed

LEMMA AwaitOpen == ASSUME IInv, NEW r \in Requests, Await(r) PROVE OpenInv'
<1> USE DEF IInv
<1>1. SameHolders /\ ~closed /\ UNCHANGED <<leases, pool, leaked, closer>>
  BY QuietStep DEF Quiet, Await, Admitted
<1>2. ASSUME NEW k \in Keys, lane'[k] # lane[k] PROVE Evictable(k) /\ lane'[k] = "retiring"
  BY <1>2 DEF Await, Victims
<1>3. ASSUME NEW k \in Keys PROVE LaneInv(k)'
  <2>1. CASE lane'[k] = lane[k]
    BY <1>1, <2>1, Untouched DEF OpenInv, SameHolders, closed
  <2>2. CASE lane'[k] # lane[k]
    <3>1. lane'[k] = "retiring" /\ leases[k] = 0 /\ InUse(k) = 0
      BY <1>2, <2>2 DEF Evictable
    <3>2. Holders(k) = {} /\ pool[k].dropping = 0
      BY <3>1, Counted, PoolFields DEF InUse
    <3> QED BY <1>1, <3>1, <3>2 DEF OpenInv, LaneInv, SameHolders, closed, Alive, InUse
  <2> QED BY <2>1, <2>2
<1> QED BY <1>1, <1>3 DEF OpenInv, closed

LEMMA CloseOpen == ASSUME IInv, Close PROVE OpenInv'
<1> USE DEF IInv
<1>1. SameHolders /\ ~closed /\ closed' /\ closer' = "waiting" /\ UNCHANGED pool
  BY QuietStep DEF Quiet, Close, closed
<1>2. ASSUME NEW k \in Keys PROVE LaneInv(k)'
  <2>1. lane'[k] # "open" /\ (lane'[k] = "none" <=> lane[k] = "none")
    BY DEF Close, RetireAll
  <2> QED BY <1>1, <2>1 DEF OpenInv, LaneInv, SameHolders, Alive, InUse
<1> QED BY <1>1, <1>2 DEF OpenInv

LEMMA OpenStays == ASSUME IInv, [Next]_vars PROVE OpenInv'
<1> USE DEF IInv
<1>1. ASSUME NEW r \in Requests,
             (\E k \in Keys : Nest(r, k)) \/ Cancel(r) \/ Refused(r) \/ Wake(r) \/ GetNone(r)
      PROVE  OpenInv'
  <2>1. SameHolders /\ UNCHANGED <<lane, pool, leaked, closer>>
    BY <1>1, QuietStep DEF Quiet, Nest, Cancel, Refused, Wake, GetNone
  <2>2. \A k \in Keys : LaneInv(k)'
    BY <2>1, Untouched DEF OpenInv, SameHolders, closed
  <2> QED BY <2>1, <2>2 DEF OpenInv, Held, closed
<1>2. CASE CloseReturns \/ CutLate \/ UNCHANGED vars
  <2>1. SameHolders /\ UNCHANGED <<lane, pool>> /\ (closed' <=> closed)
    BY <1>2, QuietStep DEF Quiet, CloseReturns, CutLate, vars, closed
  <2>2. \A k \in Keys : LaneInv(k)'
    BY <2>1, Untouched DEF OpenInv, SameHolders
  <2>3. (closer' = "done" => Held' = {}) /\ (~closed' => leaked' = 0)
    BY <1>2, <2>1 DEF OpenInv, Held, closed, CloseReturns, CutLate, vars
  <2> QED BY <2>2, <2>3 DEF OpenInv
<1> QED BY <1>1, <1>2, LeaseOpen, CreateOpen, ReleaseOpen, GetConnOpen, ReturnOpen, PoolOpen,
           RetireOpen, AwaitOpen, CloseOpen DEF Next, Step, Background
-------------------------------------------------------------------------------
(* The budget.                                                              *)

\* While the factory is open only its lanes have connections, and nothing has
\* leaked from them.
LEMMA OpenFits ==
  ASSUME Typed', OpenInv', ~closed', IsFiniteSet(Held'), Cardinality(Held') <= LaneCap
  PROVE  BudgetInv'
<1>1. PerLane \in Nat /\ LaneCap \in Nat /\ leaked' = 0
  BY LanesAssumption DEF OpenInv
<1>2. ASSUME NEW k \in Keys PROVE Reserve(k)' <= PerLane /\ (k \notin Held' => Reserve(k)' = 0)
  <2>1. LaneInv(k)'
    BY DEF OpenInv
  <2> QED BY <1>1, <2>1 DEF LaneInv, Reserve, Held
<1>3. ASSUME NEW k \in Keys PROVE Slots(k)' \subseteq Held' \X (1 .. PerLane)
  <2> SUFFICES ASSUME NEW i \in 1 .. Reserve(k)' PROVE k \in Held' /\ i \in 1 .. PerLane
    BY DEF Slots
  <2>1. Reserve(k)' \in Nat
    BY <1>1 DEF Typed, Connection, Reserve, Alive, InUse
  <2> QED BY <1>1, <1>2, <2>1
<1>4. Reserved' \subseteq Held' \X (1 .. PerLane)
  BY <1>3 DEF Reserved
<1>5. IsFiniteSet(1 .. PerLane) /\ Cardinality(1 .. PerLane) = PerLane
  BY <1>1, FS_Interval
<1>6. /\ IsFiniteSet(Held' \X (1 .. PerLane))
      /\ Cardinality(Held' \X (1 .. PerLane)) = Cardinality(Held') * PerLane
  BY <1>5, FS_Product
<1>7. IsFiniteSet(Reserved') /\ Cardinality(Reserved') <= Cardinality(Held' \X (1 .. PerLane))
  BY <1>4, <1>6, FS_Subset
<1>8. Cardinality(Reserved') \in Nat /\ Cardinality(Held') \in Nat
  BY <1>7, FS_CardinalityType
<1>9. Cardinality(Held') * PerLane <= LaneCap * PerLane
  BY <1>1, <1>8
<1>10. Cardinality(Reserved') + leaked' <= LaneCap * PerLane
  BY <1>1, <1>6, <1>7, <1>8, <1>9
<1> QED BY <1>7, <1>10 DEF BudgetInv

LEMMA ReserveNat == ASSUME Typed, NEW k \in Keys PROVE Reserve(k) \in Nat /\ Alive(k) \in Nat
  BY PoolFields, LanesAssumption DEF Reserve, Alive, InUse

LEMMA HeldFinite ==
  ASSUME IInv, Held' \subseteq Held PROVE IsFiniteSet(Held') /\ Cardinality(Held') <= LaneCap
<1>1. IsFiniteSet(Held) /\ Cardinality(Held) <= LaneCap /\ LaneCap \in Nat
  BY LanesAssumption DEF IInv, BudgetInv
<1>2. IsFiniteSet(Held') /\ Cardinality(Held') <= Cardinality(Held)
  BY <1>1, FS_Subset
<1>3. Cardinality(Held) \in Nat /\ Cardinality(Held') \in Nat
  BY <1>1, <1>2, FS_CardinalityType
<1> QED BY <1>1, <1>2, <1>3

\* A step after which no lane may grow to more than before.
LEMMA Shrinks ==
  ASSUME IInv, Typed', Held' \subseteq Held, \A k \in Keys : Reserve(k)' <= Reserve(k), leaked' <= leaked
  PROVE  BudgetInv'
<1>1. IsFiniteSet(Held') /\ Cardinality(Held') <= LaneCap
  BY HeldFinite
<1>2. ASSUME NEW k \in Keys PROVE Slots(k)' \subseteq Slots(k)
  <2>1. Reserve(k) \in Nat
    BY ReserveNat DEF IInv
  <2>2. Reserve(k)' \in Nat
    BY LanesAssumption DEF Typed, Connection, Reserve, Alive, InUse
  <2> QED BY <2>1, <2>2 DEF Slots
<1>3. Reserved' \subseteq Reserved
  BY <1>2 DEF Reserved
<1>4. /\ IsFiniteSet(Reserved) /\ Cardinality(Reserved) + leaked <= LaneCap * PerLane
      /\ leaked \in Nat /\ leaked' \in Nat
  BY DEF IInv, BudgetInv, Typed
<1>5. IsFiniteSet(Reserved') /\ Cardinality(Reserved') <= Cardinality(Reserved)
  BY <1>3, <1>4, FS_Subset
<1>6. Cardinality(Reserved) \in Nat /\ Cardinality(Reserved') \in Nat /\ LaneCap * PerLane \in Nat
  BY <1>4, <1>5, FS_CardinalityType, LanesAssumption
<1>7. Cardinality(Reserved') + leaked' <= LaneCap * PerLane
  BY <1>4, <1>5, <1>6
<1> QED BY <1>1, <1>5, <1>7 DEF BudgetInv

\* A retired lane keeps the connections in use; the discarded ones move to leaked.
LEMMA RetireFits ==
  ASSUME IInv, Typed', NEW k \in Keys, Retire(k) PROVE BudgetInv'
<1> USE DEF IInv
<1>1. /\ lane[k] = "retiring" /\ pool[k].shut /\ leaked' = leaked + pool[k].dropping
      /\ lane'[k] = "none" /\ \A j \in Keys : j # k => lane'[j] = lane[j]
  BY DEF Retire, Typed
<1>2. PoolIs(k, pool[k].idle, pool[k].busy, 0, 0, 0, TRUE)
  BY RetirePool
<1>3. IsFiniteSet(Held') /\ Cardinality(Held') <= LaneCap
  BY <1>1, HeldFinite DEF Held
<1> DEFINE busy == pool[k].busy
           dropping == pool[k].dropping
           gone == {k} \X ((busy + 1) .. (busy + dropping))
<1>4. /\ Reserve(k) = Alive(k) /\ pool[k].idle = 0
      /\ Alive(k) = busy + dropping + pool[k].expiring + pool[k].closing
      /\ busy \in Nat /\ dropping \in Nat /\ pool[k].expiring \in Nat /\ pool[k].closing \in Nat
  BY <1>1, PoolFields DEF Reserve, Alive, InUse, OpenInv, LaneInv
<1>5. Reserve(k)' = busy
  BY <1>1, <1>2, <1>4 DEF Reserve, Alive, InUse, PoolIs
<1>6. \A j \in Keys : j # k => Slots(j)' = Slots(j)
  BY <1>1, <1>2 DEF Slots, Reserve, Alive, InUse, PoolIs
<1>7. gone \subseteq Slots(k) /\ Slots(k)' \subseteq Slots(k) /\ gone \cap Slots(k)' = {}
  <2>1. Slots(k)' = {k} \X (1 .. busy)
    BY <1>5 DEF Slots
  <2>2. Slots(k) = {k} \X (1 .. Alive(k))
    BY <1>4 DEF Slots
  <2> QED BY <1>4, <2>1, <2>2
<1>8. gone \subseteq Reserved /\ Reserved' \subseteq Reserved \ gone
  <2>1. gone \subseteq Reserved
    BY <1>7 DEF Reserved
  <2>2. ASSUME NEW j \in Keys PROVE Slots(j)' \subseteq Slots(j) /\ Slots(j)' \cap gone = {}
    <3>1. CASE j = k
      BY <1>7, <3>1
    <3>2. CASE j # k
      BY <1>6, <3>2 DEF Slots
    <3> QED BY <3>1, <3>2
  <2> QED BY <2>1, <2>2 DEF Reserved
<1>9. IsFiniteSet(gone) /\ Cardinality(gone) = dropping
  <2> HIDE DEF busy, dropping
  <2>0. busy + 1 \in Int /\ busy + dropping \in Int /\ busy \in Nat /\ dropping \in Nat
    BY <1>4
  <2>1. IsFiniteSet((busy + 1) .. (busy + dropping)) /\ Cardinality((busy + 1) .. (busy + dropping)) = dropping
    <3>1. /\ IsFiniteSet((busy + 1) .. (busy + dropping))
          /\ Cardinality((busy + 1) .. (busy + dropping))
             = IF busy + 1 > busy + dropping THEN 0 ELSE (busy + dropping) - (busy + 1) + 1
      BY <2>0, FS_Interval
    <3> QED BY <2>0, <3>1
  <2>2. IsFiniteSet({k}) /\ Cardinality({k}) = 1
    BY FS_Singleton
  <2>3. IsFiniteSet(gone) /\ Cardinality(gone) = 1 * dropping
    BY <2>1, <2>2, FS_Product
  <2> QED BY <1>4, <2>3
<1>10. IsFiniteSet(Reserved) /\ Cardinality(Reserved) + leaked <= LaneCap * PerLane /\ leaked \in Nat
  BY DEF BudgetInv, Typed
<1> HIDE DEF gone, busy, dropping
<1>11. IsFiniteSet(Reserved \ gone) /\ Cardinality(Reserved \ gone) = Cardinality(Reserved) - dropping
  <2>1. Reserved \cap gone = gone
    BY <1>8
  <2> QED BY <1>9, <1>10, <2>1, FS_Difference
<1>12. IsFiniteSet(Reserved') /\ Cardinality(Reserved') <= Cardinality(Reserved \ gone)
  BY <1>8, <1>11, FS_Subset
<1>13. Cardinality(Reserved) \in Nat /\ Cardinality(Reserved') \in Nat /\ LaneCap * PerLane \in Nat
  BY <1>10, <1>12, FS_CardinalityType, LanesAssumption
<1>14. Cardinality(Reserved') + leaked' <= LaneCap * PerLane
  BY <1>1, <1>4, <1>10, <1>11, <1>12, <1>13 DEF dropping
<1> QED BY <1>3, <1>12, <1>14 DEF BudgetInv

\* A new lane, while there is room.
LEMMA CreateFits ==
  ASSUME IInv, Typed', OpenInv', NEW r \in Requests, Create(r) PROVE BudgetInv'
<1> USE DEF IInv
<1>0. PICK key \in Keys : key = req[r].key
  BY Takes
<1>1. /\ ~closed' /\ lane' = [lane EXCEPT ![key] = "open"] /\ lane[key] = "none"
      /\ Cardinality(Held) < LaneCap /\ IsFiniteSet(Held)
  BY <1>0 DEF Create, Admitted, Room, closed, BudgetInv
<1>2. Held' = Held \cup {key} /\ key \notin Held
  BY <1>1 DEF Held, Typed
<1>3. IsFiniteSet(Held') /\ Cardinality(Held') = Cardinality(Held) + 1
  BY <1>1, <1>2, FS_AddElement
<1>4. Cardinality(Held) \in Nat /\ LaneCap \in Nat
  BY <1>1, FS_CardinalityType, LanesAssumption
<1>5. Cardinality(Held') <= LaneCap
  BY <1>1, <1>3, <1>4
<1> QED BY <1>1, <1>3, <1>5, OpenFits

\* The steps in which no lane may grow: one pool changes at most, and a pool
\* that is alive stays in its plan.
LEMMA OneSmaller ==
  ASSUME IInv, Typed', NEW k \in Keys, UNCHANGED <<lane, leaked>>,
         \A j \in Keys : j # k => pool'[j] = pool[j],
         pool[k].shut => pool'[k].shut,
         Alive(k)' <= PerLane, lane[k] = "none" \/ pool[k].shut => Alive(k)' <= Alive(k)
  PROVE  BudgetInv'
<1>1. Held' = Held /\ leaked' <= leaked
  BY DEF Held, IInv, Typed
<1>2. \A j \in Keys : j # k => Reserve(j)' = Reserve(j)
  BY DEF Reserve, Alive, InUse
<1>3. Reserve(k)' <= Reserve(k)
  <2>1. Reserve(k) = IF lane[k] # "none" /\ ~pool[k].shut THEN PerLane ELSE Alive(k)
    BY DEF Reserve
  <2>2. Reserve(k)' = IF lane[k] # "none" /\ ~pool'[k].shut THEN PerLane ELSE Alive(k)'
    BY DEF Reserve
  <2>3. pool[k].shut \in BOOLEAN /\ pool'[k].shut \in BOOLEAN /\ PerLane \in Nat
    BY LanesAssumption DEF IInv, Typed, Connection
  <2> QED BY <2>1, <2>2, <2>3
<1>4. \A j \in Keys : Reserve(j) \in Nat
  BY ReserveNat DEF IInv
<1>5. \A j \in Keys : Reserve(j)' <= Reserve(j)
  BY <1>2, <1>3, <1>4
<1> QED BY <1>1, <1>5, Shrinks

LEMMA GetConnFits == ASSUME IInv, Typed', OpenInv', NEW r \in Requests, GetConn(r) PROVE BudgetInv'
<1> USE DEF IInv
<1>0. PICK key \in Keys : key = req[r].key
  BY ChecksOut
<1>1. Holders(key) # {} /\ ~pool[key].shut
  BY <1>0, ChecksOut DEF Holders, GetConn
<1>2. lane[key] # "none"
  BY <1>0, <1>1 DEF OpenInv, LaneInv
<1>3. UNCHANGED <<lane, leaked>> /\ Alive(key)' <= PerLane
  BY <1>0 DEF GetConn, OpenInv, LaneInv
<1>4. \A j \in Keys : j # key => pool'[j] = pool[j]
  BY <1>0, GetConnPool DEF PoolIs
<1> QED BY <1>0, <1>1, <1>2, <1>3, <1>4, OneSmaller

LEMMA ReturnFits == ASSUME IInv, Typed', OpenInv', NEW r \in Requests, Return(r) PROVE BudgetInv'
<1> USE DEF IInv
<1>0. PICK key \in Keys : key = req[r].key
  BY ChecksIn
<1>1. UNCHANGED <<lane, leaked>> /\ pool[key].busy > 0 /\ Alive(key)' <= PerLane
  BY <1>0, ReturnCounts DEF Return, OpenInv, LaneInv
<1>2. \/ PoolIs(key, pool[key].idle + 1, pool[key].busy - 1, pool[key].dropping, pool[key].expiring,
                pool[key].closing, pool[key].shut)
      \/ PoolIs(key, pool[key].idle, pool[key].busy - 1, pool[key].dropping + 1, pool[key].expiring,
                pool[key].closing, pool[key].shut)
  BY <1>0, <1>1, ReturnPool
<1>3. Alive(key)' = Alive(key) /\ Alive(key) \in Nat /\ pool'[key].shut = pool[key].shut
  BY <1>0, <1>1, <1>2, PoolFields DEF PoolIs, Alive, InUse
<1> QED BY <1>0, <1>1, <1>2, <1>3, OneSmaller DEF PoolIs

LEMMA PoolFits ==
  ASSUME IInv, Typed', OpenInv', NEW k \in Keys, Expire(k) \/ Cut(k) \/ ClosePool(k) PROVE BudgetInv'
<1> USE DEF IInv
<1>1. UNCHANGED <<lane, leaked>> /\ Alive(k)' <= PerLane
  BY DEF Expire, Cut, ClosePool, OpenInv, LaneInv
<1>2. /\ \A j \in Keys : j # k => pool'[j] = pool[j]
      /\ pool[k].shut => pool'[k].shut
      /\ Alive(k)' <= Alive(k)
  <2>1. CASE Expire(k)
    BY <2>1, ExpirePool, PoolFields DEF PoolIs, Alive, InUse
  <2>2. CASE Cut(k)
    BY <2>2, CutPool, PoolFields DEF PoolIs, Alive, InUse
  <2>3. CASE ClosePool(k)
    <3>1. PoolIs(k, 0, pool[k].busy, pool[k].dropping, pool[k].expiring, pool[k].idle, TRUE)
      BY <2>3, ClosePoolPool
    <3> QED BY <3>1, PoolFields DEF PoolIs, Alive, InUse
  <2> QED BY <2>1, <2>2, <2>3
<1> QED BY <1>1, <1>2, OneSmaller

\* The steps that leave the pools alone and create no lane.
LEMMA SamePoolFits ==
  ASSUME IInv, Typed', UNCHANGED pool, leaked' <= leaked,
         \A k \in Keys : lane'[k] = "none" <=> lane[k] = "none"
  PROVE  BudgetInv'
<1>1. Held' = Held
  BY DEF Held
<1>2. \A k \in Keys : Reserve(k)' = Reserve(k) /\ Reserve(k) \in Nat
  BY ReserveNat DEF Reserve, Alive, InUse, IInv
<1>3. \A k \in Keys : Reserve(k)' <= Reserve(k)
  BY <1>2
<1> QED BY <1>1, <1>3, Shrinks

LEMMA BudgetStays == ASSUME IInv, [Next]_vars, Typed', OpenInv' PROVE BudgetInv'
<1>1. leaked \in Nat /\ leaked' \in Nat
  BY DEF IInv, Typed
<1>2. ASSUME NEW r \in Requests, Await(r) PROVE BudgetInv'
  <2>1. UNCHANGED <<pool, leaked>> /\ \A k \in Keys : lane'[k] = "none" <=> lane[k] = "none"
    BY <1>2 DEF Await, Victims, Evictable
  <2> QED BY <1>1, <2>1, SamePoolFits
<1>3. CASE Close
  <2>1. UNCHANGED <<pool, leaked>> /\ \A k \in Keys : lane'[k] = "none" <=> lane[k] = "none"
    BY <1>3 DEF Close, RetireAll
  <2> QED BY <1>1, <2>1, SamePoolFits
<1>4. CASE CutLate
  <2>1. UNCHANGED <<pool, lane>> /\ leaked' <= leaked
    BY <1>1, <1>4 DEF CutLate
  <2> QED BY <2>1, SamePoolFits
<1>5. CASE UNCHANGED <<lane, pool, leaked>>
  BY <1>1, <1>5, SamePoolFits
<1> QED BY <1>2, <1>3, <1>4, <1>5, CreateFits, GetConnFits, ReturnFits, PoolFits, RetireFits
        DEF Next, Step, Background, Nest, Cancel, Refused, Lease, Wake, GetNone, Release,
            CloseReturns, vars
-------------------------------------------------------------------------------
(* The invariant and what it says.                                          *)

LEMMA InitIInv == Init => IInv
<1> SUFFICES ASSUME Init PROVE IInv
  OBVIOUS
<1>1. PICK ask \in [Requests -> Keys] : req = [r \in Requests |-> Start(r, ask[r])]
  BY DEF Init
<1>2. \A r \in Requests : /\ req[r] \in Asking /\ req[r].at = "try" /\ req[r].key \in Keys
                          /\ req[r].outer = NoKey
  BY <1>1 DEF Start, Asking, Steps, Waits
<1>3. Typed
  <2>1. req \in [Requests -> Asking]
    BY <1>1, <1>2
  <2> QED BY <2>1, NoPool DEF Init, Typed
<1>4. ReqInv
  BY <1>2 DEF ReqInv, Shaped
<1>5. \A k \in Keys : Holders(k) = {} /\ Users(k) = {}
  BY <1>2, LanesAssumption DEF Holders, Users, Uses, Occupies
<1>6. \A k \in Keys : /\ lane[k] = "none" /\ leases[k] = 0 /\ Alive(k) = 0 /\ pool[k].idle = 0
                      /\ pool[k].busy = 0 /\ ~pool[k].shut
  BY DEF Init, NoConnections, Alive, InUse
<1>7. CountInv
  BY <1>5, <1>6, FS_EmptySet DEF CountInv
<1>8. Held = {} /\ leaked = 0 /\ ~closed
  BY <1>6 DEF Held, Init, closed
<1>9. OpenInv
  BY <1>5, <1>6, <1>8, LanesAssumption DEF OpenInv, LaneInv, closed
<1>10. Reserved = {}
  BY <1>6 DEF Reserved, Slots, Reserve
<1>11. LaneCap \in Nat /\ LaneCap * PerLane \in Nat
  BY LanesAssumption
<1>12. BudgetInv
  BY <1>8, <1>10, <1>11, FS_EmptySet DEF BudgetInv
<1> QED BY <1>3, <1>4, <1>7, <1>9, <1>12 DEF IInv

LEMMA NextInv == IInv /\ [Next]_vars => IInv'
<1> SUFFICES ASSUME IInv, [Next]_vars PROVE IInv'
  OBVIOUS
<1>1. Typed' /\ ReqInv' /\ CountInv'
  <2> USE DEF IInv
  <2>1. ASSUME NEW r \in Requests, Lease(r) \/ Create(r) \/ Release(r)
        PROVE  Typed' /\ ReqInv' /\ CountInv'
    BY <2>1, Takes, Drops, LeaseCounts, CreateCounts, ReleaseCounts
  <2>2. ASSUME NEW r \in Requests, GetConn(r) \/ Return(r) PROVE Typed' /\ ReqInv' /\ CountInv'
    BY <2>2, ChecksOut, ChecksIn, GetConnCounts, ReturnCounts
  <2>3. CASE Quiet
    BY <2>3, QuietStep, QuietTypes
  <2> QED BY <2>1, <2>2, <2>3 DEF Next, Step, Background, Quiet
<1>2. OpenInv'
  BY OpenStays
<1>3. BudgetInv'
  BY <1>1, <1>2, BudgetStays
<1> QED BY <1>1, <1>2, <1>3 DEF IInv

\* All parts together: the types, the requests, the counts, the lanes and the
\* budget hold after every section of acquire, checkout, release, retire and
\* Close.
THEOREM Invariant == Spec => []IInv
BY InitIInv, NextInv, PTL DEF Spec

\* Every variable but the order of the lanes keeps its type; the order is a
\* filtered sequence, of which the library states nothing.
THEOREM TypesHold == Spec => []Typed
<1>1. IInv => Typed
  BY DEF IInv
<1> QED BY <1>1, Invariant, PTL

\* For any requests, tenants and sizes a lease is counted once and its lane is
\* open with an open pool until the factory closes; after Close there is no
\* lane (acquire, evictForRoom, retire, Close).
THEOREM LeasesHold == Spec => []LeaseHolds
<1>1. IInv => LeaseHolds
  <2> SUFFICES ASSUME IInv, NEW k \in Keys
               PROVE  /\ leases[k] = Cardinality(Holders(k))
                      /\ Holders(k) # {} /\ ~closed => lane[k] = "open" /\ ~pool[k].shut
                      /\ closer = "done" => lane[k] = "none"
    BY DEF LeaseHolds
  <2> QED BY DEF IInv, CountInv, OpenInv, LaneInv, Held
<1> QED BY <1>1, Invariant, PTL

\* For any requests, tenants and sizes the connections that are physically
\* open fit the plan of the lanes, those that leaked included (laneConn,
\* evictForRoom, retire).
THEOREM BudgetHolds == Spec => []WithinBudget
<1>1. IInv => WithinBudget
  <2> SUFFICES ASSUME IInv PROVE WithinBudget
    OBVIOUS
  <2>1. ASSUME NEW k \in Keys PROVE Alive(k) \in Nat /\ Reserve(k) \in Nat /\ Alive(k) <= Reserve(k)
    <3>1. Alive(k) \in Nat /\ Reserve(k) \in Nat
      BY ReserveNat DEF IInv
    <3>2. Alive(k) <= PerLane
      BY DEF IInv, OpenInv, LaneInv
    <3> QED BY <3>1, <3>2 DEF Reserve
  <2>2. Connections \subseteq Reserved
    <3>1. ASSUME NEW k \in Keys PROVE {k} \X (1 .. Alive(k)) \subseteq Slots(k)
      BY <2>1 DEF Slots
    <3> QED BY <3>1 DEF Connections, Reserved
  <2>3. /\ IsFiniteSet(Reserved) /\ Cardinality(Reserved) + leaked <= LaneCap * PerLane
        /\ Cardinality(Held) <= LaneCap /\ leaked \in Nat
    BY DEF IInv, BudgetInv, Typed
  <2>4. IsFiniteSet(Connections) /\ Cardinality(Connections) <= Cardinality(Reserved)
    BY <2>2, <2>3, FS_Subset
  <2>5. Cardinality(Connections) \in Nat /\ Cardinality(Reserved) \in Nat /\ LaneCap * PerLane \in Nat
    BY <2>3, <2>4, FS_CardinalityType, LanesAssumption
  <2> QED BY <2>3, <2>4, <2>5 DEF WithinBudget
<1> QED BY <1>1, Invariant, PTL
===============================================================================
