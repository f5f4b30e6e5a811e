-------------------------- MODULE LoginLinksProofs --------------------------
(***************************************************************************)
(* For any links, workers and capacity: every usable token whose link has  *)
(* not arrived is accounted for, a shutdown that reports a drained queue   *)
(* drained it, and the system implements LinkPromise.                      *)
(***************************************************************************)
EXTENDS LoginLinks, SequenceTheorems, TLAPS

\* A worker with a job has a link, and only such a worker.
HasJob == \A w \in Workers :
    worker[w].link = None <=> worker[w].at \in {"idle", "done"}

\* A link nobody asked for yet is nowhere.
FreshLink(l) == request[l] = "new" =>
    /\ tokens[l] = "none"
    /\ l \notin mailbox
    /\ logins[l] = 0
    /\ ~Queued(l)
    /\ ~Held(l)

\* A token that has let somebody in is never usable again.
SpentLink(l) == logins[l] > 0 => tokens[l] # "valid"

AccountedLink(l) == Unsent(l) => InFlight(l)

LinkInv(l) == FreshLink(l) /\ SpentLink(l) /\ AccountedLink(l)

\* How far the shutdown is, and what it has set.
ClosingOrder ==
    /\ closer = "open" <=> ~appClosed
    /\ closer \in {"open", "closing"} => ~closed
    /\ closer \in {"draining", "emptying", "waiting"} => closed /\ up
    /\ closed => up
    /\ closer \in {"finished", "exited"} => (up => closed)
    /\ closer = "closing" => up
    /\ drained => closer \in {"finished", "exited"}

\* Without a queue there are no jobs; a worker ends on a closed, empty queue.
QueueInv ==
    /\ ~up => /\ queue = <<>>
              /\ \A l \in Links : request[l] # "admitted"
              /\ \A w \in Workers : worker[w].at = "idle"
    /\ \A w \in Workers : Finished(w) => closed /\ queue = <<>>

IInv ==
    /\ TypeOK /\ HasJob
    /\ ClosingOrder /\ QueueInv /\ DrainTruth
    /\ \A l \in Links : LinkInv(l)

-----------------------------------------------------------------------------
(* What is left of a sequence when its head is taken.                      *)

LEMMA TailLemma ==
    ASSUME NEW S, NEW q \in Seq(S), q # <<>>
    PROVE  /\ Head(q) \in S
           /\ Tail(q) \in Seq(S)
           /\ Len(Tail(q)) = Len(q) - 1
           /\ Head(q) = q[1]
           /\ 1 \in 1 .. Len(q)
           /\ \A i \in 1 .. Len(Tail(q)) : Tail(q)[i] = q[i + 1]
           /\ \A x : (\E i \in 1 .. Len(q) : q[i] = x) <=>
                     \/ x = Head(q)
                     \/ \E i \in 1 .. Len(Tail(q)) : Tail(q)[i] = x
<1>1. /\ Head(q) \in S
      /\ Tail(q) \in Seq(S)
      /\ Len(Tail(q)) = Len(q) - 1
      /\ Len(q) \in Nat \ {0}
  BY HeadTailProperties, EmptySeq, LenProperties
<1>2. /\ Head(q) = q[1]
      /\ \A i \in 1 .. Len(Tail(q)) : Tail(q)[i] = q[i + 1]
  BY <1>1
<1>3. ASSUME NEW x
      PROVE  (\E i \in 1 .. Len(q) : q[i] = x) <=>
             \/ x = Head(q)
             \/ \E i \in 1 .. Len(Tail(q)) : Tail(q)[i] = x
  <2>1. ASSUME NEW i \in 1 .. Len(q), q[i] = x, x # Head(q)
        PROVE  \E j \in 1 .. Len(Tail(q)) : Tail(q)[j] = x
    <3>1. i - 1 \in 1 .. Len(Tail(q)) /\ Tail(q)[i - 1] = q[i]
      BY <1>1, <1>2, <2>1
    <3> QED
      BY <3>1, <2>1
  <2>2. ASSUME NEW j \in 1 .. Len(Tail(q)), Tail(q)[j] = x
        PROVE  \E i \in 1 .. Len(q) : q[i] = x
    <3>1. j + 1 \in 1 .. Len(q) /\ q[j + 1] = x
      BY <1>1, <1>2, <2>2
    <3> QED
      BY <3>1
  <2> QED
    BY <1>1, <1>2, <2>1, <2>2
<1> QED
  BY <1>1, <1>2, <1>3

LEMMA AppendLemma ==
    ASSUME NEW S, NEW q \in Seq(S), NEW e \in S
    PROVE  /\ Append(q, e) \in Seq(S)
           /\ Len(Append(q, e)) = Len(q) + 1
           /\ \A x : (\E i \in 1 .. Len(Append(q, e)) : Append(q, e)[i] = x)
                     <=> x = e \/ \E i \in 1 .. Len(q) : q[i] = x
<1>1. /\ Append(q, e) \in Seq(S)
      /\ Len(Append(q, e)) = Len(q) + 1
      /\ Len(q) \in Nat
      /\ \A i \in 1 .. Len(q) : Append(q, e)[i] = q[i]
      /\ Append(q, e)[Len(q) + 1] = e
  BY AppendProperties, LenProperties
<1> QED
  BY <1>1

-----------------------------------------------------------------------------
(* Types and the jobs of the workers.                                      *)

USE DEF Tokens, Requests, Stages, Closing

LEMMA InitIInv == Init => IInv
<1> SUFFICES ASSUME Init PROVE IInv
  OBVIOUS
<1>1. TypeOK
  <2>1. queue \in Seq(Links) /\ Len(queue) <= Capacity
    BY LinksAssumption, EmptySeq DEF Init
  <2>2. worker \in [Workers -> [at : Stages, link : Links \cup {None}]]
    BY DEF Init, Resting
  <2> QED
    BY <2>1, <2>2 DEF Init, TypeOK
<1>2. HasJob /\ ClosingOrder /\ QueueInv /\ DrainTruth
  BY LinksAssumption, EmptySeq
     DEF Init, HasJob, ClosingOrder, QueueInv, DrainTruth, Resting, Finished
<1>3. ASSUME NEW l \in Links PROVE LinkInv(l)
  BY LinksAssumption, EmptySeq
     DEF Init, LinkInv, FreshLink, SpentLink, AccountedLink, Unsent, Queued,
         Held, Resting
<1> QED
  BY <1>1, <1>2, <1>3 DEF IInv

\* One worker moves.
LEMMA StepType ==
    ASSUME TypeOK, HasJob, NEW w \in Workers, NEW at \in Stages,
           NEW link \in Links \cup {None}, Step(w, at, link),
           link = None <=> at \in {"idle", "done"}
    PROVE  /\ worker' \in [Workers -> [at : Stages, link : Links \cup {None}]]
           /\ HasJob'
<1>1. worker' \in [Workers -> [at : Stages, link : Links \cup {None}]]
  BY DEF TypeOK, Step
<1>2. /\ worker'[w] = [at |-> at, link |-> link]
      /\ \A v \in Workers \ {w} : worker'[v] = worker[v]
  BY DEF TypeOK, Step
<1> QED
  BY <1>1, <1>2 DEF HasJob

LEMMA TypeStep ==
    ASSUME TypeOK, HasJob, [Next]_vars
    PROVE  TypeOK' /\ HasJob'
<1> USE LinksAssumption DEF TypeOK
<1>1. ASSUME NEW l \in Links, RequestStep(l) PROVE TypeOK' /\ HasJob'
  <2>1. CASE Store(l)
    BY <2>1 DEF Store, HasJob, recipient, shutdown
  <2>2. CASE Admit(l)
    BY <2>2 DEF Admit, HasJob, recipient, shutdown
  <2>3. CASE Offer(l)
    <3>1. queue' \in Seq(Links) /\ Len(queue') <= Capacity
      <4>1. CASE Room
        <5>1. queue \in Seq(Links) /\ queue' = Append(queue, l) /\ Len(queue) < Capacity
          BY <2>3, <4>1 DEF Offer, Room
        <5>2. Len(queue) \in Nat
          BY <5>1, LenProperties
        <5>3. queue' \in Seq(Links) /\ Len(queue') = Len(queue) + 1
          BY <5>1, AppendLemma
        <5> QED
          BY <5>1, <5>2, <5>3
      <4>2. CASE ~Room
        BY <2>3, <4>2 DEF Offer
      <4> QED
        BY <4>1, <4>2
    <3> QED
      BY <2>3, <3>1 DEF Offer, HasJob, recipient, shutdown
  <2>4. CASE Refuse(l)
    BY <2>4 DEF Refuse, Withdraw, HasJob, recipient, shutdown
  <2> QED
    BY <1>1, <2>1, <2>2, <2>3, <2>4 DEF RequestStep
<1>2. ASSUME NEW l \in Links, TokenStep(l) PROVE TypeOK' /\ HasJob'
  <2>1. CASE Peek(l)
    BY <2>1 DEF Peek, Withdraw, HasJob, recipient, shutdown
  <2>2. CASE Consume(l)
    <3>1. CASE tokens[l] \in Usable
      <4>1. tokens' \in [Links -> Tokens] /\ logins' \in [Links -> Nat]
        <5>1. /\ tokens' = [tokens EXCEPT ![l] = "used"]
              /\ logins' = [logins EXCEPT ![l] = logins[l] + 1]
          BY <2>2, <3>1 DEF Consume
        <5>2. logins[l] + 1 \in Nat
          OBVIOUS
        <5> QED
          BY <5>1, <5>2
      <4> QED
        BY <2>2, <3>1, <4>1 DEF Consume, HasJob, shutdown
    <3>2. CASE tokens[l] \notin Usable
      BY <2>2, <3>2 DEF Consume, Withdraw, HasJob, shutdown
    <3> QED
      BY <3>1, <3>2
  <2>3. CASE Expire(l)
    BY <2>3 DEF Expire, Withdraw, HasJob, recipient, shutdown
  <2> QED
    BY <1>2, <2>1, <2>2, <2>3 DEF TokenStep
<1>3. ASSUME NEW w \in Workers, WorkerStep(w) PROVE TypeOK' /\ HasJob'
  <2>1. CASE Take(w)
    <3>1. CASE queue = <<>>
      BY <2>1, <3>1, StepType DEF Take, recipient, shutdown
    <3>2. CASE queue # <<>>
      <4>1. /\ Head(queue) \in Links
            /\ Tail(queue) \in Seq(Links)
            /\ Len(Tail(queue)) <= Capacity
        BY <3>2, TailLemma, LenProperties
      <4> QED
        BY <2>1, <3>2, <4>1, StepType DEF Take, recipient, shutdown
    <3> QED
      BY <3>1, <3>2
  <2>2. CASE Check(w)
    <3>1. worker[w].link \in Links
      BY <2>2 DEF Check, HasJob
    <3> QED
      BY <2>2, <3>1, StepType DEF Check, recipient, shutdown
  <2>3. CASE Arrive(w)
    BY <2>3 DEF Arrive, HasJob, shutdown
  <2>4. CASE Return(w)
    <3>1. worker[w].link \in Links
      BY <2>4 DEF Return, HasJob
    <3> QED
      BY <2>4, <3>1, StepType DEF Return, recipient, shutdown
  <2>5. CASE Invalidate(w)
    BY <2>5, StepType DEF Invalidate, Withdraw, recipient, shutdown
  <2> QED
    BY <1>3, <2>1, <2>2, <2>3, <2>4, <2>5 DEF WorkerStep
<1>4. CASE CloseApp \/ CloserStep
  <2>1. CASE CloseApp \/ CloseQueue \/ Drain \/ DrainTimeout \/ CloseFinished
    BY <2>1 DEF CloseApp, CloseQueue, Drain, DrainTimeout, CloseFinished,
                Closer, HasJob, recipient
  <2>2. CASE InvalidatePending
    <3>1. CASE queue = <<>>
      BY <2>2, <3>1 DEF InvalidatePending, Closer, HasJob, recipient
    <3>2. CASE queue # <<>>
      <4>1. /\ Head(queue) \in Links
            /\ Tail(queue) \in Seq(Links)
            /\ Len(Tail(queue)) <= Capacity
        BY <3>2, TailLemma, LenProperties
      <4> QED
        BY <2>2, <3>2, <4>1
           DEF InvalidatePending, Closer, Withdraw, HasJob, recipient
    <3> QED
      BY <3>1, <3>2
  <2>3. CASE Exit
    BY <2>3 DEF Exit, Closer, HasJob, recipient
  <2> QED
    BY <1>4, <2>1, <2>2, <2>3 DEF CloserStep
<1>5. CASE UNCHANGED vars
  BY <1>5 DEF vars, HasJob
<1> QED
  BY <1>1, <1>2, <1>3, <1>4, <1>5 DEF Next

-----------------------------------------------------------------------------
(* Where a job is, as the queue and the workers change.                    *)

LEMMA QueueMoves ==
    ASSUME TypeOK, NEW l
    PROVE  /\ queue' = queue => (Queued(l)' <=> Queued(l))
           /\ queue = <<>> => ~Queued(l)
           /\ (queue # <<>> /\ queue' = Tail(queue)) =>
                (Queued(l) <=> l = Head(queue) \/ Queued(l)')
           /\ \A k \in Links : queue' = Append(queue, k) =>
                (Queued(l)' <=> l = k \/ Queued(l))
<1>1. queue \in Seq(Links)
  BY DEF TypeOK
<1>2. queue' = queue => (Queued(l)' <=> Queued(l))
  BY DEF Queued
<1>3. queue = <<>> => ~Queued(l)
  BY EmptySeq DEF Queued
<1>4. ASSUME queue # <<>>, queue' = Tail(queue)
      PROVE  Queued(l) <=> l = Head(queue) \/ Queued(l)'
  BY <1>1, <1>4, TailLemma DEF Queued
<1>5. ASSUME NEW k \in Links, queue' = Append(queue, k)
      PROVE  Queued(l)' <=> l = k \/ Queued(l)
  BY <1>1, <1>5, AppendLemma DEF Queued
<1> QED
  BY <1>2, <1>3, <1>4, <1>5

LEMMA WorkerMoves ==
    ASSUME TypeOK, NEW l
    PROVE  /\ worker' = worker => (Held(l)' <=> Held(l))
           /\ \A w \in Workers, at \in Stages, link \in Links \cup {None} :
                Step(w, at, link) =>
                  /\ Held(l) => worker[w].link = l \/ Held(l)'
                  /\ Held(l)' => link = l \/ Held(l)
                  /\ link = l => Held(l)'
<1>1. worker' = worker => (Held(l)' <=> Held(l))
  BY DEF Held
<1>2. ASSUME NEW w \in Workers, NEW at \in Stages,
             NEW link \in Links \cup {None}, Step(w, at, link)
      PROVE  /\ Held(l) => worker[w].link = l \/ Held(l)'
             /\ Held(l)' => link = l \/ Held(l)
             /\ link = l => Held(l)'
  <2>1. /\ worker'[w].link = link
        /\ \A v \in Workers \ {w} : worker'[v] = worker[v]
    BY <1>2 DEF TypeOK, Step
  <2> QED
    BY <2>1 DEF Held
<1> QED
  BY <1>1, <1>2

-----------------------------------------------------------------------------
(* The order of the shutdown.                                              *)

LEMMA ClosingStep ==
    ASSUME TypeOK, ClosingOrder, QueueInv, [Next]_vars
    PROVE  ClosingOrder'
<1> USE DEF ClosingOrder, TypeOK
<1>1. ASSUME NEW l \in Links, RequestStep(l) PROVE ClosingOrder'
  BY <1>1 DEF RequestStep, Store, Admit, Offer, Refuse, shutdown
<1>2. ASSUME NEW l \in Links, TokenStep(l) PROVE ClosingOrder'
  BY <1>2 DEF TokenStep, Peek, Consume, Expire, shutdown
<1>3. ASSUME NEW w \in Workers, WorkerStep(w) PROVE ClosingOrder'
  BY <1>3 DEF WorkerStep, Take, Check, Arrive, Return, Invalidate, shutdown
<1>4. CASE CloseApp
  BY <1>4 DEF CloseApp, Closer
<1>5. CASE CloserStep
  <2>1. CASE CloseQueue
    BY <2>1 DEF CloseQueue, Closer
  <2>2. CASE Drain
    BY <2>2 DEF Drain, Closer
  <2>3. CASE DrainTimeout \/ CloseFinished \/ Exit
    BY <2>3 DEF DrainTimeout, CloseFinished, Exit, Closer
  <2>4. CASE InvalidatePending
    BY <2>4 DEF InvalidatePending, Closer
  <2> QED
    BY <1>5, <2>1, <2>2, <2>3, <2>4 DEF CloserStep
<1>6. CASE UNCHANGED vars
  BY <1>6 DEF vars
<1> QED
  BY <1>1, <1>2, <1>3, <1>4, <1>5, <1>6 DEF Next

LEMMA QueueStep ==
    ASSUME TypeOK, ClosingOrder, QueueInv, [Next]_vars
    PROVE  QueueInv'
<1> USE DEF QueueInv
<1>1. ASSUME NEW l \in Links, RequestStep(l) PROVE QueueInv'
  <2>1. CASE Store(l)
    BY <2>1 DEF Store, shutdown, Finished, TypeOK
  <2>2. CASE Admit(l)
    BY <2>2 DEF Admit, shutdown, Finished, TypeOK
  <2>3. CASE Offer(l)
    BY <2>3 DEF Offer, Room, shutdown, Finished, TypeOK
  <2>4. CASE Refuse(l)
    BY <2>4 DEF Refuse, shutdown, Finished, TypeOK
  <2> QED
    BY <1>1, <2>1, <2>2, <2>3, <2>4 DEF RequestStep
<1>2. ASSUME NEW l \in Links, TokenStep(l) PROVE QueueInv'
  BY <1>2 DEF TokenStep, Peek, Consume, Expire, shutdown, Finished
<1>3. ASSUME NEW w \in Workers, WorkerStep(w) PROVE QueueInv'
  <2>1. CASE Take(w)
    <3>1. /\ \A v \in Workers \ {w} : worker'[v] = worker[v]
          /\ worker'[w].at = "done" => closed /\ queue = <<>>
      BY <2>1 DEF Take, Step, TypeOK
    <3>2. closed' = closed /\ up' = up /\ request' = request /\ up
      BY <2>1 DEF Take, shutdown
    <3>3. queue = <<>> => queue' = <<>>
      BY <2>1 DEF Take
    <3> QED
      BY <3>1, <3>2, <3>3 DEF Finished
  <2>2. CASE Check(w)
    BY <2>2 DEF Check, Step, shutdown, Finished, TypeOK
  <2>3. CASE Arrive(w)
    BY <2>3 DEF Arrive, shutdown, Finished
  <2>4. CASE Return(w)
    <3>1. \A v \in Workers : worker'[v].at = "done" => worker[v].at = "done"
      <4>1. CASE Step(w, "idle", None)
        BY <4>1 DEF Step, TypeOK
      <4>2. CASE Step(w, "failed", worker[w].link)
        BY <4>2 DEF Step, TypeOK
      <4> QED
        BY <2>4, <4>1, <4>2 DEF Return
    <3> QED
      BY <2>4, <3>1 DEF Return, shutdown, Finished
  <2>5. CASE Invalidate(w)
    BY <2>5 DEF Invalidate, Step, shutdown, Finished, TypeOK
  <2> QED
    BY <1>3, <2>1, <2>2, <2>3, <2>4, <2>5 DEF WorkerStep
<1>4. CASE CloseApp
  BY <1>4 DEF CloseApp, Closer, ClosingOrder, Finished
<1>5. CASE CloserStep
  <2>1. CASE CloseQueue \/ Drain \/ DrainTimeout \/ CloseFinished \/ Exit
    BY <2>1 DEF CloseQueue, Drain, DrainTimeout, CloseFinished, Exit, Closer,
                Finished
  <2>2. CASE InvalidatePending
    BY <2>2 DEF InvalidatePending, Closer, ClosingOrder, Finished
  <2> QED
    BY <1>5, <2>1, <2>2 DEF CloserStep
<1>6. CASE UNCHANGED vars
  BY <1>6 DEF vars, Finished
<1> QED
  BY <1>1, <1>2, <1>3, <1>4, <1>5, <1>6 DEF Next

-----------------------------------------------------------------------------
(* Drained queues.                                                         *)

LEMMA DrainStep ==
    ASSUME TypeOK, ClosingOrder, QueueInv, DrainTruth, [Next]_vars
    PROVE  DrainTruth'
<1> USE DEF DrainTruth
<1>1. ASSUME NEW l \in Links, RequestStep(l) PROVE DrainTruth'
  <2>1. CASE Store(l) \/ Admit(l) \/ Refuse(l)
    BY <2>1 DEF Store, Admit, Refuse, shutdown, AllFinished, Finished,
                ClosingOrder
  <2>2. CASE Offer(l)
    <3>1. drained => ~Room
      BY <2>2 DEF Offer, Room, ClosingOrder, QueueInv
    <3> QED
      BY <2>2, <3>1 DEF Offer, shutdown, AllFinished, Finished
  <2> QED
    BY <1>1, <2>1, <2>2 DEF RequestStep
<1>2. ASSUME NEW l \in Links, TokenStep(l) PROVE DrainTruth'
  BY <1>2 DEF TokenStep, Peek, Consume, Expire, shutdown, AllFinished, Finished
<1>3. ASSUME NEW w \in Workers, WorkerStep(w) PROVE DrainTruth'
  <2>1. drained' = drained /\ up' = up
    BY <1>3 DEF WorkerStep, Take, Check, Arrive, Return, Invalidate, shutdown
  <2>2. drained => ~up \/ worker[w].at = "done"
    BY DEF AllFinished, Finished
  <2>3. up
    BY <1>3 DEF WorkerStep, Take, Check, Arrive, Return, Invalidate,
                ClosingOrder, QueueInv
  <2>4. worker[w].at # "done"
    BY <1>3 DEF WorkerStep, Take, Check, Arrive, Return, Invalidate
  <2> QED
    BY <2>1, <2>2, <2>3, <2>4
<1>4. CASE CloseApp
  BY <1>4 DEF CloseApp, Closer, ClosingOrder, QueueInv, AllFinished, Finished
<1>5. CASE CloserStep
  <2>1. CASE CloseQueue \/ DrainTimeout \/ CloseFinished \/ Exit
    BY <2>1 DEF CloseQueue, DrainTimeout, CloseFinished, Exit, Closer,
                AllFinished, Finished
  <2>2. CASE InvalidatePending
    BY <2>2 DEF InvalidatePending, Closer, ClosingOrder
  <2>3. CASE Drain
    <3>1. \E w \in Workers : Finished(w)
      BY <2>3, LinksAssumption DEF Drain, AllFinished
    <3> QED
      BY <2>3, <3>1 DEF Drain, QueueInv, AllFinished, Finished
  <2> QED
    BY <1>5, <2>1, <2>2, <2>3 DEF CloserStep
<1>6. CASE UNCHANGED vars
  BY <1>6 DEF vars, AllFinished, Finished
<1> QED
  BY <1>1, <1>2, <1>3, <1>4, <1>5, <1>6 DEF Next

-----------------------------------------------------------------------------
(* Each link.                                                              *)

\* A step that touches no job keeps where every link is.
LEMMA JobsStay ==
    ASSUME TypeOK, NEW k \in Links, queue' = queue, worker' = worker
    PROVE  /\ Queued(k)' <=> Queued(k)
           /\ Held(k)' <=> Held(k)
BY QueueMoves, WorkerMoves

LEMMA LinkRequest ==
    ASSUME IInv, NEW k \in Links, NEW l \in Links, RequestStep(l)
    PROVE  LinkInv(k)'
<1> USE DEF IInv, LinkInv, FreshLink, SpentLink, AccountedLink, Unsent, InFlight
<1>0. TypeOK /\ LinkInv(k)
  OBVIOUS
<1>1. CASE Store(l)
  <2>1. (Queued(k)' <=> Queued(k)) /\ (Held(k)' <=> Held(k))
    BY <1>0, <1>1, JobsStay DEF Store
  <2>2. /\ mailbox' = mailbox /\ logins' = logins
        /\ k # l => tokens'[k] = tokens[k] /\ request'[k] = request[k]
        /\ request'[l] = "stored" /\ request[l] = "new"
    BY <1>0, <1>1 DEF Store, recipient, TypeOK
  <2> QED
    BY <1>0, <2>1, <2>2
<1>2. CASE Admit(l)
  <2>1. (Queued(k)' <=> Queued(k)) /\ (Held(k)' <=> Held(k))
    BY <1>0, <1>2, JobsStay DEF Admit
  <2>2. /\ mailbox' = mailbox /\ logins' = logins /\ tokens' = tokens
        /\ k # l => request'[k] = request[k]
        /\ request'[l] \in {"refused", "admitted"}
    BY <1>0, <1>2 DEF Admit, recipient, TypeOK
  <2> QED
    BY <1>0, <2>1, <2>2
<1>3. CASE Offer(l)
  <2>1. Held(k)' <=> Held(k)
    BY <1>0, <1>3, WorkerMoves DEF Offer
  <2>2. /\ mailbox' = mailbox /\ logins' = logins /\ tokens' = tokens
        /\ k # l => request'[k] = request[k]
        /\ request'[l] = "refused" \/ (request'[l] = "answered" /\ Queued(l)')
        /\ k # l => (Queued(k)' <=> Queued(k))
    <3>1. CASE Room
      BY <1>0, <1>3, <3>1, QueueMoves DEF Offer, recipient, TypeOK
    <3>2. CASE ~Room
      BY <1>0, <1>3, <3>2, QueueMoves DEF Offer, recipient, TypeOK
    <3> QED
      BY <3>1, <3>2
  <2> QED
    BY <1>0, <2>1, <2>2
<1>4. CASE Refuse(l)
  <2>1. (Queued(k)' <=> Queued(k)) /\ (Held(k)' <=> Held(k))
    BY <1>0, <1>4, JobsStay DEF Refuse
  <2>2. /\ mailbox' = mailbox /\ logins' = logins
        /\ k # l => tokens'[k] = tokens[k] /\ request'[k] = request[k]
        /\ request'[l] = "answered" /\ tokens'[l] = "none"
    BY <1>0, <1>4 DEF Refuse, Withdraw, recipient, TypeOK
  <2> QED
    BY <1>0, <2>1, <2>2
<1> QED
  BY <1>1, <1>2, <1>3, <1>4 DEF RequestStep

LEMMA LinkToken ==
    ASSUME IInv, NEW k \in Links, NEW l \in Links, TokenStep(l)
    PROVE  LinkInv(k)'
<1> USE DEF IInv, LinkInv, FreshLink, SpentLink, AccountedLink, Unsent, InFlight
<1>0. TypeOK /\ LinkInv(k)
  OBVIOUS
<1>1. /\ Queued(k)' <=> Queued(k)
      /\ Held(k)' <=> Held(k)
      /\ request' = request /\ mailbox' = mailbox
  BY <1>0, JobsStay DEF TokenStep, Peek, Consume, Expire, recipient
<1>2. CASE Peek(l) \/ Expire(l)
  <2>1. logins' = logins /\ (tokens'[k] = tokens[k] \/ tokens'[k] = "none")
    BY <1>0, <1>2 DEF Peek, Expire, Withdraw, recipient, TypeOK
  <2> QED
    BY <1>0, <1>1, <2>1
<1>3. CASE Consume(l)
  <2>1. l \in mailbox
    BY <1>3 DEF Consume
  <2>2. CASE tokens[l] \in Usable
    <3>1. /\ tokens' = [tokens EXCEPT ![l] = "used"]
          /\ logins' = [logins EXCEPT ![l] = logins[l] + 1]
      BY <1>3, <2>2 DEF Consume
    <3>2. /\ tokens'[l] = "used"
          /\ k # l => tokens'[k] = tokens[k] /\ logins'[k] = logins[k]
      BY <1>0, <3>1 DEF TypeOK
    <3> QED
      BY <1>0, <1>1, <2>1, <3>2
  <2>3. CASE tokens[l] \notin Usable
    <3>1. logins' = logins /\ (tokens'[k] = tokens[k] \/ tokens'[k] = "none")
      BY <1>0, <1>3, <2>3 DEF Consume, Withdraw, TypeOK
    <3> QED
      BY <1>0, <1>1, <3>1
  <2> QED
    BY <2>2, <2>3
<1> QED
  BY <1>2, <1>3 DEF TokenStep

LEMMA LinkWorker ==
    ASSUME IInv, NEW k \in Links, NEW w \in Workers, WorkerStep(w)
    PROVE  LinkInv(k)'
<1> USE LinksAssumption
    DEF IInv, LinkInv, FreshLink, SpentLink, AccountedLink, Unsent, InFlight
<1>0. /\ TypeOK /\ HasJob /\ LinkInv(k)
      /\ k # None /\ (worker[w].link = k => Held(k))
      /\ worker[w].link \in Links \cup {None} /\ worker[w].at \in Stages
  BY DEF Held, TypeOK
<1>1. CASE Take(w)
  <2>1. worker[w].link = None
    BY <1>0, <1>1 DEF Take, HasJob
  <2>2. /\ tokens' = tokens /\ request' = request
        /\ mailbox' = mailbox /\ logins' = logins
    BY <1>1 DEF Take, recipient
  <2>3. Queued(k)' \/ Held(k)' <=> Queued(k) \/ Held(k)
    <3>1. CASE queue = <<>>
      BY <1>0, <1>1, <2>1, <3>1, QueueMoves, WorkerMoves DEF Take
    <3>2. CASE queue # <<>>
      <4>1. queue' = Tail(queue) /\ Step(w, "taken", Head(queue))
        BY <1>1, <3>2 DEF Take
      <4>2. Head(queue) \in Links
        BY <1>0, <3>2, TailLemma DEF TypeOK
      <4>3. Queued(k) <=> k = Head(queue) \/ Queued(k)'
        BY <1>0, <3>2, <4>1, QueueMoves
      <4>4. /\ Held(k) => Held(k)'
            /\ Held(k)' => Head(queue) = k \/ Held(k)
            /\ Head(queue) = k => Held(k)'
        BY <1>0, <2>1, <4>1, <4>2, WorkerMoves
      <4> QED
        BY <4>3, <4>4
    <3> QED
      BY <3>1, <3>2
  <2> QED
    BY <1>0, <2>2, <2>3
<1>2. CASE Check(w)
  <2>1. /\ tokens' = tokens /\ request' = request
        /\ mailbox' = mailbox /\ logins' = logins
    BY <1>2 DEF Check, recipient
  <2>2. (Queued(k)' <=> Queued(k)) /\ (Held(k)' <=> Held(k))
    BY <1>0, <1>2, QueueMoves, WorkerMoves DEF Check
  <2> QED
    BY <1>0, <2>1, <2>2
<1>3. CASE Arrive(w)
  <2>1. /\ tokens' = tokens /\ request' = request /\ logins' = logins
        /\ k \in mailbox => k \in mailbox'
        /\ k \in mailbox' => k \in mailbox \/ Held(k)
    BY <1>0, <1>3 DEF Arrive
  <2>2. (Queued(k)' <=> Queued(k)) /\ (Held(k)' <=> Held(k))
    BY <1>0, <1>3, JobsStay DEF Arrive
  <2> QED
    BY <1>0, <2>1, <2>2
<1>4. CASE Return(w)
  <2>1. /\ tokens' = tokens /\ request' = request
        /\ mailbox' = mailbox /\ logins' = logins
    BY <1>4 DEF Return, recipient
  <2>2. Queued(k)' <=> Queued(k)
    BY <1>0, <1>4, QueueMoves DEF Return
  <2>3. /\ Held(k)' => Held(k)
        /\ Held(k) => Held(k)' \/ k \in mailbox
    <3>1. CASE worker[w].link \in mailbox /\ Step(w, "idle", None)
      BY <1>0, <3>1, WorkerMoves
    <3>2. CASE Step(w, "failed", worker[w].link)
      BY <1>0, <3>2, WorkerMoves
    <3> QED
      BY <1>4, <3>1, <3>2 DEF Return
  <2> QED
    BY <1>0, <2>1, <2>2, <2>3
<1>5. CASE Invalidate(w)
  <2>1. /\ request' = request /\ mailbox' = mailbox /\ logins' = logins
        /\ tokens'[k] = tokens[k] \/ tokens'[k] = "none"
        /\ worker[w].link = k => tokens'[k] = "none"
    BY <1>0, <1>5 DEF Invalidate, Withdraw, recipient, TypeOK
  <2>2. Queued(k)' <=> Queued(k)
    BY <1>0, <1>5, QueueMoves DEF Invalidate
  <2>3. /\ Held(k)' => Held(k)
        /\ Held(k) => Held(k)' \/ worker[w].link = k
    BY <1>0, <1>5, WorkerMoves DEF Invalidate
  <2> QED
    BY <1>0, <2>1, <2>2, <2>3
<1> QED
  BY <1>1, <1>2, <1>3, <1>4, <1>5 DEF WorkerStep

LEMMA LinkCloser ==
    ASSUME IInv, NEW k \in Links, CloseApp \/ CloserStep
    PROVE  LinkInv(k)'
<1> USE DEF IInv, LinkInv, FreshLink, SpentLink, AccountedLink, Unsent, InFlight
<1>0. TypeOK /\ LinkInv(k)
  OBVIOUS
<1>1. CASE CloseApp \/ CloseQueue \/ Drain \/ DrainTimeout \/ CloseFinished
  <2>1. /\ tokens' = tokens /\ request' = request
        /\ mailbox' = mailbox /\ logins' = logins
        /\ queue' = queue /\ worker' = worker
    BY <1>1 DEF CloseApp, CloseQueue, Drain, DrainTimeout, CloseFinished,
                recipient
  <2>2. (Queued(k)' <=> Queued(k)) /\ (Held(k)' <=> Held(k))
    BY <1>0, <2>1, JobsStay
  <2> QED
    BY <1>0, <2>1, <2>2
<1>2. CASE InvalidatePending
  <2>1. /\ request' = request /\ mailbox' = mailbox /\ logins' = logins
        /\ worker' = worker
    BY <1>2 DEF InvalidatePending, recipient
  <2>2. Held(k)' <=> Held(k)
    BY <1>0, <2>1, WorkerMoves
  <2>3. /\ tokens'[k] = tokens[k] \/ tokens'[k] = "none"
        /\ Queued(k)' => Queued(k)
        /\ Queued(k) => Queued(k)' \/ tokens'[k] = "none"
    <3>1. CASE queue = <<>>
      BY <1>0, <1>2, <3>1, QueueMoves DEF InvalidatePending
    <3>2. CASE queue # <<>>
      <4>1. queue' = Tail(queue) /\ tokens' = [tokens EXCEPT ![Head(queue)] = "none"]
        BY <1>2, <3>2 DEF InvalidatePending, Withdraw
      <4>2. Queued(k) <=> k = Head(queue) \/ Queued(k)'
        BY <1>0, <3>2, <4>1, QueueMoves
      <4>3. /\ tokens'[k] = tokens[k] \/ tokens'[k] = "none"
            /\ k = Head(queue) => tokens'[k] = "none"
        BY <1>0, <4>1 DEF TypeOK
      <4> QED
        BY <4>2, <4>3
    <3> QED
      BY <3>1, <3>2
  <2> QED
    BY <1>0, <2>1, <2>2, <2>3
<1>3. CASE Exit
  <2>1. /\ request' = request /\ mailbox' = mailbox /\ logins' = logins
        /\ tokens'[k] = "none" /\ queue' = queue /\ worker' = worker
    BY <1>3 DEF Exit, recipient
  <2>2. (Queued(k)' <=> Queued(k)) /\ (Held(k)' <=> Held(k))
    BY <1>0, <2>1, JobsStay
  <2> QED
    BY <1>0, <2>1, <2>2
<1> QED
  BY <1>1, <1>2, <1>3 DEF CloserStep

LEMMA LinkStep ==
    ASSUME IInv, NEW k \in Links, [Next]_vars
    PROVE  LinkInv(k)'
<1>1. CASE UNCHANGED vars
  <2>1. TypeOK /\ queue' = queue /\ worker' = worker
    BY <1>1 DEF vars, IInv
  <2>2. (Queued(k)' <=> Queued(k)) /\ (Held(k)' <=> Held(k))
    BY <2>1, JobsStay
  <2> QED
    BY <1>1, <2>2 DEF vars, IInv, LinkInv, FreshLink, SpentLink,
                      AccountedLink, Unsent, InFlight
<1> QED
  BY <1>1, LinkRequest, LinkToken, LinkWorker, LinkCloser DEF Next

-----------------------------------------------------------------------------
(* The invariants.                                                         *)

LEMMA IInvStep == IInv /\ [Next]_vars => IInv'
<1> SUFFICES ASSUME IInv, [Next]_vars PROVE IInv'
  OBVIOUS
<1>1. TypeOK' /\ HasJob'
  BY TypeStep DEF IInv
<1>2. ClosingOrder' /\ QueueInv' /\ DrainTruth'
  BY ClosingStep, QueueStep, DrainStep DEF IInv
<1>3. \A l \in Links : LinkInv(l)'
  BY LinkStep
<1> QED
  BY <1>1, <1>2, <1>3 DEF IInv

LEMMA SpecIInv == Spec => []IInv
BY InitIInv, IInvStep, PTL DEF Spec

\* Every variable of the login links keeps its type.
THEOREM TypeCorrect == Spec => []TypeOK
<1>1. IInv => TypeOK
  BY DEF IInv
<1> QED
  BY <1>1, SpecIInv, PTL

\* A usable token whose link has not arrived has a request, a queue entry or
\* a worker that will settle it (TokenStore.Invalidate, requestLogin).
THEOREM LinksAccounted == Spec => []Accounted
<1>1. IInv => Accounted
  BY DEF IInv, LinkInv, AccountedLink, Accounted
<1> QED
  BY <1>1, SpecIInv, PTL

\* A shutdown that reports a drained queue left no accepted job behind
\* (magicLinkDeliveryQueue.close).
THEOREM DrainIsTrue == Spec => []DrainTruth
<1>1. IInv => DrainTruth
  BY DEF IInv
<1> QED
  BY <1>1, SpecIInv, PTL

-----------------------------------------------------------------------------
(* The refinement of LinkPromise.                                          *)

\* A step that changes no fate and no login is a stutter of the promise.
LEMMA Stutter ==
    ASSUME logins' = logins, \A l \in Links : Fate(l)' = Fate(l)
    PROVE  UNCHANGED Promise!promise
BY DEF Promise!promise

\* A step that withdraws usable tokens is Void.
LEMMA Withdrawn ==
    ASSUME IInv, request' = request \/ (\E l \in Links :
               request[l] # "new" /\ request' = [request EXCEPT ![l] = "answered"]),
           mailbox' = mailbox, logins' = logins,
           \A l \in Links : tokens'[l] = tokens[l] \/ tokens'[l] = "none"
    PROVE  Promise!Next \/ UNCHANGED Promise!promise
<1> DEFINE S == {l \in Links : Fate(l) \in {"pending", "sent"}
                               /\ tokens'[l] = "none"}
<1>1. ASSUME NEW l \in Links
      PROVE  Fate(l)' = IF l \in S THEN "void" ELSE Fate(l)
  <2>1. request'[l] = "new" <=> request[l] = "new"
    BY DEF IInv, TypeOK
  <2>2. tokens[l] = "valid" => request[l] # "new"
    BY DEF IInv, LinkInv, FreshLink
  <2> QED
    BY <2>1, <2>2 DEF Fate
<1>2. \A l \in S : Fate(l) \in {"pending", "sent"}
  OBVIOUS
<1>3. Promise!Void(S)
  BY <1>1, <1>2 DEF Promise!Void
<1> QED
  BY <1>3 DEF Promise!Next

LEMMA PromiseInit == Init => Promise!Init
BY DEF Init, Promise!Init, Fate

LEMMA PromiseStep ==
    ASSUME IInv, [Next]_vars
    PROVE  [Promise!Next]_(Promise!promise)
<1>0. TypeOK /\ HasJob
  BY DEF IInv
<1>1. ASSUME NEW l \in Links, RequestStep(l)
      PROVE  Promise!Next \/ UNCHANGED Promise!promise
  <2>1. CASE Store(l)
    <3>1. /\ request[l] = "new" /\ tokens'[l] = "valid"
          /\ request'[l] = "stored" /\ mailbox' = mailbox /\ logins' = logins
          /\ \A k \in Links \ {l} : tokens'[k] = tokens[k] /\ request'[k] = request[k]
      BY <1>0, <2>1 DEF Store, recipient, TypeOK
    <3>2. l \notin mailbox /\ logins[l] = 0
      BY <3>1 DEF IInv, LinkInv, FreshLink
    <3>3. /\ Fate(l) = "new" /\ Fate(l)' = "pending"
          /\ \A k \in Links \ {l} : Fate(k)' = Fate(k)
      BY <3>1, <3>2 DEF Fate
    <3>4. Promise!Issue(l)
      BY <3>1, <3>3 DEF Promise!Issue
    <3> QED
      BY <3>4 DEF Promise!Next
  <2>2. CASE Admit(l) \/ Offer(l)
    <3>1. /\ tokens' = tokens /\ mailbox' = mailbox /\ logins' = logins
          /\ \A k \in Links : request'[k] = "new" <=> request[k] = "new"
      BY <1>0, <2>2 DEF Admit, Offer, recipient, TypeOK
    <3> QED
      BY <3>1, Stutter DEF Fate
  <2>3. CASE Refuse(l)
    BY <1>0, <2>3, Withdrawn DEF Refuse, Withdraw, recipient, TypeOK
  <2> QED
    BY <1>1, <2>1, <2>2, <2>3 DEF RequestStep
<1>2. ASSUME NEW l \in Links, TokenStep(l)
      PROVE  Promise!Next \/ UNCHANGED Promise!promise
  <2>1. CASE Peek(l) \/ Expire(l) \/ (Consume(l) /\ tokens[l] \notin Usable)
    BY <1>0, <2>1, Withdrawn
       DEF Peek, Expire, Consume, Withdraw, recipient, TypeOK
  <2>2. CASE Consume(l) /\ tokens[l] \in Usable
    <3>1. /\ l \in mailbox /\ tokens[l] = "valid"
          /\ tokens' = [tokens EXCEPT ![l] = "used"]
          /\ logins' = [logins EXCEPT ![l] = logins[l] + 1]
          /\ request' = request /\ mailbox' = mailbox
      BY <2>2 DEF Consume, Usable
    <3>2. logins[l] = 0 /\ request[l] # "new"
      BY <1>0, <3>1 DEF IInv, LinkInv, FreshLink, SpentLink, TypeOK
    <3>3. /\ logins'[l] > 0
          /\ \A k \in Links \ {l} : tokens'[k] = tokens[k] /\ logins'[k] = logins[k]
      BY <1>0, <3>1, <3>2 DEF TypeOK
    <3>4. /\ Fate(l) = "sent" /\ Fate(l)' = "opened"
          /\ \A k \in Links \ {l} : Fate(k)' = Fate(k)
      BY <3>1, <3>2, <3>3 DEF Fate
    <3>5. Promise!Open(l)
      BY <3>1, <3>4 DEF Promise!Open
    <3> QED
      BY <3>5 DEF Promise!Next
  <2> QED
    BY <1>2, <2>1, <2>2 DEF TokenStep
<1>3. ASSUME NEW w \in Workers, WorkerStep(w)
      PROVE  Promise!Next \/ UNCHANGED Promise!promise
  <2>1. CASE Take(w) \/ Check(w) \/ Return(w)
    <3>1. /\ tokens' = tokens /\ mailbox' = mailbox /\ logins' = logins
          /\ request' = request
      BY <2>1 DEF Take, Check, Return, recipient
    <3> QED
      BY <3>1, Stutter DEF Fate
  <2>2. CASE Arrive(w)
    <3>1. worker[w].link \in Links
      BY <1>0, <2>2 DEF Arrive, HasJob, TypeOK
    <3>2. PICK l \in Links : l = worker[w].link
      BY <3>1
    <3>3. /\ tokens' = tokens /\ logins' = logins /\ request' = request
          /\ mailbox' = mailbox \cup {l}
      BY <2>2, <3>2 DEF Arrive
    <3>4. \A k \in Links \ {l} : Fate(k)' = Fate(k)
      BY <3>3 DEF Fate
    <3>5. CASE Fate(l) = "pending"
      <4>1. Fate(l)' = "sent"
        BY <3>3, <3>5 DEF Fate
      <4>2. Promise!Send(l)
        BY <3>3, <3>4, <3>5, <4>1 DEF Promise!Send
      <4> QED
        BY <4>2 DEF Promise!Next
    <3>6. CASE Fate(l) # "pending"
      <4>1. Fate(l)' = Fate(l)
        BY <3>3, <3>6 DEF Fate
      <4> QED
        BY <3>3, <3>4, <4>1, Stutter
    <3> QED
      BY <3>5, <3>6
  <2>3. CASE Invalidate(w)
    BY <1>0, <2>3, Withdrawn DEF Invalidate, Withdraw, recipient, TypeOK
  <2> QED
    BY <1>3, <2>1, <2>2, <2>3 DEF WorkerStep
<1>4. CASE CloseApp \/ CloserStep
  <2>1. CASE CloseApp \/ CloseQueue \/ Drain \/ DrainTimeout \/ CloseFinished
    <3>1. /\ tokens' = tokens /\ mailbox' = mailbox /\ logins' = logins
          /\ request' = request
      BY <2>1 DEF CloseApp, CloseQueue, Drain, DrainTimeout, CloseFinished,
                  recipient
    <3> QED
      BY <3>1, Stutter DEF Fate
  <2>2. CASE InvalidatePending \/ Exit
    BY <1>0, <2>2, Withdrawn
       DEF InvalidatePending, Exit, Withdraw, recipient, TypeOK
  <2> QED
    BY <1>4, <2>1, <2>2 DEF CloserStep
<1>5. CASE UNCHANGED vars
  BY <1>5, Stutter DEF vars, Fate
<1> QED
  BY <1>1, <1>2, <1>3, <1>4, <1>5 DEF Next

\* Queue, token store and shutdown implement LinkPromise: one session per
\* link, through a link that was sent and not withdrawn (TokenStore.Consume).
THEOREM PromiseTheorem == Spec => PromiseKept
<1>1. Init => Promise!Init
  BY PromiseInit
<1>2. IInv /\ [Next]_vars => [Promise!Next]_(Promise!promise)
  BY PromiseStep
<1> QED
  BY <1>1, <1>2, SpecIInv, PTL DEF Spec, PromiseKept, Promise!Spec

=============================================================================
