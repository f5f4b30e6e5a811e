----------------------------- MODULE LoginLinks -----------------------------
(***************************************************************************)
(* One-time login links: the request that issues a token, the bounded      *)
(* queue that mails the link (src/internal/server/magic_link_delivery.go), *)
(* the token store (src/internal/auth/auth.go) and the shutdown of the     *)
(* process, which races all of them.                                       *)
(***************************************************************************)
EXTENDS Naturals, Sequences

CONSTANTS
    Links,      \* one per login request and its token
    Workers,    \* goroutines of the queue
    Capacity,   \* of the queue's channel
    None,       \* no link
    Visits      \* bound: sessions counted per link

ASSUME LinksAssumption ==
    /\ None \notin Links
    /\ Workers # {}
    /\ Capacity \in Nat \ {0}
    /\ Visits \in Nat

VARIABLES
    tokens,     \* TokenStore.items, per link
    request,    \* requestLogin, per link
    mailbox,    \* links that reached their recipient
    logins,     \* per link, the sessions Consume has let in
    up,         \* app.magicLinkDelivery exists
    appClosed,  \* app.magicLinkDeliveryClosed
    queue,      \* the channel jobs
    closed,     \* queue.closed, and the channel with it
    cancelled,  \* queue.ctx
    worker,     \* per worker, where it is and its job
    closer,     \* closeMagicLinkDelivery
    drained     \* queue.drained

vars == <<tokens, request, mailbox, logins, up, appClosed, queue, closed,
          cancelled, worker, closer, drained>>
recipient == <<mailbox, logins>>
shutdown == <<appClosed, closed, cancelled, closer, drained>>

Tokens == {"none", "valid", "used"}
Requests == {"new", "stored", "admitted", "refused", "answered"}
Stages == {"idle", "taken", "sending", "failed", "done"}
Closing == {"open", "closing", "draining", "emptying", "waiting", "finished",
            "exited"}
Resting == [at |-> "idle", link |-> None]

Init ==
    /\ tokens = [l \in Links |-> "none"]
    /\ request = [l \in Links |-> "new"]
    /\ mailbox = {}
    /\ logins = [l \in Links |-> 0]
    /\ up = FALSE
    /\ appClosed = FALSE
    /\ queue = <<>>
    /\ closed = FALSE
    /\ cancelled = FALSE
    /\ worker = [w \in Workers |-> Resting]
    /\ closer = "open"
    /\ drained = FALSE

Running == closer # "exited"
Finished(w) == worker[w].at = "done"
AllFinished == \A w \in Workers : Finished(w)

-----------------------------------------------------------------------------
(* The request.                                                            *)

\* tokens.Put, before anything is known about the delivery.
Store(l) ==
    /\ Running
    /\ request[l] = "new"
    /\ tokens' = [tokens EXCEPT ![l] = "valid"]
    /\ request' = [request EXCEPT ![l] = "stored"]
    /\ UNCHANGED <<recipient, shutdown, up, queue, worker>>

\* Under the app's mutex: a closed app refuses, the first job makes the queue.
Admit(l) ==
    /\ Running
    /\ request[l] = "stored"
    /\ IF appClosed
       THEN /\ request' = [request EXCEPT ![l] = "refused"]
            /\ UNCHANGED up
       ELSE /\ request' = [request EXCEPT ![l] = "admitted"]
            /\ up' = TRUE
    /\ UNCHANGED <<recipient, shutdown, tokens, queue, worker>>

\* queue.enqueue under the read lock: it never waits.
Room == ~closed /\ Len(queue) < Capacity
Offer(l) ==
    /\ Running
    /\ request[l] = "admitted"
    /\ IF Room
       THEN /\ queue' = Append(queue, l)
            /\ request' = [request EXCEPT ![l] = "answered"]
       ELSE /\ request' = [request EXCEPT ![l] = "refused"]
            /\ UNCHANGED queue
    /\ UNCHANGED <<recipient, shutdown, tokens, up, worker>>

\* Mutant: tokens are not deleted.
WithdrawNothing(l) == UNCHANGED tokens

\* A link that was not queued is withdrawn.
Withdraw(l) == tokens' = [tokens EXCEPT ![l] = "none"]
Refuse(l) ==
    /\ Running
    /\ request[l] = "refused"
    /\ request' = [request EXCEPT ![l] = "answered"]
    /\ Withdraw(l)
    /\ UNCHANGED <<recipient, shutdown, up, queue, worker>>

-----------------------------------------------------------------------------
(* The recipient and the token store.                                      *)

\* Peek, before the admission check of the account: an unusable token goes.
Peek(l) ==
    /\ Running
    /\ l \in mailbox
    /\ tokens[l] = "used"
    /\ Withdraw(l)
    /\ UNCHANGED <<recipient, shutdown, request, up, queue, worker>>

\* Mutant: Consume forgets to look at the used flag.
UsableAgain == {"valid", "used"}

\* Consume: the session is the request's own and stateless.
Usable == {"valid"}
Consume(l) ==
    /\ Running
    /\ l \in mailbox
    /\ logins[l] < Visits
    /\ IF tokens[l] \in Usable
       THEN /\ tokens' = [tokens EXCEPT ![l] = "used"]
            /\ logins' = [logins EXCEPT ![l] = @ + 1]
       ELSE Withdraw(l) /\ UNCHANGED logins
    /\ UNCHANGED <<shutdown, request, mailbox, up, queue, worker>>

\* Fifteen minutes pass.
Expire(l) ==
    /\ Running
    /\ tokens[l] = "valid"
    /\ Withdraw(l)
    /\ UNCHANGED <<recipient, shutdown, request, up, queue, worker>>

-----------------------------------------------------------------------------
(* The workers.                                                            *)

Step(w, at, link) == worker' = [worker EXCEPT ![w] = [at |-> at, link |-> link]]

\* Mutant: a worker ends as soon as the queue is closed.
TakeUnlessClosed(w) ==
    /\ Running
    /\ up
    /\ worker[w].at = "idle"
    /\ IF closed
       THEN Step(w, "done", None) /\ UNCHANGED queue
       ELSE /\ queue # <<>>
            /\ queue' = Tail(queue)
            /\ Step(w, "taken", Head(queue))
    /\ UNCHANGED <<recipient, shutdown, tokens, request, up>>

Take(w) ==
    /\ Running
    /\ up
    /\ worker[w].at = "idle"
    /\ IF queue = <<>>
       THEN closed /\ Step(w, "done", None) /\ UNCHANGED queue
       ELSE queue' = Tail(queue) /\ Step(w, "taken", Head(queue))
    /\ UNCHANGED <<recipient, shutdown, tokens, request, up>>

\* A cancelled queue sends nothing more.
Check(w) ==
    /\ Running
    /\ worker[w].at = "taken"
    /\ Step(w, IF cancelled THEN "failed" ELSE "sending", worker[w].link)
    /\ UNCHANGED <<recipient, shutdown, tokens, request, up, queue>>

\* The relay takes the message, which the sender may not learn of.
Arrive(w) ==
    /\ Running
    /\ worker[w].at = "sending"
    /\ mailbox' = mailbox \cup {worker[w].link}
    /\ UNCHANGED <<shutdown, tokens, request, logins, up, queue, worker>>

\* The transport returns: success only once the relay has the message, an
\* error or a panic at any time, also after that.
Return(w) ==
    /\ Running
    /\ worker[w].at = "sending"
    /\ \/ worker[w].link \in mailbox /\ Step(w, "idle", None)
       \/ Step(w, "failed", worker[w].link)
    /\ UNCHANGED <<recipient, shutdown, tokens, request, up, queue>>

\* Mutant: a failed delivery is tried again.
InvalidateRetries(w) ==
    /\ Running
    /\ worker[w].at = "failed"
    /\ Step(w, "taken", worker[w].link)
    /\ UNCHANGED <<recipient, shutdown, tokens, request, up, queue>>

Invalidate(w) ==
    /\ Running
    /\ worker[w].at = "failed"
    /\ Withdraw(worker[w].link)
    /\ Step(w, "idle", None)
    /\ UNCHANGED <<recipient, shutdown, request, up, queue>>

-----------------------------------------------------------------------------
(* closeMagicLinkDelivery, once, at the end of main.                       *)

Closer(from, to) == Running /\ closer = from /\ closer' = to

\* Without a queue there is nothing to close.
CloseApp ==
    /\ Closer("open", IF up THEN "closing" ELSE "finished")
    /\ appClosed' = TRUE
    /\ drained' = ~up
    /\ UNCHANGED <<recipient, tokens, request, up, queue, closed, cancelled,
                   worker>>

CloseQueue ==
    /\ Closer("closing", "draining")
    /\ closed' = TRUE
    /\ UNCHANGED <<recipient, tokens, request, up, appClosed, queue,
                   cancelled, worker, drained>>

Drain ==
    /\ AllFinished
    /\ Closer("draining", "finished")
    /\ drained' = TRUE
    /\ cancelled' = TRUE
    /\ UNCHANGED <<recipient, tokens, request, up, appClosed, queue, closed,
                   worker>>

DrainTimeout ==
    /\ Closer("draining", "emptying")
    /\ cancelled' = TRUE
    /\ UNCHANGED <<recipient, tokens, request, up, appClosed, queue, closed,
                   worker, drained>>

\* invalidatePending competes with the workers for what is left.
InvalidatePending ==
    /\ IF queue = <<>>
       THEN Closer("emptying", "waiting") /\ UNCHANGED <<tokens, queue>>
       ELSE /\ Closer("emptying", "emptying")
            /\ queue' = Tail(queue)
            /\ Withdraw(Head(queue))
    /\ UNCHANGED <<recipient, request, up, appClosed, closed, cancelled,
                   worker, drained>>

\* Mutant: close waits for the workers without a second timer.
CloseFinishedJoins ==
    /\ AllFinished
    /\ Closer("waiting", "finished")
    /\ UNCHANGED <<recipient, tokens, request, up, appClosed, queue, closed,
                   cancelled, worker, drained>>

\* The workers end, or the second timer.
CloseFinished ==
    /\ Closer("waiting", "finished")
    /\ UNCHANGED <<recipient, tokens, request, up, appClosed, queue, closed,
                   cancelled, worker, drained>>

\* The tokens and the queue are memory.
Exit ==
    /\ Closer("finished", "exited")
    /\ tokens' = [l \in Links |-> "none"]
    /\ UNCHANGED <<recipient, request, up, appClosed, queue, closed,
                   cancelled, worker, drained>>

-----------------------------------------------------------------------------
RequestStep(l) == Store(l) \/ Admit(l) \/ Offer(l) \/ Refuse(l)
TokenStep(l) == Peek(l) \/ Consume(l) \/ Expire(l)
WorkerStep(w) == Take(w) \/ Check(w) \/ Arrive(w) \/ Return(w) \/ Invalidate(w)
CloserStep == CloseQueue \/ Drain \/ DrainTimeout \/ InvalidatePending
              \/ CloseFinished \/ Exit

Next ==
    \/ \E l \in Links : RequestStep(l) \/ TokenStep(l)
    \/ \E w \in Workers : WorkerStep(w)
    \/ CloseApp
    \/ CloserStep

Spec == Init /\ [][Next]_vars

\* Goroutines run and the timers of close fire.  No request has to come, no
\* recipient to react, no token to expire, no shutdown to start and, here, no
\* transport to return.
Fairness ==
    /\ \A l \in Links : WF_vars(Admit(l) \/ Offer(l) \/ Refuse(l))
    /\ \A w \in Workers : WF_vars(Take(w) \/ Check(w) \/ Invalidate(w))
    /\ WF_vars(CloserStep)

FairSpec == Spec /\ Fairness

-----------------------------------------------------------------------------
(* Properties.                                                             *)

\* Every variable keeps its type.
TypeOK ==
    /\ tokens \in [Links -> Tokens]
    /\ request \in [Links -> Requests]
    /\ mailbox \subseteq Links
    /\ logins \in [Links -> Nat]
    /\ up \in BOOLEAN /\ appClosed \in BOOLEAN
    /\ queue \in Seq(Links) /\ Len(queue) <= Capacity
    /\ closed \in BOOLEAN /\ cancelled \in BOOLEAN
    /\ worker \in [Workers -> [at : Stages, link : Links \cup {None}]]
    /\ closer \in Closing
    /\ drained \in BOOLEAN

\* "A link that was never safely delivered cannot become usable later"
\* (auth/auth.go:125) and "do not retain a valid token that can never reach its
\* intended recipient" (server/auth.go:210): while a token is usable and its
\* link has not arrived, somebody still holds the job and will settle it.
Queued(l) == \E i \in 1 .. Len(queue) : queue[i] = l
Held(l) == \E w \in Workers : worker[w].link = l
InFlight(l) ==
    request[l] \in {"stored", "admitted", "refused"} \/ Queued(l) \/ Held(l)
Unsent(l) == tokens[l] = "valid" /\ l \notin mailbox
Accounted == \A l \in Links : Unsent(l) => InFlight(l)

\* A shutdown that reports a drained queue left no accepted job behind
\* (magic_link_delivery.go:161, "gives accepted jobs a window to finish").
DrainTruth == drained => queue = <<>> /\ (up => AllFinished)

\* Each link as its recipient sees it.
Fate(l) ==
    IF request[l] = "new" THEN "new"
    ELSE IF logins[l] > 0 THEN "opened"
    ELSE IF tokens[l] # "valid" THEN "void"
    ELSE IF l \in mailbox THEN "sent" ELSE "pending"
Promise == INSTANCE LinkPromise WITH fate <- [l \in Links |-> Fate(l)]

\* The queue, the token store and the shutdown together keep the promise:
\* one session per link, through a link that was sent and not withdrawn.
PromiseKept == Promise!Spec

\* The transport has deadlines of its own (internal/mail/mail.go:340-356).
TransportReturns == \A w \in Workers : WF_vars(Return(w))

\* A usable token whose link is on its way does not stay so: the link arrives
\* or the token goes, without waiting for its fifteen minutes, as long as the
\* transport returns.
Settles == TransportReturns => \A l \in Links : []<>~Unsent(l)

\* Shutdown ends although a transport never returns
\* (magic_link_delivery.go:163, "never hold app.Close indefinitely").
CloseEnds == []<>(appClosed => closer = "exited")

=============================================================================
