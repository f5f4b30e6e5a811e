------------------------------ MODULE InboxProofs ------------------------------
(***************************************************************************)
(* For any workers, environments and bounds: the variables of the inbox    *)
(* keep their types, and an item that counts as handled has an issue; and  *)
(* where requests come one at a time, handling an item again makes nothing *)
(* twice unless a lookup failed, no request handles it beside a job or its *)
(* triage, and what a cancellation has emptied stays empty.                *)
(***************************************************************************)
EXTENDS Inbox, TLAPS

\* A status may stand in a document only when it is no promise of an issue, or
\* the promise is kept.  Issues are never deleted, so old documents stay good.
Good(status) == status \in Handled => Made

\* An issue that has been made.
Exists(i) == i \in Issues /\ i[2] <= issues[i[1]]

\* What a worker has read, is about to write, and already knows of the issue.
WorkInv(q) ==
    /\ Good(q.row.status) /\ Good(q.doc.status)
    /\ q.at \in {"suggGet", "suggPut"} => q.kind = "edit" \/ Good(q.status)
    /\ q.at \in {"workflow", "reply", "mail", "handleGet", "handlePut"} => Made
    /\ q.at = "create" => q.house \in Houses
    /\ q.at \in {"workflow", "reply", "mail"} => Exists(q.issue)

IInv ==
    /\ TypeOK
    /\ HandledHasIssue
    /\ \A w \in Workers : WorkInv(work[w])
-------------------------------------------------------------------------------
(* One worker moves.                                                        *)

LEMMA WorkerMoves ==
  ASSUME IInv, NEW w \in Workers, NEW q \in Worker,
         work' = [work EXCEPT ![w] = q],
         item' \in Item, Good(item.status)',
         issues' \in [Houses -> 0 .. MaxIssues], \A h \in Houses : issues'[h] >= issues[h],
         replies' \in [Issues -> Nat], mails' \in [Issues -> Nat],
         job' \in [who : Workers \cup {None}, state : {"none", "running", "done", "cancelled"}],
         autoOn' \in BOOLEAN, UNCHANGED <<env, crashes>>,
         misreads' \in 0 .. env.misreads,
         WorkInv(q)'
  PROVE  IInv'
<1>1. issues \in [Houses -> Nat] /\ issues' \in [Houses -> Nat]
  BY InboxAssumption DEF IInv, TypeOK
<1>2. work' \in [Workers -> Worker] /\ work'[w] = q
      /\ \A v \in Workers : v # w => work'[v] = work[v]
  BY DEF IInv, TypeOK
<1>3. TypeOK'
  BY <1>2 DEF IInv, TypeOK
<1>4. HandledHasIssue'
  BY DEF HandledHasIssue, Good
<1>5. ASSUME NEW v \in Workers PROVE WorkInv(work[v])'
  <2>1. CASE v = w
    BY <1>2, <2>1 DEF WorkInv, Good, Made, Exists
  <2>2. CASE v # w
    <3>1. WorkInv(work[v]) /\ work'[v] = work[v]
      BY <1>2, <2>2 DEF IInv
    <3>2. Made => Made'
      BY <1>1 DEF Made
    <3>3. ASSUME Exists(work[v].issue) PROVE Exists(work[v].issue)'
      <4>1. PICK h \in Houses, n \in 1 .. MaxIssues : work[v].issue = <<h, n>>
        BY <3>3 DEF Exists, Issues
      <4>2. n <= issues[h] /\ n \in Nat
        BY <3>3, <4>1, InboxAssumption DEF Exists
      <4>3. n <= issues'[h]
        BY <1>1, <4>2
      <4> QED BY <3>1, <3>3, <4>1, <4>3 DEF Exists
    <3> QED BY <3>1, <3>2, <3>3 DEF WorkInv, Good, Made, Exists
  <2> QED BY <2>1, <2>2
<1> QED BY <1>3, <1>4, <1>5 DEF IInv

JobTypes == [who : Workers \cup {None}, state : {"none", "running", "done", "cancelled"}]

\* A worker moves and writes no more than the item.
LEMMA OnlyMoves ==
  ASSUME IInv, NEW w \in Workers, NEW q \in Worker,
         work' = [work EXCEPT ![w] = q],
         item' \in Item, Good(item'.status),
         UNCHANGED <<issues, replies, mails, autoOn, env, misreads, crashes>>,
         job' \in JobTypes,
         WorkInv(q)
  PROVE  IInv'
<1>1. /\ issues' \in [Houses -> 0 .. MaxIssues] /\ misreads' \in 0 .. env.misreads
      /\ \A h \in Houses : issues'[h] >= issues[h]
  BY InboxAssumption DEF IInv, TypeOK
<1>2. Good(item.status)' /\ WorkInv(q)'
  BY DEF WorkInv, Good, Made, Exists
<1> QED BY <1>1, <1>2, WorkerMoves DEF IInv, TypeOK, JobTypes

LEMMA ItemGood == ASSUME IInv PROVE item \in Item /\ Good(item.status) /\ job \in JobTypes
  BY DEF IInv, TypeOK, HandledHasIssue, Good, JobTypes

LEMMA IdleGood == Idle \in Worker /\ WorkInv(Idle)
  BY InboxAssumption DEF Idle, Worker, Open, Item, Status, Places, WorkInv, Good, Handled

LEMMA JobType ==
  ASSUME IInv, NEW w \in Workers, JobEnded(w) \/ UNCHANGED job
  PROVE  job' \in JobTypes
  BY DEF IInv, TypeOK, JobEnded, JobTypes

\* What Go, Get and Finish make of a worker.
Gone(w, place) == [work[w] EXCEPT !.at = place, !.doc = Open]
Got(w, place) == [work[w] EXCEPT !.doc = item, !.at = place]

LEMMA GoMoves ==
  ASSUME IInv, NEW w \in Workers, NEW place \in Places, Go(w, place)
  PROVE  /\ work' = [work EXCEPT ![w] = Gone(w, place)]
         /\ Gone(w, place) \in Worker
<1>1. work[w] \in Worker /\ Open \in Item
  BY InboxAssumption DEF IInv, TypeOK, Open, Item, Status
<1>2. Gone(w, place) \in Worker
  BY <1>1 DEF Gone, Worker
<1>3. work' = [work EXCEPT ![w] = Gone(w, place)]
  BY DEF Go, Gone
<1> QED BY <1>2, <1>3

LEMMA GetMoves ==
  ASSUME IInv, NEW w \in Workers, NEW place \in Places, Get(w, place)
  PROVE  /\ work' = [work EXCEPT ![w] = Got(w, place)]
         /\ Got(w, place) \in Worker
<1>1. work[w] \in Worker /\ item \in Item
  BY DEF IInv, TypeOK
<1>2. Got(w, place) \in Worker
  BY <1>1 DEF Got, Worker
<1>3. work' = [work EXCEPT ![w] = Got(w, place)]
  BY DEF Get, Got
<1> QED BY <1>2, <1>3

\* A handler that has written its last goes on as a job does, or ends.
LEMMA LastMoves ==
  ASSUME IInv, NEW w \in Workers, Last(w)
  PROVE  /\ job' \in JobTypes
         /\ \E q \in Worker : work' = [work EXCEPT ![w] = q] /\ WorkInv(q)
<1>1. job' \in JobTypes
  BY JobType DEF Last, Go, Finish
<1>2. CASE Go(w, "end")
  <2>1. "end" \in Places /\ WorkInv(work[w])
    BY DEF Places, IInv
  <2>2. WorkInv(Gone(w, "end"))
    <3>1. work[w] \in Worker
      BY DEF IInv, TypeOK
    <3> QED BY <2>1, <3>1 DEF WorkInv, Good, Gone, Open, Handled, Worker
  <2> QED BY <1>1, <1>2, <2>1, <2>2, GoMoves
<1>3. CASE Finish(w)
  BY <1>1, <1>3, IdleGood DEF Finish
<1> QED BY <1>2, <1>3 DEF Last
-------------------------------------------------------------------------------
(* The steps that read the item.                                            *)

LEMMA ReadsStep ==
  ASSUME IInv, NEW w \in Workers,
         AssignGet(w) \/ ResetGet(w) \/ SuggGet(w) \/ HandleGet(w)
  PROVE  IInv'
<1>1. PICK place \in {"assignPut", "reset", "suggPut", "handlePut"} :
        /\ Get(w, place)
        /\ place = "suggPut" => work[w].at = "suggGet"
        /\ place = "handlePut" => work[w].at = "handleGet"
  BY DEF AssignGet, ResetGet, SuggGet, HandleGet
<1>2. place \in Places
  BY DEF Places
<1>3. work[w] \in Worker /\ WorkInv(work[w])
  BY DEF IInv, TypeOK
<1>4. WorkInv(Got(w, place))
  BY <1>1, <1>3, ItemGood DEF WorkInv, Good, Got, Worker
<1>5. UNCHANGED <<item, issues, replies, mails, autoOn, env, misreads, crashes, job>>
  BY <1>1 DEF AssignGet, ResetGet, SuggGet, HandleGet, Get, case, org, faults
<1> QED BY <1>1, <1>2, <1>4, <1>5, GetMoves, ItemGood, OnlyMoves

(* The steps that write the item.                                           *)

LEMMA DocumentsGood ==
  ASSUME IInv, NEW w \in Workers
  PROVE  /\ work[w].row \in Item /\ Good(work[w].row.status)
         /\ work[w].doc \in Item /\ Good(work[w].doc.status)
         /\ work[w].status \in Status /\ work[w].issue \in Issues \cup {NoIssue}
         /\ work[w].kind \in Actions \cup {"none", "triage", "job"}
         /\ work[w].alive \in BOOLEAN
  BY DEF IInv, TypeOK, Worker, WorkInv

LEMMA EmptiedGood ==
  ASSUME NEW doc \in Item PROVE Emptied(doc) \in Item /\ Good(Emptied(doc).status)
  BY DEF Emptied, Item, Status, Good, Handled

\* Writing the document it has read, or a harmless version of it.
LEMMA AssignsStep == ASSUME IInv, NEW w \in Workers, AssignPut(w) \/ Restore(w) PROVE IInv'
<1>1. PICK place \in {"resetGet", "countGet"} : Go(w, place)
  BY DEF AssignPut, Restore
<1>2. place \in Places
  BY DEF Places
<1>3. item' \in Item /\ Good(item'.status)
  <2>1. CASE AssignPut(w)
    BY <2>1, DocumentsGood DEF AssignPut, Put
  <2>2. CASE Restore(w)
    BY <2>2, DocumentsGood DEF Restore, Put, Item, Status, Good, Handled
  <2> QED BY <2>1, <2>2
<1>4. WorkInv(Gone(w, place))
  BY DocumentsGood DEF WorkInv, Good, Gone, Open, Handled, IInv, TypeOK, Worker
<1>5. UNCHANGED <<issues, replies, mails, autoOn, env, misreads, crashes, job>>
  BY <1>1 DEF AssignPut, Restore, Go, case, org, faults
<1> QED BY <1>1, <1>2, <1>3, <1>4, <1>5, GoMoves, ItemGood, OnlyMoves

LEMMA ResetStep == ASSUME IInv, NEW w \in Workers, ResetItem(w) PROVE IInv'
<1>1. item' \in Item /\ Good(item'.status)
  BY DocumentsGood, EmptiedGood DEF ResetItem, Put
<1>2. UNCHANGED <<issues, replies, mails, autoOn, env, misreads, crashes>>
  BY DEF ResetItem, case, org, faults
<1>3. CASE work[w].kind = "suggest"
  <2> DEFINE q == [Idle EXCEPT !.at = "policy", !.kind = "job",
                               !.row = Emptied(work[w].row), !.alive = work[w].alive]
  <2>1. q \in Worker
    BY IdleGood, DocumentsGood, EmptiedGood DEF Worker, Places
  <2>2. WorkInv(q)
    BY DocumentsGood, EmptiedGood DEF WorkInv, Idle, Good, Open, Handled
  <2>3. work' = [work EXCEPT ![w] = q] /\ UNCHANGED job
    BY <1>3 DEF ResetItem
  <2> QED BY <1>1, <1>2, <2>1, <2>2, <2>3, ItemGood, OnlyMoves
<1>4. CASE work[w].kind # "suggest"
  BY <1>1, <1>2, <1>4, LastMoves, OnlyMoves DEF ResetItem
<1> QED BY <1>3, <1>4

LEMMA SuggPutStep == ASSUME IInv, NEW w \in Workers, SuggPut(w) PROVE IInv'
<1>1. item' \in Item /\ Good(item'.status)
  <2>1. CASE work[w].kind = "edit"
    BY <2>1, DocumentsGood DEF SuggPut, Put, Item, Status, Good, Handled
  <2>2. CASE work[w].kind # "edit"
    <3>1. Good(work[w].status)
      BY <2>2 DEF SuggPut, IInv, WorkInv
    <3> QED BY <2>2, <3>1, DocumentsGood DEF SuggPut, Put, Item
  <2> QED BY <2>1, <2>2
<1>2. UNCHANGED <<issues, replies, mails, autoOn, env, misreads, crashes>>
  BY DEF SuggPut, case, org, faults
<1>3. CASE work[w].kind = "edit"
  <2>1. Go(w, "find") /\ "find" \in Places
    BY <1>3 DEF SuggPut, Places
  <2>2. WorkInv(Gone(w, "find"))
    BY DocumentsGood DEF WorkInv, Good, Gone, Open, Handled, IInv, TypeOK, Worker
  <2>3. UNCHANGED job
    BY <2>1 DEF Go
  <2> QED BY <1>1, <1>2, <2>1, <2>2, <2>3, GoMoves, ItemGood, OnlyMoves
<1>4. CASE work[w].kind # "edit"
  BY <1>1, <1>2, <1>4, LastMoves, OnlyMoves DEF SuggPut
<1> QED BY <1>3, <1>4

LEMMA HandlePutStep == ASSUME IInv, NEW w \in Workers, HandlePut(w) PROVE IInv'
<1>1. Made
  BY DEF HandlePut, IInv, WorkInv
<1>2. item' \in Item /\ Good(item'.status)
  BY <1>1, DocumentsGood DEF HandlePut, Put, Item, Good
<1>3. Go(w, "countGet") /\ "countGet" \in Places
  BY DEF HandlePut, Places
<1>4. WorkInv(Gone(w, "countGet"))
  BY DocumentsGood DEF WorkInv, Good, Gone, Open, Handled, IInv, TypeOK, Worker
<1>5. UNCHANGED <<issues, replies, mails, autoOn, env, misreads, crashes, job>>
  BY <1>3 DEF HandlePut, Go, case, org, faults
<1> QED BY <1>2, <1>3, <1>4, <1>5, GoMoves, ItemGood, OnlyMoves
-------------------------------------------------------------------------------
(* The steps of processIntake and handleIntake that leave the item alone.   *)

\* A worker learns something and moves on.
LEMMA LearnsStep ==
  ASSUME IInv, NEW w \in Workers,
         ReadPolicy(w) \/ CountGet(w) \/ UpdateWorkflow(w) \/ Deadline(w)
  PROVE  IInv'
<1> DEFINE seen == [work[w] EXCEPT !.at = "suggesting", !.auto = autoOn]
           counted == [work[w] EXCEPT !.at = "countPut", !.auto = autoOn]
           updated == [work[w] EXCEPT !.at = "reply", !.replied = replies[work[w].issue] > 0]
           late == [work[w] EXCEPT !.alive = FALSE]
<1>1. UNCHANGED <<item, issues, replies, mails, autoOn, env, misreads, crashes, job>>
  BY DEF ReadPolicy, CountGet, UpdateWorkflow, Deadline, case, org, faults
<1>2. work[w] \in Worker /\ WorkInv(work[w]) /\ autoOn \in BOOLEAN
  BY DEF IInv, TypeOK
<1>3. CASE ReadPolicy(w)
  <2>1. seen \in Worker
    BY <1>2 DEF Worker, Places
  <2>2. seen.at = "suggesting" /\ seen.row = work[w].row /\ seen.doc = work[w].doc
    BY <1>2 DEF Worker
  <2>3. WorkInv(seen)
    BY <1>2, <2>2 DEF WorkInv
  <2> QED BY <1>1, <1>3, <2>1, <2>3, ItemGood, OnlyMoves DEF ReadPolicy
<1>4. CASE CountGet(w)
  <2>1. counted \in Worker
    BY <1>2 DEF Worker, Places
  <2>2. counted.at = "countPut" /\ counted.row = work[w].row /\ counted.doc = work[w].doc
    BY <1>2 DEF Worker
  <2>3. WorkInv(counted)
    BY <1>2, <2>2 DEF WorkInv
  <2> QED BY <1>1, <1>4, <2>1, <2>3, ItemGood, OnlyMoves DEF CountGet
<1>5. CASE UpdateWorkflow(w)
  <2>1. (replies[work[w].issue] > 0) \in BOOLEAN
    OBVIOUS
  <2>2. updated \in Worker /\ WorkInv(updated)
    BY <1>2, <1>5, <2>1 DEF UpdateWorkflow, Worker, Places, WorkInv
  <2> QED BY <1>1, <1>5, <2>2, ItemGood, OnlyMoves DEF UpdateWorkflow
<1>6. CASE Deadline(w)
  <2>1. late \in Worker /\ WorkInv(late)
    BY <1>2 DEF Worker, WorkInv
  <2> QED BY <1>1, <1>6, <2>1, ItemGood, OnlyMoves DEF Deadline
<1> QED BY <1>3, <1>4, <1>5, <1>6

\* A suggestion is no promise of an issue; handling starts without one.
LEMMA SuggestedStep == ASSUME IInv, NEW w \in Workers, Suggested(w) PROVE IInv'
<1>1. PICK place \in {"reset", "suggGet", "find"}, status \in {"open", "proposed", "auto"} :
        /\ work' = [work EXCEPT ![w].auto = FALSE, ![w].at = place, ![w].status = status]
        /\ place = "suggGet" => status = "proposed"
  <2>1. PICK level \in {"manual", "propose", "auto"} :
          work' = [work EXCEPT ![w].auto = FALSE,
              ![w].at = CASE level = "manual" -> "reset"
                          [] level = "propose" -> "suggGet"
                          [] level = "auto" -> "find",
              ![w].status = CASE level = "manual" -> "open"
                              [] level = "propose" -> "proposed"
                              [] level = "auto" -> "auto"]
    BY DEF Suggested, Levels
  <2>2. CASE level = "manual"
    BY <2>1, <2>2
  <2>3. CASE level = "propose"
    BY <2>1, <2>3
  <2>4. CASE level = "auto"
    BY <2>1, <2>4
  <2> QED BY <2>2, <2>3, <2>4
<1> DEFINE q == [work[w] EXCEPT !.auto = FALSE, !.at = place, !.status = status]
<1>2. work[w] \in Worker /\ WorkInv(work[w])
  BY DEF IInv, TypeOK
<1>3. q \in Worker
  BY <1>2 DEF Worker, Places, Status, Handled
<1>4. WorkInv(q)
  BY <1>1, <1>2 DEF WorkInv, Good, Handled, Worker
<1>5. work' = [work EXCEPT ![w] = q]
  BY <1>1
<1>6. UNCHANGED <<item, issues, replies, mails, autoOn, env, misreads, crashes, job>>
  BY DEF Suggested, case, org, faults
<1> QED BY <1>3, <1>4, <1>5, <1>6, ItemGood, OnlyMoves

\* What a lookup makes of the worker: an issue of the house is found, or one is
\* going to be made in it.
Finds(w, h, n) ==
    [work[w] EXCEPT !.at = "workflow", !.row = Open, !.issue = <<h, n>>]
Lacks(w, h) == [work[w] EXCEPT !.at = "create", !.row = Open, !.house = h]

LEMMA FindShape ==
  ASSUME IInv, NEW w \in Workers, Find(w) \/ FindMisreads(w)
  PROVE  /\ UNCHANGED <<item, issues, replies, mails, autoOn, env, crashes, job>>
         /\ misreads' \in 0 .. env.misreads /\ misreads' >= misreads
         /\ work[w].at = "find"
         /\ \E h \in Houses :
               \/ \E n \in 1 .. issues[h] :
                     /\ Finds(w, h, n) \in Worker /\ Exists(<<h, n>>)
                     /\ work' = [work EXCEPT ![w] = Finds(w, h, n)]
               \/ /\ Lacks(w, h) \in Worker
                  /\ work' = [work EXCEPT ![w] = Lacks(w, h)]
                  /\ issues[h] = 0 \/ misreads' = misreads + 1
<1>1. /\ work[w] \in Worker /\ Open \in Item /\ issues \in [Houses -> 0 .. MaxIssues]
      /\ MaxIssues \in Nat /\ env.houses \subseteq Houses
      /\ env.misreads \in Nat /\ misreads \in 0 .. env.misreads
  BY InboxAssumption DEF IInv, TypeOK, Open, Item, Status, Environment
<1>2. UNCHANGED <<item, issues, replies, mails, autoOn, env, crashes, job>> /\ work[w].at = "find"
  BY DEF Find, FindMisreads, case, org, faults
<1>3. misreads' \in 0 .. env.misreads /\ misreads' >= misreads
      /\ (FindMisreads(w) => misreads' = misreads + 1)
  <2>1. CASE Find(w)
    BY <1>1, <2>1 DEF Find, FindMisreads, faults
  <2>2. CASE FindMisreads(w)
    BY <1>1, <2>2 DEF FindMisreads
  <2> QED BY <2>1, <2>2
<1>4. ASSUME NEW h \in Houses PROVE Lacks(w, h) \in Worker
  BY <1>1 DEF Lacks, Worker, Places
<1>5. CASE Find(w)
  <2>1. PICK h \in env.houses :
          IF Found(w, h)
          THEN \E n \in 1 .. issues[h] :
                  work' = [work EXCEPT ![w].at = "workflow", ![w].row = Open,
                                       ![w].issue = <<h, n>>]
          ELSE work' = [work EXCEPT ![w].at = "create", ![w].row = Open, ![w].house = h]
    BY <1>5 DEF Find
  <2>2. h \in Houses /\ issues[h] \in 0 .. MaxIssues
    BY <1>1, <2>1
  <2>3. CASE Found(w, h)
    <3>1. PICK n \in 1 .. issues[h] :
            work' = [work EXCEPT ![w].at = "workflow", ![w].row = Open, ![w].issue = <<h, n>>]
      BY <2>1, <2>3
    <3>2. n \in 1 .. MaxIssues /\ n <= issues[h]
      BY <1>1, <2>2
    <3>3. <<h, n>> \in Issues /\ Exists(<<h, n>>)
      BY <2>2, <3>2 DEF Issues, Exists
    <3>4. Finds(w, h, n) \in Worker
      BY <1>1, <3>3 DEF Finds, Worker, Places
    <3> QED BY <1>2, <1>3, <2>2, <3>1, <3>3, <3>4 DEF Finds
  <2>4. CASE ~Found(w, h)
    <3>1. work' = [work EXCEPT ![w] = Lacks(w, h)]
      BY <2>1, <2>4 DEF Lacks
    <3>2. issues[h] = 0
      BY <2>2, <2>4, <1>1 DEF Found
    <3> QED BY <1>2, <1>3, <1>4, <2>2, <3>1, <3>2
  <2> QED BY <2>3, <2>4
<1>6. CASE FindMisreads(w)
  <2>1. PICK h \in env.houses :
          work' = [work EXCEPT ![w].at = "create", ![w].row = Open, ![w].house = h]
    BY <1>6 DEF FindMisreads
  <2>2. h \in Houses /\ work' = [work EXCEPT ![w] = Lacks(w, h)]
    BY <1>1, <2>1 DEF Lacks
  <2> QED BY <1>2, <1>3, <1>4, <1>6, <2>2
<1> QED BY <1>5, <1>6

LEMMA FindStep == ASSUME IInv, NEW w \in Workers, Find(w) \/ FindMisreads(w) PROVE IInv'
<1>1. /\ UNCHANGED <<item, issues, replies, mails, autoOn, env, crashes, job>>
      /\ misreads' \in 0 .. env.misreads
  BY FindShape
<1>2. PICK q \in Worker : work' = [work EXCEPT ![w] = q] /\ WorkInv(q)
  <2>1. PICK h \in Houses :
               \/ \E n \in 1 .. issues[h] :
                     /\ Finds(w, h, n) \in Worker /\ Exists(<<h, n>>)
                     /\ work' = [work EXCEPT ![w] = Finds(w, h, n)]
               \/ /\ Lacks(w, h) \in Worker
                  /\ work' = [work EXCEPT ![w] = Lacks(w, h)]
    BY FindShape
  <2>2. work[w] \in Worker /\ Good(work[w].doc.status) /\ Good(Open.status)
        /\ issues[h] \in Nat
    BY DocumentsGood, InboxAssumption DEF IInv, TypeOK, Good, Open, Handled
  <2>3. ASSUME NEW n \in 1 .. issues[h], Exists(<<h, n>>) PROVE WorkInv(Finds(w, h, n))
    <3>1. Finds(w, h, n).at = "workflow" /\ Finds(w, h, n).issue = <<h, n>>
          /\ Finds(w, h, n).row = Open /\ Finds(w, h, n).doc = work[w].doc
      BY <2>2 DEF Finds, Worker
    <3>2. Made
      BY <2>2 DEF Made
    <3> QED BY <2>2, <2>3, <3>1, <3>2 DEF WorkInv
  <2>4. WorkInv(Lacks(w, h))
    <3>1. Lacks(w, h).at = "create" /\ Lacks(w, h).house = h
          /\ Lacks(w, h).row = Open /\ Lacks(w, h).doc = work[w].doc
      BY <2>2 DEF Lacks, Worker
    <3> QED BY <2>2, <3>1 DEF WorkInv
  <2> QED BY <2>1, <2>3, <2>4
<1>3. /\ issues' \in [Houses -> 0 .. MaxIssues] /\ \A h \in Houses : issues'[h] >= issues[h]
      /\ replies' \in [Issues -> Nat] /\ mails' \in [Issues -> Nat] /\ autoOn' \in BOOLEAN
      /\ item' \in Item /\ job' \in JobTypes
  BY <1>1, ItemGood, InboxAssumption DEF IInv, TypeOK
<1>4. Good(item.status)' /\ WorkInv(q)'
  BY <1>1, <1>2, ItemGood DEF WorkInv, Good, Made, Exists
<1> QED BY <1>1, <1>2, <1>3, <1>4, WorkerMoves DEF JobTypes

\* A new issue keeps every promise made before it.
Creates(w, n) ==
    [work[w] EXCEPT !.at = "reply", !.house = None, !.issue = <<work[w].house, n>>]

LEMMA CreateShape ==
  ASSUME IInv, NEW w \in Workers, CreateIssue(w)
  PROVE  \E h \in Houses, n \in 1 .. MaxIssues :
            /\ h = work[w].house /\ work[w].at = "create" /\ n = issues[h] + 1
            /\ issues' = [issues EXCEPT ![h] = n]
            /\ issues' \in [Houses -> 0 .. MaxIssues]
            /\ \A g \in Houses : issues'[g] >= issues[g]
            /\ <<h, n>> \in Issues
            /\ Creates(w, n) \in Worker /\ Creates(w, n).issue = <<h, n>>
            /\ work' = [work EXCEPT ![w] = Creates(w, n)]
            /\ UNCHANGED <<item, replies, mails, autoOn, env, misreads, crashes, job>>
<1>1. /\ work[w] \in Worker /\ WorkInv(work[w]) /\ issues \in [Houses -> 0 .. MaxIssues]
      /\ MaxIssues \in Nat /\ None \in Houses \cup {None}
  BY InboxAssumption DEF IInv, TypeOK
<1>2. PICK h \in Houses : h = work[w].house
  BY <1>1 DEF CreateIssue, WorkInv
<1>3. issues[h] \in Nat /\ issues[h] < MaxIssues /\ work[w].at = "create"
  BY <1>1, <1>2 DEF CreateIssue
<1>4. PICK n \in 1 .. MaxIssues : n = issues[h] + 1
  BY <1>1, <1>3
<1>5. issues' = [issues EXCEPT ![h] = n]
  BY <1>2, <1>4 DEF CreateIssue
<1>6. issues' \in [Houses -> 0 .. MaxIssues] /\ \A g \in Houses : issues'[g] >= issues[g]
  BY <1>1, <1>3, <1>4, <1>5
<1>7. <<h, n>> \in Issues
  BY DEF Issues
<1>8. Creates(w, n) \in Worker /\ Creates(w, n).issue = <<h, n>>
  BY <1>1, <1>2, <1>7 DEF Creates, Worker, Places
<1>9. work' = [work EXCEPT ![w] = Creates(w, n)]
  BY <1>2, <1>4 DEF CreateIssue, Creates
<1>10. UNCHANGED <<item, replies, mails, autoOn, env, misreads, crashes, job>>
  BY DEF CreateIssue, org, faults
<1> QED BY <1>2, <1>3, <1>4, <1>5, <1>6, <1>7, <1>8, <1>9, <1>10

LEMMA CreateStep == ASSUME IInv, NEW w \in Workers, CreateIssue(w) PROVE IInv'
<1>1. PICK h \in Houses, n \in 1 .. MaxIssues :
            /\ n = issues[h] + 1
            /\ issues' = [issues EXCEPT ![h] = n]
            /\ issues' \in [Houses -> 0 .. MaxIssues]
            /\ \A g \in Houses : issues'[g] >= issues[g]
            /\ <<h, n>> \in Issues
            /\ Creates(w, n) \in Worker /\ Creates(w, n).issue = <<h, n>>
            /\ work' = [work EXCEPT ![w] = Creates(w, n)]
            /\ UNCHANGED <<item, replies, mails, autoOn, env, misreads, crashes, job>>
  BY CreateShape
<1>2. issues \in [Houses -> Nat] /\ issues'[h] = n /\ n > 0
  BY <1>1, InboxAssumption DEF IInv, TypeOK
<1>3. Made'
  BY <1>1, <1>2 DEF Made
<1>4. Exists(<<h, n>>)'
  BY <1>1, <1>2 DEF Exists
<1>5. Creates(w, n).at = "reply"
  BY DEF Creates, IInv, TypeOK, Worker
<1>7. Good(item.status)' /\ item' \in Item /\ job' \in JobTypes /\ autoOn' \in BOOLEAN
      /\ replies' \in [Issues -> Nat] /\ mails' \in [Issues -> Nat]
      /\ misreads' \in 0 .. env.misreads
  BY <1>1, <1>3, ItemGood DEF Good, IInv, TypeOK
<1>8. PICK q \in Worker : q = Creates(w, n) /\ work' = [work EXCEPT ![w] = q]
  BY <1>1
<1>9. WorkInv(q)'
  BY <1>1, <1>3, <1>4, <1>5, <1>8 DEF WorkInv, Good, Exists
<1> QED BY <1>1, <1>7, <1>8, <1>9, WorkerMoves DEF JobTypes

\* The reply and the mail come after the issue.
LEMMA ReplyStep == ASSUME IInv, NEW w \in Workers, AddReply(w) \/ SendMail(w) PROVE IInv'
<1>1. PICK place \in {"mail", "handleGet"} : Go(w, place)
  BY DEF AddReply, SendMail
<1>2. place \in Places /\ (place = "mail" => AddReply(w))
  BY <1>1 DEF Places, AddReply, SendMail, Go, IInv, TypeOK, Worker
<1>3. /\ Made /\ issues \in [Houses -> 0 .. MaxIssues] /\ \A h \in Houses : issues[h] >= issues[h]
      /\ work[w].issue \in Issues /\ Exists(work[w].issue)
  BY InboxAssumption DEF AddReply, SendMail, IInv, TypeOK, WorkInv, Exists
<1>4. PICK q \in Worker : q = Gone(w, place) /\ work' = [work EXCEPT ![w] = q]
  BY <1>1, <1>2, GoMoves
<1>5. replies' \in [Issues -> Nat] /\ mails' \in [Issues -> Nat]
  <2>0. replies \in [Issues -> Nat] /\ mails \in [Issues -> Nat]
    BY DEF IInv, TypeOK
  <2>1. CASE AddReply(w)
    <3>1. mails' = mails
          /\ \/ replies' = replies
             \/ replies' = [replies EXCEPT ![work[w].issue] = replies[work[w].issue] + 1]
      BY <2>1 DEF AddReply
    <3> QED BY <1>3, <2>0, <3>1
  <2>2. CASE SendMail(w)
    <3>1. replies' = replies
          /\ \/ mails' = mails
             \/ mails' = [mails EXCEPT ![work[w].issue] = mails[work[w].issue] + 1]
      BY <2>2 DEF SendMail
    <3> QED BY <1>3, <2>0, <3>1
  <2> QED BY <2>1, <2>2
<1>6. UNCHANGED <<item, issues, autoOn, env, misreads, crashes, job>>
  BY <1>1 DEF AddReply, SendMail, Go, org, faults
<1>7. Good(item.status)' /\ item' \in Item /\ job' \in JobTypes /\ autoOn' \in BOOLEAN
      /\ misreads' \in 0 .. env.misreads
  BY <1>6, ItemGood DEF Good, Made, IInv, TypeOK
<1>8. (\A h \in Houses : issues'[h] >= issues[h]) /\ issues' \in [Houses -> 0 .. MaxIssues]
  BY <1>3, <1>6
<1>9. WorkInv(q)'
  <2>1. q.row = work[w].row /\ q.doc = Open /\ q.at = place /\ q.issue = work[w].issue
    BY <1>4 DEF Gone, IInv, TypeOK, Worker
  <2>2. WorkInv(work[w])
    BY DEF IInv
  <2> QED BY <1>3, <1>6, <2>1, <2>2 DEF WorkInv, Good, Made, Exists, Open, Handled
<1> QED BY <1>4, <1>5, <1>6, <1>7, <1>8, <1>9, WorkerMoves DEF JobTypes

\* The settings of the organisation say nothing of the item.
LEMMA CountPutStep == ASSUME IInv, NEW w \in Workers, CountPut(w) PROVE IInv'
<1>1. job' \in JobTypes /\ \E q \in Worker : work' = [work EXCEPT ![w] = q] /\ WorkInv(q)
  BY LastMoves DEF CountPut
<1>2. PICK q \in Worker : work' = [work EXCEPT ![w] = q] /\ WorkInv(q)
  BY <1>1
<1>3. UNCHANGED <<item, issues, replies, mails, env, misreads, crashes>>
  BY DEF CountPut, case, faults
<1>4. autoOn' \in BOOLEAN
  <2>1. work[w].auto \in BOOLEAN
    BY DEF IInv, TypeOK, Worker
  <2> QED BY <2>1 DEF CountPut
<1>5. /\ WorkInv(q)' /\ Good(item.status)' /\ issues' \in [Houses -> 0 .. MaxIssues]
      /\ \A h \in Houses : issues'[h] >= issues[h]
  <2>1. issues \in [Houses -> 0 .. MaxIssues] /\ \A h \in Houses : issues[h] >= issues[h]
    BY InboxAssumption DEF IInv, TypeOK
  <2> QED BY <1>2, <1>3, <2>1, ItemGood DEF WorkInv, Good, Made, Exists
<1>6. /\ item' \in Item /\ replies' \in [Issues -> Nat] /\ mails' \in [Issues -> Nat]
      /\ misreads' \in 0 .. env.misreads
  BY <1>3 DEF IInv, TypeOK
<1> QED BY <1>1, <1>2, <1>3, <1>4, <1>5, <1>6, WorkerMoves DEF JobTypes

\* What was written before a failure stays.
LEMMA EndStep == ASSUME IInv, NEW w \in Workers, End(w) \/ Fails(w) PROVE IInv'
<1>1. Finish(w) /\ UNCHANGED <<item, issues, replies, mails, autoOn, env, misreads, crashes>>
  BY DEF End, Fails, case, org, faults
<1>2. job' \in JobTypes
  BY <1>1, JobType DEF Finish
<1> QED BY <1>1, <1>2, IdleGood, ItemGood, OnlyMoves DEF Finish
-------------------------------------------------------------------------------
(* Requests, crashes, the initial states.                                   *)

\* A request reads the item; a cancellation ends the context of another worker.
LEMMA RequestStep ==
  ASSUME IInv, NEW w \in Workers, NEW kind \in Actions, Request(w, kind)
  PROVE  IInv'
<1> DEFINE q == [Starts(w, kind) EXCEPT !.at = FirstPlace(kind)]
<1>1. UNCHANGED <<item, issues, replies, mails, autoOn, env, misreads, crashes>>
  BY DEF Request, case, org, faults
<1>2. q \in Worker
  <2>1. Idle \in Worker /\ item \in Item
    BY IdleGood, ItemGood
  <2>2. FirstPlace(kind) \in Places
    BY DEF FirstPlace, Places, Actions
  <2>3. (CASE kind = "approve" -> "approved"
           [] kind = "edit" -> "edited"
           [] kind = "reject" -> "rejected"
           [] kind = "template" -> item.status
           [] OTHER -> "open") \in Status
    BY <2>1 DEF Status, Handled, Item, Actions
  <2> HIDE DEF Status
  <2> QED BY <2>1, <2>2, <2>3 DEF Starts, Worker
<1>3. WorkInv(q)
  <2>1. q.row = item /\ q.doc = Open /\ q.at = FirstPlace(kind) /\ q.kind = kind
    BY DEF Starts, Idle
  <2>2. q.at \in {"find", "suggGet", "assignGet", "restore", "reset", "countGet"}
        /\ (q.at = "suggGet" => kind \in {"edit", "template"})
    BY <2>1 DEF FirstPlace, Actions
  <2>3. kind = "template" => q.status = item.status
    BY DEF Starts, Idle
  <2> QED BY <2>1, <2>2, <2>3, ItemGood DEF WorkInv, Good, Open, Handled
<1>4. work \in [Workers -> Worker]
  BY DEF IInv, TypeOK
<1>5. ASSUME NEW v \in Workers PROVE work'[v] \in Worker /\ WorkInv(work'[v])
  <2>1. CASE v = w
    BY <1>2, <1>3, <2>1 DEF Request
  <2>2. CASE v # w
    <3>1. work'[v] = work[v] \/ work'[v] = [work[v] EXCEPT !.alive = FALSE]
      BY <2>2 DEF Request
    <3>2. work[v] \in Worker /\ WorkInv(work[v])
      BY DEF IInv, TypeOK
    <3> QED BY <3>1, <3>2 DEF Worker, WorkInv
  <2> QED BY <2>1, <2>2
<1>6. work' \in [Workers -> Worker]
  BY <1>5 DEF Request
<1>7. job' \in JobTypes
  <2>1. job' \in {[who |-> w, state |-> "running"], [job EXCEPT !.state = "cancelled"], job}
    BY DEF Request, Actions
  <2> QED BY <2>1, ItemGood DEF JobTypes
<1>8. TypeOK' /\ HandledHasIssue'
  BY <1>1, <1>6, <1>7 DEF IInv, TypeOK, HandledHasIssue, Made, JobTypes
<1>9. \A v \in Workers : WorkInv(work[v])'
  BY <1>1, <1>5 DEF WorkInv, Good, Made, Exists
<1> QED BY <1>8, <1>9 DEF IInv

LEMMA CrashStep == ASSUME IInv, Crash PROVE IInv'
<1>1. UNCHANGED <<item, issues, replies, mails, autoOn, env, misreads>>
  BY DEF Crash, case, org, faults
<1>2. crashes' \in 0 .. Crashes
  BY InboxAssumption DEF Crash, IInv, TypeOK
<1>3. work' \in [Workers -> Worker] /\ \A v \in Workers : work'[v] = Idle
  BY IdleGood DEF Crash
<1>4. job' \in JobTypes
  BY DEF Crash, JobTypes
<1>5. TypeOK' /\ HandledHasIssue'
  BY <1>1, <1>2, <1>3, <1>4 DEF IInv, TypeOK, HandledHasIssue, Made, JobTypes
<1>6. \A v \in Workers : WorkInv(work[v])'
  BY <1>1, <1>3, IdleGood DEF WorkInv, Good, Made, Exists
<1> QED BY <1>5, <1>6 DEF IInv

LEMMA InitInv == Init => IInv
<1> SUFFICES ASSUME Init PROVE IInv
  OBVIOUS
<1>1. Intake \in Worker /\ WorkInv(Intake)
  BY IdleGood DEF Intake, Idle, Worker, Places, WorkInv, Good, Open, Handled
<1>2. work \in [Workers -> Worker] /\ \A w \in Workers : WorkInv(work[w])
  BY <1>1, IdleGood DEF Init
<1>3. Open \in Item /\ HandledHasIssue
  BY InboxAssumption DEF Init, Open, Item, Status, HandledHasIssue, Handled
<1>4. /\ issues \in [Houses -> 0 .. MaxIssues] /\ crashes \in 0 .. Crashes
      /\ misreads \in 0 .. env.misreads
  BY InboxAssumption DEF Init, Environment
<1>5. replies \in [Issues -> Nat] /\ mails \in [Issues -> Nat] /\ autoOn \in BOOLEAN /\ env \in Environments
  BY DEF Init
<1>6. item \in Item /\ job \in JobTypes
  BY <1>3 DEF Init, JobTypes
<1> QED BY <1>2, <1>3, <1>4, <1>5, <1>6 DEF IInv, TypeOK, JobTypes

LEMMA NextInv == IInv /\ [Next]_vars => IInv'
<1> SUFFICES ASSUME IInv, [Next]_vars PROVE IInv'
  OBVIOUS
<1>1. ASSUME NEW w \in Workers, Step(w) PROVE IInv'
  BY <1>1, ReadsStep, AssignsStep, ResetStep, SuggPutStep, HandlePutStep, LearnsStep,
     SuggestedStep, FindStep, CreateStep, ReplyStep, CountPutStep, EndStep DEF Step
<1>2. ASSUME NEW w \in Workers, NEW kind \in Actions, Request(w, kind) PROVE IInv'
  BY <1>2, RequestStep
<1>3. CASE UNCHANGED vars
  BY <1>3 DEF vars, IInv, TypeOK, HandledHasIssue, Made, Exists, WorkInv, Good
<1> QED BY <1>1, <1>2, <1>3, CrashStep DEF Next
-------------------------------------------------------------------------------
(* Which workers can meet.                                                  *)

\* A worker and the places its request leads to.
Placed(q) ==
    /\ q.at = "idle" => q = Idle
    /\ q.at = "end" => q.kind = "job"
    /\ q.at = "restore" => q.kind = "restore"
    /\ q.kind \in {"suggest", "cancel"} => q.at = "reset"
    /\ q.kind = "settings" => q.at \in {"countGet", "countPut"}
    /\ q.kind = "assign" => q.at \in {"assignGet", "assignPut", "resetGet", "reset"}

\* The slot of a running job is its goroutine's.
JobIs(w) == job.who = w /\ job.state = "running"

SlotInv ==
    /\ \A w \in Workers : Placed(work[w])
    /\ job.state = "running" => /\ job.who \in Workers
                                /\ work[job.who].kind \in {"suggest", "job"}

\* Requests that do not overlap meet only jobs and the item's own triage, and a
\* job that is not the one in the slot can write no more.
Background == {"job", "triage"}
OneRequest ==
    \A v, w \in Workers :
        v # w /\ Busy(v) /\ Busy(w) =>
            work[v].kind \in Background \/ work[w].kind \in Background
OneInv ==
    ~env.overlap =>
        /\ OneRequest
        /\ \A w \in Workers : work[w].kind = "suggest" \/ (work[w].kind = "job" /\ work[w].alive)
              => JobIs(w)

\* The ways a worker steps: it ends, goes on, or a request for a suggestion
\* becomes the job.
Continues(w) ==
    \E q \in Worker :
        /\ work' = [work EXCEPT ![w] = q] /\ UNCHANGED job
        /\ q.kind = work[w].kind /\ q.at # "idle" /\ Placed(q)
        /\ q.alive => work[w].alive
        /\ work[w].at = "end" => q.at = "end"

TurnsJob(w) ==
    \E q \in Worker :
        /\ work' = [work EXCEPT ![w] = q] /\ UNCHANGED job
        /\ work[w].kind = "suggest" /\ item' = Emptied(work[w].row)
        /\ q.alive => work[w].alive
        /\ q.kind = "job" /\ q.at = "policy" /\ q.doc = Open

LEMMA GoContinues ==
  ASSUME IInv, SlotInv, NEW w \in Workers, NEW place \in Places, Go(w, place),
         place # "idle", work[w].at # "end", Placed(Gone(w, place))
  PROVE  Continues(w)
<1>1. work[w] \in Worker
  BY DEF IInv, TypeOK
<1>2. Gone(w, place).kind = work[w].kind /\ Gone(w, place).at = place
      /\ Gone(w, place).alive = work[w].alive
  BY <1>1 DEF Gone, Worker
<1> HIDE DEF Gone
<1> QED BY <1>2, GoMoves DEF Continues, Go

LEMMA GetContinues ==
  ASSUME IInv, SlotInv, NEW w \in Workers, NEW place \in Places, Get(w, place),
         place # "idle", work[w].at # "end", Placed(Got(w, place))
  PROVE  Continues(w)
<1>1. work[w] \in Worker
  BY DEF IInv, TypeOK
<1>2. Got(w, place).kind = work[w].kind /\ Got(w, place).at = place
      /\ Got(w, place).alive = work[w].alive
  BY <1>1 DEF Got, Worker
<1> HIDE DEF Got
<1> QED BY <1>2, GetMoves DEF Continues, Get

LEMMA LastShape ==
  ASSUME IInv, SlotInv, NEW w \in Workers, Last(w), work[w].at # "end"
  PROVE  Finish(w) \/ (work[w].kind = "job" /\ Continues(w) /\ work'[w].at = "end")
<1>1. work[w] \in Worker /\ work \in [Workers -> Worker]
  BY DEF IInv, TypeOK
<1>2. CASE work[w].kind = "job"
  <2>1. Go(w, "end") /\ "end" \in Places
    BY <1>2 DEF Last, Places
  <2>2. Placed(Gone(w, "end"))
    BY <1>1, <1>2 DEF Placed, Gone, Worker
  <2>3. work'[w].at = "end"
    BY <1>1, <2>1 DEF Go, Worker
  <2> QED BY <1>2, <2>1, <2>2, <2>3, GoContinues
<1>3. CASE work[w].kind # "job"
  BY <1>3 DEF Last
<1> QED BY <1>2, <1>3

LEMMA StepShape ==
  ASSUME IInv, SlotInv, NEW w \in Workers, Step(w)
  PROVE  Finish(w) \/ Continues(w) \/ TurnsJob(w)
<1>1. work[w] \in Worker /\ work \in [Workers -> Worker] /\ Placed(work[w]) /\ Open \in Item
      /\ autoOn \in BOOLEAN
  BY InboxAssumption DEF IInv, TypeOK, SlotInv, Open, Item, Status
<1>2. ASSUME NEW place \in {"resetGet", "countGet", "find", "mail", "handleGet"}, Go(w, place),
             work[w].at \in {"assignPut", "restore", "suggPut", "reply", "mail", "handlePut"},
             work[w].at = "assignPut" <=> place = "resetGet"
      PROVE  Continues(w)
  <2>1. Placed(Gone(w, place))
    BY <1>1, <1>2 DEF Placed, Gone, Worker
  <2> QED BY <1>2, <2>1, GoContinues DEF Places
<1>3. CASE AssignGet(w) \/ ResetGet(w) \/ SuggGet(w) \/ HandleGet(w)
  <2>1. PICK place \in {"assignPut", "reset", "suggPut", "handlePut"} :
          /\ Get(w, place)
          /\ place = "assignPut" <=> work[w].at = "assignGet"
          /\ place = "reset" <=> work[w].at = "resetGet"
          /\ work[w].at \in {"assignGet", "resetGet", "suggGet", "handleGet"}
    BY <1>3 DEF AssignGet, ResetGet, SuggGet, HandleGet
  <2>2. Placed(Got(w, place))
    BY <1>1, <2>1 DEF Placed, Got, Worker
  <2> QED BY <2>1, <2>2, GetContinues DEF Places
<1>4. CASE AssignPut(w) \/ Restore(w) \/ AddReply(w) \/ SendMail(w) \/ HandlePut(w)
  BY <1>2, <1>4 DEF AssignPut, Restore, AddReply, SendMail, HandlePut
<1>5. CASE ResetItem(w)
  <2>1. CASE work[w].kind = "suggest"
    <3> DEFINE q == [Idle EXCEPT !.at = "policy", !.kind = "job",
                                 !.row = Emptied(work[w].row), !.alive = work[w].alive]
    <3>1. q \in Worker
      BY IdleGood, DocumentsGood, EmptiedGood DEF Worker, Places
    <3>2. q.kind = "job" /\ q.at = "policy" /\ q.doc = Open /\ q.alive = work[w].alive
      BY DEF Idle
    <3>3. work' = [work EXCEPT ![w] = q] /\ UNCHANGED job /\ item' = Emptied(work[w].row)
      BY <1>5, <2>1 DEF ResetItem, Put
    <3> HIDE DEF q
    <3> QED BY <2>1, <3>1, <3>2, <3>3 DEF TurnsJob
  <2>2. CASE work[w].kind # "suggest"
    BY <1>5, <2>2, LastShape DEF ResetItem
  <2> QED BY <2>1, <2>2
<1>6. CASE SuggPut(w)
  <2>1. CASE work[w].kind = "edit"
    BY <1>2, <1>6, <2>1 DEF SuggPut
  <2>2. CASE work[w].kind # "edit"
    BY <1>6, <2>2, LastShape DEF SuggPut
  <2> QED BY <2>1, <2>2
<1>7. CASE CountPut(w)
  BY <1>7, LastShape DEF CountPut
<1>8. CASE End(w) \/ Fails(w)
  BY <1>8 DEF End, Fails
<1>9. ASSUME NEW q \in Worker, work' = [work EXCEPT ![w] = q], UNCHANGED job,
             q.kind = work[w].kind, q.alive => work[w].alive, work[w].at # "end",
             q.at \in {"suggesting", "countPut", "reply", "reset", "suggGet", "find", "workflow", "create"},
             work[w].at \in {"policy", "suggesting", "countGet", "workflow", "find", "create"},
             q.at = "countPut" <=> work[w].at = "countGet"
      PROVE  Continues(w)
  <2>1. Placed(q)
    BY <1>1, <1>9 DEF Placed
  <2> QED BY <1>9, <2>1 DEF Continues
<1>10. CASE ReadPolicy(w)
  <2> DEFINE q == [work[w] EXCEPT !.at = "suggesting", !.auto = autoOn]
  <2>1. q \in Worker /\ q.kind = work[w].kind /\ q.alive = work[w].alive /\ q.at = "suggesting"
    BY <1>1 DEF Worker, Places
  <2>2. work' = [work EXCEPT ![w] = q] /\ UNCHANGED job /\ work[w].at = "policy"
    BY <1>10 DEF ReadPolicy
  <2> QED BY <1>9, <2>1, <2>2
<1>11. CASE CountGet(w)
  <2> DEFINE q == [work[w] EXCEPT !.at = "countPut", !.auto = autoOn]
  <2>1. q \in Worker /\ q.kind = work[w].kind /\ q.alive = work[w].alive /\ q.at = "countPut"
    BY <1>1 DEF Worker, Places
  <2>2. work' = [work EXCEPT ![w] = q] /\ UNCHANGED job /\ work[w].at = "countGet"
    BY <1>11 DEF CountGet
  <2> QED BY <1>9, <2>1, <2>2
<1>12. CASE UpdateWorkflow(w)
  <2> DEFINE q == [work[w] EXCEPT !.at = "reply", !.replied = replies[work[w].issue] > 0]
  <2>1. q \in Worker /\ q.kind = work[w].kind /\ q.alive = work[w].alive /\ q.at = "reply"
    <3>1. (replies[work[w].issue] > 0) \in BOOLEAN
      OBVIOUS
    <3> QED BY <1>1, <3>1 DEF Worker, Places
  <2>2. work' = [work EXCEPT ![w] = q] /\ UNCHANGED job /\ work[w].at = "workflow"
    BY <1>12 DEF UpdateWorkflow
  <2> QED BY <1>9, <2>1, <2>2
<1>13. CASE Suggested(w)
  <2>1. PICK place \in {"reset", "suggGet", "find"}, status \in {"open", "proposed", "auto"} :
          work' = [work EXCEPT ![w].auto = FALSE, ![w].at = place, ![w].status = status]
    <3>1. PICK level \in {"manual", "propose", "auto"} :
          work' = [work EXCEPT ![w].auto = FALSE,
              ![w].at = CASE level = "manual" -> "reset"
                          [] level = "propose" -> "suggGet"
                          [] level = "auto" -> "find",
              ![w].status = CASE level = "manual" -> "open"
                              [] level = "propose" -> "proposed"
                              [] level = "auto" -> "auto"]
      BY <1>13 DEF Suggested, Levels
    <3>2. CASE level = "manual"
      BY <3>1, <3>2
    <3>3. CASE level = "propose"
      BY <3>1, <3>3
    <3>4. CASE level = "auto"
      BY <3>1, <3>4
    <3> QED BY <3>2, <3>3, <3>4
  <2> DEFINE q == [work[w] EXCEPT !.auto = FALSE, !.at = place, !.status = status]
  <2>2. q \in Worker /\ q.kind = work[w].kind /\ q.alive = work[w].alive /\ q.at = place
    <3>1. place \in Places /\ status \in Status
      BY DEF Places, Status, Handled
    <3> QED BY <1>1, <3>1 DEF Worker
  <2>3. work' = [work EXCEPT ![w] = q]
    BY <2>1
  <2>4. UNCHANGED job /\ work[w].at = "suggesting"
    BY <1>13 DEF Suggested
  <2> QED BY <1>9, <2>2, <2>3, <2>4
<1>14. CASE Find(w) \/ FindMisreads(w)
  <2>1. PICK q \in Worker :
          /\ work' = [work EXCEPT ![w] = q] /\ UNCHANGED job /\ work[w].at = "find"
          /\ q.kind = work[w].kind /\ q.alive = work[w].alive
          /\ q.at \in {"workflow", "create"}
    <3>1. ASSUME NEW h \in Houses, NEW n \in 1 .. issues[h]
          PROVE  /\ Finds(w, h, n).kind = work[w].kind /\ Finds(w, h, n).alive = work[w].alive
                 /\ Finds(w, h, n).at = "workflow"
      BY <1>1 DEF Finds, Worker
    <3>2. ASSUME NEW h \in Houses
          PROVE  /\ Lacks(w, h).kind = work[w].kind /\ Lacks(w, h).alive = work[w].alive
                 /\ Lacks(w, h).at = "create"
      BY <1>1 DEF Lacks, Worker
    <3> QED BY <1>14, <3>1, <3>2, FindShape
  <2> QED BY <1>9, <2>1
<1>15. CASE CreateIssue(w)
  <2>1. PICK n \in 1 .. MaxIssues :
          /\ Creates(w, n) \in Worker /\ work' = [work EXCEPT ![w] = Creates(w, n)]
          /\ UNCHANGED job /\ work[w].at = "create"
    BY <1>15, CreateShape
  <2>2. /\ Creates(w, n).kind = work[w].kind /\ Creates(w, n).alive = work[w].alive
        /\ Creates(w, n).at = "reply"
    BY <1>1 DEF Creates, Worker
  <2> QED BY <1>9, <2>1, <2>2
<1>16. CASE Deadline(w)
  <2> DEFINE q == [work[w] EXCEPT !.alive = FALSE]
  <2>1. q \in Worker /\ q.kind = work[w].kind /\ q.alive = FALSE /\ q.at = work[w].at
    BY <1>1 DEF Worker
  <2>2. work' = [work EXCEPT ![w] = q] /\ UNCHANGED job /\ work[w].kind = "job"
    BY <1>16 DEF Deadline
  <2>3. Placed(q) /\ q.at # "idle"
    BY <1>1, <2>1, <2>2 DEF Placed, Idle
  <2> HIDE DEF q
  <2> QED BY <2>1, <2>2, <2>3 DEF Continues
<1> QED BY <1>3, <1>4, <1>5, <1>6, <1>7, <1>8, <1>10, <1>11, <1>12, <1>13, <1>14, <1>15, <1>16
        DEF Step

\* What a step means for the worker that takes it.
LEMMA ShapeFacts ==
  ASSUME IInv, SlotInv, NEW w \in Workers, Step(w)
  PROVE  /\ \A v \in Workers : v # w => work'[v] = work[v]
         /\ Busy(w) /\ Placed(work'[w])
         /\ work'[w].kind # work[w].kind =>
               \/ work'[w] = Idle
               \/ work[w].kind = "suggest" /\ work'[w].kind = "job" /\ UNCHANGED job
         /\ work'[w].kind = "job" /\ work'[w].alive => work[w].alive
         /\ \/ UNCHANGED job /\ work'[w] # Idle /\ work'[w].at # "idle"
            \/ work'[w] = Idle /\ JobEnded(w)
<1>1. work \in [Workers -> Worker] /\ Placed(work[w]) /\ Idle.kind = "none" /\ Idle.at = "idle"
  BY DEF IInv, TypeOK, SlotInv, Idle
<1>2. Busy(w)
  <2>1. Idle.kind # "job"
    BY <1>1
  <2> QED BY <1>1, <2>1 DEF Placed, Busy, Step, ResetItem, AssignGet, AssignPut, ResetGet, Restore,
         ReadPolicy, Suggested, SuggGet, SuggPut, Find, FindMisreads, CreateIssue, UpdateWorkflow,
         AddReply, SendMail, HandleGet, HandlePut, CountGet, CountPut, End, Fails, Deadline
<1>3. CASE Finish(w)
  <2>1. Placed(Idle)
    BY DEF Placed, Idle
  <2> QED BY <1>1, <1>2, <1>3, <2>1 DEF Finish
<1>4. CASE Continues(w)
  BY <1>1, <1>2, <1>4 DEF Continues
<1>5. CASE TurnsJob(w)
  <2>1. PICK q \in Worker :
          /\ work' = [work EXCEPT ![w] = q] /\ UNCHANGED job
          /\ work[w].kind = "suggest" /\ (q.alive => work[w].alive)
          /\ q.kind = "job" /\ q.at = "policy"
    BY <1>5 DEF TurnsJob
  <2>2. Placed(q)
    BY <2>1 DEF Placed
  <2> QED BY <1>1, <1>2, <2>1, <2>2
<1> QED BY <1>3, <1>4, <1>5, StepShape

\* What a request means: a worker that was idle starts.
LEMMA RequestShape ==
  ASSUME IInv, SlotInv, NEW w \in Workers, NEW kind \in Actions, Request(w, kind)
  PROVE  /\ work[w] = Idle /\ kind \in env.kinds
         /\ work'[w].kind = kind /\ work'[w].alive /\ work'[w].doc = Open
         /\ work'[w].at = FirstPlace(kind) /\ Placed(work'[w])
         /\ \A v \in Workers : v # w =>
               \/ work'[v] = work[v] /\ ~(kind = "cancel" /\ JobIs(v))
               \/ /\ kind = "cancel" /\ JobIs(v) /\ Busy(v)
                  /\ work'[v] = [work[v] EXCEPT !.alive = FALSE]
                  /\ Placed(work'[v])
<1>1. work \in [Workers -> Worker] /\ Placed(work[w]) /\ work[w].at = "idle"
  BY DEF IInv, TypeOK, SlotInv, Request, Busy
<1>2. work[w] = Idle /\ kind \in env.kinds
  BY <1>1 DEF Placed, Request
<1>3. work'[w] = [Starts(w, kind) EXCEPT !.at = FirstPlace(kind)]
  BY <1>1 DEF Request
<1>4. work'[w].kind = kind /\ work'[w].alive /\ work'[w].doc = Open /\ work'[w].at = FirstPlace(kind)
  BY <1>3 DEF Starts, Idle
<1>5. Placed(work'[w])
  BY <1>4 DEF Placed, FirstPlace, Actions
<1>6. ASSUME NEW v \in Workers, v # w
      PROVE  \/ work'[v] = work[v] /\ ~(kind = "cancel" /\ JobIs(v))
             \/ /\ kind = "cancel" /\ JobIs(v) /\ Busy(v)
                /\ work'[v] = [work[v] EXCEPT !.alive = FALSE]
                /\ Placed(work'[v])
  <2>1. CASE kind = "cancel" /\ v = job.who
    <3>1. job.state = "running"
      BY <2>1 DEF Request, Admitted, JobRuns
    <3>2. work[v].kind \in {"suggest", "job"} /\ Placed(work[v]) /\ work[v] \in Worker
      BY <1>1, <2>1, <3>1 DEF SlotInv
    <3>3. Busy(v)
      BY <3>2 DEF Placed, Busy, Idle
    <3>4. work'[v] = [work[v] EXCEPT !.alive = FALSE]
      BY <1>1, <1>6, <2>1 DEF Request
    <3>5. work'[v].at = work[v].at /\ work'[v].kind = work[v].kind
      BY <3>2, <3>4 DEF Worker
    <3> QED BY <2>1, <3>1, <3>2, <3>3, <3>4, <3>5 DEF JobIs, Placed, Busy
  <2>2. CASE ~(kind = "cancel" /\ v = job.who)
    BY <1>1, <1>6, <2>2 DEF Request, JobIs
  <2> QED BY <2>1, <2>2
<1> QED BY <1>2, <1>4, <1>5, <1>6

LEMMA SlotStays == IInv /\ SlotInv /\ [Next]_vars => SlotInv'
<1> SUFFICES ASSUME IInv, SlotInv, [Next]_vars PROVE SlotInv'
  OBVIOUS
<1>1. Idle.kind = "none" /\ Placed(Idle) /\ job \in JobTypes
  BY ItemGood DEF Placed, Idle
<1>2. ASSUME NEW w \in Workers, Step(w) PROVE SlotInv'
  BY <1>1, <1>2, ShapeFacts DEF SlotInv, JobEnded, JobTypes
<1>3. ASSUME NEW w \in Workers, NEW kind \in Actions, Request(w, kind) PROVE SlotInv'
  <2>1. \A v \in Workers : Placed(work'[v])
    BY <1>3, RequestShape DEF SlotInv
  <2>2. job'.state = "running" => job'.who \in Workers /\ work'[job'.who].kind \in {"suggest", "job"}
    <3>1. CASE kind = "suggest"
      BY <1>3, <3>1, RequestShape DEF Request
    <3>2. CASE kind = "cancel"
      BY <1>1, <1>3, <3>2 DEF Request, JobTypes
    <3>3. CASE kind \notin {"suggest", "cancel"}
      <4>1. UNCHANGED job /\ \A v \in Workers : v # w => work'[v] = work[v]
        BY <1>3, <3>3, RequestShape DEF Request
      <4>2. work[w].kind = "none"
        BY <1>1, <1>3, RequestShape
      <4> QED BY <4>1, <4>2 DEF SlotInv
    <3> QED BY <3>1, <3>2, <3>3
  <2> QED BY <2>1, <2>2 DEF SlotInv
<1>4. CASE Crash
  BY <1>1, <1>4 DEF Crash, SlotInv
<1>5. CASE UNCHANGED vars
  BY <1>5 DEF vars, SlotInv
<1> QED BY <1>2, <1>3, <1>4, <1>5 DEF Next

LEMMA EnvStays == [Next]_vars => UNCHANGED env
  BY DEF Next, vars, Step, Request, Crash, ResetItem, AssignGet, AssignPut, ResetGet, Restore,
         ReadPolicy, Suggested, SuggGet, SuggPut, Find, FindMisreads, CreateIssue, UpdateWorkflow,
         AddReply, SendMail, HandleGet, HandlePut, CountGet, CountPut, End, Fails, Deadline, org, faults

LEMMA OneStays == IInv /\ SlotInv /\ OneInv /\ [Next]_vars => OneInv'
<1> SUFFICES ASSUME IInv, SlotInv, OneInv, [Next]_vars, ~env.overlap PROVE OneInv'
  BY EnvStays DEF OneInv
<1>1. Idle.kind = "none" /\ Idle.at = "idle" /\ job \in JobTypes /\ work \in [Workers -> Worker]
  BY ItemGood DEF Idle, IInv, TypeOK
<1>2. ASSUME NEW w \in Workers, Step(w) PROVE OneInv'
  <2>1. OneRequest'
    BY <1>1, <1>2, ShapeFacts DEF OneInv, OneRequest, Busy, Background
  <2>2. ASSUME NEW v \in Workers,
               work'[v].kind = "suggest" \/ (work'[v].kind = "job" /\ work'[v].alive)
        PROVE  JobIs(v)'
    <3>1. JobIs(v)
      BY <1>1, <1>2, <2>2, ShapeFacts DEF OneInv
    <3>2. CASE UNCHANGED job
      BY <3>1, <3>2 DEF JobIs
    <3>3. CASE work'[w] = Idle /\ JobEnded(w)
      BY <1>1, <2>2, <3>1, <3>3 DEF JobIs, JobEnded
    <3> QED BY <1>2, <3>2, <3>3, ShapeFacts
  <2> QED BY <2>1, <2>2 DEF OneInv
<1>3. ASSUME NEW w \in Workers, NEW kind \in Actions, Request(w, kind) PROVE OneInv'
  <2>1. ASSUME NEW v \in Workers, v # w
        PROVE  /\ work'[v].kind = work[v].kind /\ (Busy(v)' <=> Busy(v))
               /\ work'[v].alive => work'[v] = work[v] /\ ~(kind = "cancel" /\ JobIs(v))
    <3>1. CASE work'[v] = work[v] /\ ~(kind = "cancel" /\ JobIs(v))
      BY <3>1 DEF Busy
    <3>2. CASE work'[v] = [work[v] EXCEPT !.alive = FALSE]
      BY <1>1, <3>2 DEF Worker, Busy
    <3> QED BY <1>3, <2>1, <3>1, <3>2, RequestShape
  <2>2. ASSUME NEW v \in Workers, Busy(v) PROVE v # w /\ work[v].kind \in Background
    BY <1>1, <1>3, <2>2, RequestShape DEF Request, Busy, Beside, Background
  <2>3. OneRequest'
    BY <2>1, <2>2 DEF OneRequest
  <2>4. ASSUME NEW v \in Workers,
               work'[v].kind = "suggest" \/ (work'[v].kind = "job" /\ work'[v].alive)
        PROVE  JobIs(v)'
    <3>1. CASE v = w
      <4>1. kind = "suggest"
        BY <1>3, <2>4, <3>1, RequestShape DEF Actions
      <4> QED BY <1>3, <3>1, <4>1 DEF Request, JobIs
    <3>2. CASE v # w
      <4>1. work[v].kind = "job" /\ Busy(v)
        <5>1. work[v].kind \in {"suggest", "job"} /\ Placed(work[v])
          BY <2>1, <2>4, <3>2 DEF SlotInv
        <5> QED BY <2>2, <5>1, <1>1 DEF Placed, Busy, Background
      <4>2. work'[v] = work[v] /\ kind # "cancel" /\ JobIs(v)
        BY <2>1, <2>4, <3>2, <4>1 DEF OneInv
      <4>3. kind # "suggest"
        BY <1>3, <4>2 DEF Request, Admitted, JobRuns, JobIs
      <4> QED BY <1>3, <4>2, <4>3 DEF Request, JobIs
    <3> QED BY <3>1, <3>2
  <2> QED BY <2>3, <2>4 DEF OneInv
<1>4. CASE Crash
  BY <1>1, <1>4 DEF Crash, OneInv, OneRequest, Busy
<1>5. CASE UNCHANGED vars
  BY <1>5 DEF vars, OneInv, OneRequest, Busy, JobIs
<1> QED BY <1>2, <1>3, <1>4, <1>5 DEF Next
-------------------------------------------------------------------------------
(* A job or the first triage beside one request (Serial).                   *)

\* While a job or the item's own triage may still write the item, nothing it
\* offers can be handled: there is no suggestion, in the row or in a document
\* about to be written to it.
Undisturbed(w) ==
    /\ ~item.sugg
    /\ \A v \in Workers : /\ ~work[v].doc.sugg
                          /\ v # w /\ Busy(v) => work[v].kind \in {"assign", "settings"}
SerialInv ==
    Serial =>
        /\ \A w \in Workers : work[w].kind \in {"suggest", "job"} => JobIs(w)
        /\ \A w \in Workers :
              work[w].kind \in Background /\ work[w].at # "end" => Undisturbed(w)

LEMMA KeepsPlain ==
  ASSUME IInv, SlotInv, NEW w \in Workers, Step(w), ~item.sugg, ~work[w].doc.sugg,
         \/ work[w].kind \in {"assign", "settings"}
         \/ work[w].kind \in Background /\ work'[w].at \notin {"end", "idle"}
  PROVE  ~item'.sugg /\ ~work'[w].doc.sugg
<1>1. /\ work \in [Workers -> Worker] /\ work[w] \in Worker /\ item \in Item
      /\ work[w].row \in Item /\ work[w].doc \in Item
      /\ Placed(work[w]) /\ ~Open.sugg /\ Idle.doc = Open /\ Idle.at = "idle"
      /\ work[w].kind \in {"assign", "settings", "job", "triage"}
  BY DEF IInv, TypeOK, SlotInv, Open, Idle, Worker, Background
<1>2. ASSUME NEW place \in Places, Go(w, place) PROVE work'[w].doc = Open /\ work'[w].at = place
  BY <1>1, <1>2 DEF Go, Worker
<1>3. ASSUME NEW place \in Places, Get(w, place) PROVE work'[w].doc = item
  BY <1>1, <1>3 DEF Get, Worker
<1>4. ASSUME Finish(w) PROVE work'[w].doc = Open /\ work'[w].at = "idle"
  BY <1>1, <1>4 DEF Finish
<1>5. ASSUME Last(w) PROVE work'[w].doc = Open /\ work'[w].at \in {"end", "idle"}
  <2>1. "end" \in Places
    BY DEF Places
  <2> QED BY <1>2, <1>4, <1>5, <2>1 DEF Last
<1>6. {"assignPut", "reset", "suggPut", "handlePut", "resetGet", "countGet", "mail", "handleGet"}
        \subseteq Places
  BY DEF Places
<1>7. CASE AssignGet(w) \/ ResetGet(w) \/ SuggGet(w) \/ HandleGet(w)
  BY <1>1, <1>3, <1>6, <1>7 DEF AssignGet, ResetGet, SuggGet, HandleGet
<1>8. CASE AssignPut(w)
  BY <1>1, <1>2, <1>6, <1>8 DEF AssignPut, Put
<1>9. CASE Restore(w)
  BY <1>1, <1>9 DEF Restore, Placed
<1>10. CASE HandlePut(w)
  <2>1. item' = [work[w].doc EXCEPT !.status = work[w].status, !.issue = work[w].issue]
    BY <1>10 DEF HandlePut, Put
  <2>2. item'.sugg = work[w].doc.sugg
    BY <1>1, <2>1 DEF Item
  <2> QED BY <1>1, <1>2, <1>6, <1>10, <2>2 DEF HandlePut
<1>11. CASE ResetItem(w)
  <2>1. work[w].kind # "suggest"
    BY <1>1
  <2>2. \E doc \in Item : item' = Emptied(doc)
    BY <1>1, <1>11 DEF ResetItem, Put
  <2> QED BY <1>1, <1>5, <1>11, <2>1, <2>2 DEF ResetItem, Emptied, Item
<1>12. CASE SuggPut(w)
  BY <1>1, <1>5, <1>12 DEF SuggPut, Placed
<1>13. CASE CountPut(w) \/ End(w) \/ Fails(w)
  BY <1>1, <1>4, <1>5, <1>13 DEF CountPut, End, Fails
<1>14. CASE AddReply(w) \/ SendMail(w)
  BY <1>1, <1>2, <1>6, <1>14 DEF AddReply, SendMail
<1>15. CASE ReadPolicy(w) \/ CountGet(w) \/ UpdateWorkflow(w) \/ Deadline(w) \/ Suggested(w)
            \/ Find(w) \/ FindMisreads(w) \/ CreateIssue(w)
  <2>1. item' = item
    BY <1>15 DEF ReadPolicy, CountGet, UpdateWorkflow, Deadline, Suggested, Find, FindMisreads,
          CreateIssue
  <2>2. work'[w].doc = work[w].doc
    <3>1. CASE ReadPolicy(w)
      BY <1>1, <3>1 DEF ReadPolicy, Worker
    <3>2. CASE CountGet(w)
      BY <1>1, <3>2 DEF CountGet, Worker
    <3>3. CASE UpdateWorkflow(w)
      BY <1>1, <3>3 DEF UpdateWorkflow, Worker
    <3>4. CASE Deadline(w)
      BY <1>1, <3>4 DEF Deadline, Worker
    <3>5. CASE Suggested(w)
      BY <1>1, <3>5 DEF Suggested, Worker
    <3>6. CASE Find(w) \/ FindMisreads(w)
      <4>1. PICK q \in Worker : work' = [work EXCEPT ![w] = q] /\ q.doc = work[w].doc
        <5>1. \A h \in Houses : /\ Lacks(w, h).doc = work[w].doc
                              /\ \A n \in 1 .. issues[h] : Finds(w, h, n).doc = work[w].doc
          BY <1>1 DEF Lacks, Finds, Worker
        <5> QED BY <3>6, <5>1, FindShape
      <4> QED BY <1>1, <4>1
    <3>7. CASE CreateIssue(w)
      BY <1>1, <3>7 DEF CreateIssue, Worker
    <3> QED BY <1>15, <3>1, <3>2, <3>3, <3>4, <3>5, <3>6, <3>7
  <2> QED BY <1>1, <2>1, <2>2
<1> QED BY <1>7, <1>8, <1>9, <1>10, <1>11, <1>12, <1>13, <1>14, <1>15 DEF Step

LEMMA SerialStays ==
  IInv /\ SlotInv /\ OneInv /\ SerialInv /\ [Next]_vars => SerialInv'
<1> SUFFICES ASSUME IInv, SlotInv, OneInv, SerialInv, [Next]_vars, Serial PROVE SerialInv'
  BY EnvStays DEF SerialInv, Serial
<1>1. /\ Idle.kind = "none" /\ Idle.at = "idle" /\ Idle.doc = Open /\ ~Open.sugg
      /\ job \in JobTypes /\ work \in [Workers -> Worker]
      /\ ~env.overlap /\ ~env.early /\ "cancel" \notin env.kinds
  BY ItemGood DEF Idle, IInv, TypeOK, Serial, Open
<1>2. ASSUME NEW w \in Workers, Step(w) PROVE SerialInv'
  <2>1. ASSUME NEW v \in Workers, work'[v].kind \in {"suggest", "job"} PROVE JobIs(v)'
    <3>1. JobIs(v)
      BY <1>1, <1>2, <2>1, ShapeFacts DEF SerialInv
    <3>2. CASE UNCHANGED job
      BY <3>1, <3>2 DEF JobIs
    <3>3. CASE work'[w] = Idle /\ JobEnded(w)
      BY <1>1, <2>1, <3>1, <3>3 DEF JobIs, JobEnded
    <3> QED BY <1>2, <3>2, <3>3, ShapeFacts
  <2>2. ASSUME NEW j \in Workers, work'[j].kind \in Background, work'[j].at # "end"
        PROVE  Undisturbed(j)'
    <3>1. CASE w = j /\ work[j].kind = "suggest"
      <4>1. ASSUME NEW v \in Workers, v # j PROVE work[v] = Idle /\ work'[v] = Idle
        <5>1. ASSUME Busy(v) PROVE FALSE
          <6>1. Busy(j) /\ work[v].kind \in Background
            BY <1>1, <1>2, <3>1, <4>1, <5>1, ShapeFacts DEF OneInv, OneRequest, Background
          <6>2. CASE work[v].kind = "job"
            BY <3>1, <4>1, <6>2 DEF SerialInv, JobIs
          <6>3. CASE work[v].kind = "triage"
            <7>1. Undisturbed(v)
              BY <6>1, <6>3 DEF SlotInv, Placed, SerialInv
            <7> QED BY <3>1, <4>1, <6>1, <7>1 DEF Undisturbed
          <6> QED BY <6>1, <6>2, <6>3 DEF Background
        <5> QED BY <1>2, <3>1, <4>1, <5>1, ShapeFacts DEF SlotInv, Placed, Busy
      <4>2. TurnsJob(j)
        <5>1. ~Finish(j)
          BY <1>1, <2>2 DEF Finish, Background
        <5>2. ~Continues(j)
          BY <1>1, <2>2, <3>1 DEF Continues, Background
        <5> QED BY <1>2, <3>1, <5>1, <5>2, StepShape
      <4>3. item' = Emptied(work[j].row) /\ work'[j].doc = Open
        BY <1>1, <4>2 DEF TurnsJob
      <4>4. ~item'.sugg
        BY <4>3, DocumentsGood DEF Emptied, Item
      <4> QED BY <1>1, <4>1, <4>3, <4>4 DEF Undisturbed, Busy
    <3>2. CASE ~(w = j /\ work[j].kind = "suggest")
      <4>1. work[j].kind \in Background /\ work[j].at # "end"
        <5>1. CASE w = j
          <6>1. ~Finish(j) /\ ~TurnsJob(j)
            BY <1>1, <2>2, <3>2, <5>1 DEF Finish, TurnsJob, Background
          <6>2. Continues(j)
            BY <1>2, <5>1, <6>1, StepShape
          <6> QED BY <1>1, <2>2, <6>2 DEF Continues
        <5>2. CASE w # j
          BY <1>2, <2>2, <5>2, ShapeFacts
        <5> QED BY <5>1, <5>2
      <4>2. Undisturbed(j)
        BY <4>1 DEF SerialInv
      <4>3. w # j => work[w].kind \in {"assign", "settings"}
        BY <1>2, <4>2, ShapeFacts DEF Undisturbed
      <4>4. w = j => work[w].kind \in Background /\ work'[w].at \notin {"end", "idle"}
        BY <1>1, <1>2, <2>2, <4>1, ShapeFacts DEF Background
      <4>5. ~item'.sugg /\ ~work'[w].doc.sugg
        BY <1>2, <4>2, <4>3, <4>4, KeepsPlain DEF Undisturbed
      <4>6. w # j /\ Busy(w)' => work'[w].kind \in {"assign", "settings"}
        BY <1>1, <1>2, <4>3, ShapeFacts DEF Busy
      <4> QED BY <1>2, <4>2, <4>5, <4>6, ShapeFacts DEF Undisturbed, Busy
    <3> QED BY <3>1, <3>2
  <2> QED BY <2>1, <2>2 DEF SerialInv
<1>3. ASSUME NEW w \in Workers, NEW kind \in Actions, Request(w, kind) PROVE SerialInv'
  <2>1. kind # "cancel" /\ \A v \in Workers : v # w => work'[v] = work[v]
    <3>1. kind # "cancel"
      BY <1>1, <1>3 DEF Request
    <3>2. ASSUME NEW v \in Workers, v # w PROVE work'[v] = work[v]
      BY <1>1, <1>3, <3>1, <3>2 DEF Request
    <3> QED BY <3>1, <3>2
  <2>2. work[w] = Idle /\ work'[w].kind = kind /\ work'[w].doc = Open
    BY <1>3, RequestShape
  <2>3. ASSUME NEW v \in Workers, work'[v].kind \in {"suggest", "job"} PROVE JobIs(v)'
    <3>1. CASE v = w
      BY <1>3, <2>2, <2>3, <3>1 DEF Request, JobIs, Actions
    <3>2. CASE v # w
      <4>1. JobIs(v)
        BY <2>1, <2>3, <3>2 DEF SerialInv
      <4> QED BY <1>3, <2>1, <4>1 DEF Request, Admitted, JobRuns, JobIs
    <3> QED BY <3>1, <3>2
  <2>4. ASSUME NEW j \in Workers, work'[j].kind \in Background, work'[j].at # "end"
        PROVE  Undisturbed(j)'
    <3>1. j # w /\ work[j].kind \in Background /\ work[j].at # "end"
      BY <2>1, <2>2, <2>4 DEF Actions, Background
    <3>2. Undisturbed(j) /\ Busy(j)
      BY <3>1 DEF SerialInv, SlotInv, Placed, Idle, Background, Busy
    <3>5. kind # "suggest"
      <4>1. CASE work[j].kind = "job"
        BY <1>3, <4>1 DEF SerialInv, Request, Admitted, JobRuns, JobIs
      <4>2. CASE work[j].kind = "triage"
        BY <1>1, <1>3, <3>2, <4>2 DEF Request, Beside
      <4> QED BY <3>1, <4>1, <4>2 DEF Background
    <3>3. kind \in {"assign", "settings"}
      BY <1>3, <2>1, <3>2, <3>5 DEF Request, Admitted, Undisturbed, Actions
    <3>4. item' = item
      BY <1>3 DEF Request
    <3> QED BY <1>1, <2>1, <2>2, <3>2, <3>3, <3>4 DEF Undisturbed, Busy
  <2> QED BY <2>3, <2>4 DEF SerialInv
<1>4. CASE Crash
  BY <1>1, <1>4 DEF Crash, SerialInv, Background
<1>5. CASE UNCHANGED vars
  BY <1>5 DEF vars, SerialInv, Undisturbed, Busy, JobIs
<1> QED BY <1>2, <1>3, <1>4, <1>5 DEF Next

\* The places of handleIntake, which two workers never are at.
Hand == {"find", "create", "workflow", "reply", "mail", "handleGet", "handlePut"}

LEMMA HandAlone ==
  ASSUME IInv, SlotInv, OneInv, SerialInv, Serial,
         NEW v \in Workers, NEW w \in Workers, v # w, work[v].at \in Hand
  PROVE  work[w].at \notin Hand
<1>1. ASSUME NEW x \in Workers, work[x].at \in Hand
      PROVE  Busy(x) /\ work[x].kind \notin {"assign", "settings"} /\ work[x].at # "end"
  BY <1>1 DEF SlotInv, Placed, Busy, Hand
<1>2. CASE work[v].kind \in Background
  <2>1. Undisturbed(v)
    BY <1>1, <1>2 DEF SerialInv
  <2> QED BY <1>1, <2>1 DEF Undisturbed
<1>3. CASE work[v].kind \notin Background
  <2> SUFFICES ASSUME work[w].at \in Hand PROVE FALSE
    OBVIOUS
  <2>1. work[w].kind \in Background
    BY <1>1, <1>3 DEF OneInv, OneRequest, Serial
  <2>2. Undisturbed(w)
    BY <1>1, <2>1 DEF SerialInv
  <2> QED BY <1>1, <2>2 DEF Undisturbed
<1> QED BY <1>2, <1>3

(* Issues, replies and mails.                                               *)

\* What a worker in handleIntake takes for granted.  An issue more than failed
\* lookups explain cannot be about to be made.
Known(q) ==
    /\ q.at = "create" => issues[q.house] <= misreads
    /\ q.at = "reply" /\ ~q.replied => replies[q.issue] = 0
    /\ q.at = "mail" => mails[q.issue] = 0 /\ replies[q.issue] > 0

Counted(i) ==
    /\ replies[i] <= 1 /\ mails[i] <= replies[i]
    /\ i[2] > issues[i[1]] => replies[i] = 0

CountsInv ==
    Serial =>
        /\ \A h \in Houses : issues[h] <= 1 + misreads
        /\ \A i \in Issues : Counted(i)
        /\ \A w \in Workers : Known(work[w])

\* The steps that make nothing.
LEMMA MakesNothing ==
  ASSUME IInv, SlotInv, NEW w \in Workers, Step(w), ~Find(w), ~FindMisreads(w),
         ~CreateIssue(w), ~UpdateWorkflow(w), ~AddReply(w), ~SendMail(w)
  PROVE  /\ UNCHANGED <<issues, replies, mails, misreads>>
         /\ Known(work[w]) => Known(work'[w])
<1>1. work \in [Workers -> Worker] /\ work[w] \in Worker /\ Idle.at = "idle"
  BY DEF IInv, TypeOK, Idle
<1>2. UNCHANGED <<issues, replies, mails, misreads>>
  BY DEF Step, ResetItem, AssignGet, AssignPut, ResetGet, Restore, ReadPolicy, Suggested,
         SuggGet, SuggPut, HandleGet, HandlePut, CountGet, CountPut, End, Fails, Deadline, case,
         faults
<1>3. ASSUME NEW place \in Places \ {"create", "reply", "mail"}, Go(w, place) \/ Get(w, place)
      PROVE  Known(work'[w])
  BY <1>1, <1>3 DEF Go, Get, Worker, Known
<1>4. ASSUME Finish(w) PROVE Known(work'[w])
  BY <1>1, <1>4 DEF Finish, Known
<1>5. {"assignPut", "reset", "suggPut", "handlePut", "resetGet", "countGet", "handleGet", "find", "end"}
        \subseteq Places \ {"create", "reply", "mail"}
  BY DEF Places
<1>6. ASSUME Last(w) PROVE Known(work'[w])
  BY <1>3, <1>4, <1>5, <1>6 DEF Last
<1>7. CASE AssignGet(w) \/ ResetGet(w) \/ SuggGet(w) \/ HandleGet(w) \/ AssignPut(w) \/ Restore(w)
           \/ HandlePut(w)
  BY <1>2, <1>3, <1>5, <1>7
     DEF AssignGet, ResetGet, SuggGet, HandleGet, AssignPut, Restore, HandlePut
<1>8. CASE SuggPut(w) \/ CountPut(w)
  BY <1>2, <1>3, <1>5, <1>6, <1>8 DEF SuggPut, CountPut
<1>9. CASE End(w) \/ Fails(w)
  BY <1>2, <1>4, <1>9 DEF End, Fails
<1>10. CASE ResetItem(w)
  <2>1. CASE work[w].kind = "suggest"
    <3>1. work'[w].at = "policy"
      BY <1>1, <1>10, <2>1 DEF ResetItem, Idle
    <3> QED BY <1>2, <3>1 DEF Known
  <2>2. CASE work[w].kind # "suggest"
    BY <1>2, <1>6, <1>10, <2>2 DEF ResetItem
  <2> QED BY <2>1, <2>2
<1>11. CASE ReadPolicy(w)
  BY <1>1, <1>2, <1>11 DEF ReadPolicy, Known, Worker
<1>12. CASE CountGet(w)
  BY <1>1, <1>2, <1>12 DEF CountGet, Known, Worker
<1>13. CASE Deadline(w)
  <2>1. work'[w] = [work[w] EXCEPT !.alive = FALSE]
    BY <1>1, <1>13 DEF Deadline
  <2>2. work'[w].at = work[w].at /\ work'[w].replied = work[w].replied
        /\ work'[w].issue = work[w].issue /\ work'[w].house = work[w].house
    BY <1>1, <2>1 DEF Worker
  <2> QED BY <1>2, <2>2 DEF Known
<1>14. CASE Suggested(w)
  <2>1. work'[w].at \in {"reset", "suggGet", "find"}
    BY <1>1, <1>14 DEF Suggested, Worker, Levels
  <2> QED BY <1>2, <2>1 DEF Known
<1> QED BY <1>2, <1>7, <1>8, <1>9, <1>10, <1>11, <1>12, <1>13, <1>14 DEF Step

LEMMA CountsStay ==
  IInv /\ SlotInv /\ OneInv /\ SerialInv /\ CountsInv /\ [Next]_vars => CountsInv'
<1> SUFFICES ASSUME IInv, SlotInv, OneInv, SerialInv, CountsInv, [Next]_vars, Serial
             PROVE  CountsInv'
  BY EnvStays DEF CountsInv, Serial
<1>1. /\ Idle.at = "idle" /\ work \in [Workers -> Worker]
      /\ issues \in [Houses -> 0 .. MaxIssues] /\ mails \in [Issues -> Nat]
      /\ replies \in [Issues -> Nat] /\ MaxIssues \in Nat /\ misreads \in Nat
  BY InboxAssumption DEF IInv, TypeOK, Idle, Environment
<1>2. /\ \A h \in Houses : issues[h] <= 1 + misreads
      /\ \A i \in Issues : Counted(i)
      /\ \A w \in Workers : Known(work[w])
  BY DEF CountsInv
<1>3. ASSUME NEW w \in Workers, Step(w), work[w].at \in Hand,
             NEW v \in Workers, v # w
      PROVE  Known(work[v])'
  <2>1. work'[v] = work[v] /\ work[v].at \notin Hand
    BY <1>3, ShapeFacts, HandAlone
  <2> QED BY <2>1 DEF Known, Hand
<1>4. ASSUME NEW w \in Workers, Find(w) \/ FindMisreads(w) PROVE CountsInv'
  <2>1. UNCHANGED <<issues, replies, mails>> /\ work[w].at \in Hand /\ Step(w)
        /\ misreads' \in Nat /\ misreads' >= misreads
    BY <1>4, FindShape, InboxAssumption DEF Hand, Step, IInv, TypeOK, Environment
  <2>2. PICK h \in Houses :
            \/ \E n \in 1 .. issues[h] : work' = [work EXCEPT ![w] = Finds(w, h, n)]
            \/ /\ work' = [work EXCEPT ![w] = Lacks(w, h)]
               /\ issues[h] = 0 \/ misreads' = misreads + 1
    BY <1>4, FindShape
  <2>3. Known(work[w])'
    <3>1. ASSUME NEW n \in 1 .. issues[h], work' = [work EXCEPT ![w] = Finds(w, h, n)]
          PROVE  Known(work[w])'
      <4>1. work'[w].at = "workflow"
        BY <1>1, <3>1 DEF Finds, Worker
      <4> QED BY <4>1 DEF Known
    <3>2. ASSUME work' = [work EXCEPT ![w] = Lacks(w, h)],
                 issues[h] = 0 \/ misreads' = misreads + 1
          PROVE  Known(work[w])'
      <4>1. work'[w].at = "create" /\ work'[w].house = h
        BY <1>1, <3>2 DEF Lacks, Worker
      <4>2. issues[h] <= misreads'
        BY <1>1, <1>2, <2>1, <3>2
      <4> QED BY <2>1, <4>1, <4>2 DEF Known
    <3> QED BY <2>2, <3>1, <3>2
  <2>4. \A g \in Houses : issues'[g] <= 1 + misreads'
    BY <1>1, <1>2, <2>1
  <2>5. \A i \in Issues : Counted(i)'
    BY <1>2, <2>1 DEF Counted
  <2> QED BY <1>3, <2>1, <2>3, <2>4, <2>5 DEF CountsInv
<1>5. ASSUME NEW w \in Workers, CreateIssue(w) PROVE CountsInv'
  <2>1. PICK h \in Houses, n \in 1 .. MaxIssues :
            /\ h = work[w].house /\ work[w].at = "create" /\ n = issues[h] + 1
            /\ issues' = [issues EXCEPT ![h] = n]
            /\ <<h, n>> \in Issues /\ Creates(w, n).issue = <<h, n>>
            /\ work' = [work EXCEPT ![w] = Creates(w, n)]
            /\ UNCHANGED <<replies, mails, misreads>>
    BY <1>5, CreateShape
  <2>2. work[w].at \in Hand /\ Step(w)
    BY <1>5, <2>1 DEF Hand, Step
  <2>3. \A g \in Houses : issues'[g] <= 1 + misreads'
    BY <1>1, <1>2, <2>1 DEF Known
  <2>4. ASSUME NEW i \in Issues PROVE Counted(i)'
    <3>1. PICK g \in Houses, m \in 1 .. MaxIssues : i = <<g, m>>
      BY DEF Issues
    <3>2. issues'[g] >= issues[g] /\ issues'[g] \in Nat /\ issues[g] \in Nat
      BY <1>1, <2>1
    <3>3. m > issues'[g] => m > issues[g]
      BY <3>2
    <3> QED BY <1>2, <2>1, <3>1, <3>3 DEF Counted
  <2>5. Known(work[w])'
    <3>1. work'[w].at = "reply" /\ work'[w].issue = <<h, n>>
      <4>1. work'[w] = Creates(w, n)
        BY <1>1, <2>1
      <4>2. Creates(w, n).at = "reply"
        BY <1>1 DEF Creates, Worker
      <4> QED BY <2>1, <4>1, <4>2
    <3>2. n > issues[h]
      BY <1>1, <2>1
    <3>3. replies[<<h, n>>] = 0
      BY <1>2, <2>1, <3>2 DEF Counted
    <3> QED BY <2>1, <3>1, <3>3 DEF Known
  <2> QED BY <1>3, <2>2, <2>3, <2>4, <2>5 DEF CountsInv
<1>6. ASSUME NEW w \in Workers, UpdateWorkflow(w) PROVE CountsInv'
  <2>1. UNCHANGED <<issues, replies, mails, misreads>> /\ work[w].at \in Hand /\ Step(w)
        /\ work[w].issue \in Issues
    BY <1>6 DEF UpdateWorkflow, case, faults, Hand, Step, IInv, WorkInv, Exists
  <2>2. /\ work'[w].at = "reply" /\ work'[w].issue = work[w].issue
        /\ work'[w].replied <=> replies[work[w].issue] > 0
    BY <1>1, <1>6 DEF UpdateWorkflow, Worker
  <2>3. Known(work[w])'
    BY <1>1, <2>1, <2>2 DEF Known
  <2> QED BY <1>2, <1>3, <2>1, <2>3 DEF CountsInv, Counted
<1>7. ASSUME NEW w \in Workers, AddReply(w) PROVE CountsInv'
  <2>1. UNCHANGED <<issues, mails, misreads>> /\ work[w].at = "reply" /\ work[w].at \in Hand
        /\ Step(w) /\ work[w].issue \in Issues /\ Known(work[w]) /\ Exists(work[w].issue)
    BY <1>2, <1>7 DEF AddReply, faults, Hand, Step, IInv, WorkInv, Exists
  <2>2. CASE NeedsReply(w)
    <3>1. replies[work[w].issue] = 0
      BY <2>1, <2>2 DEF Known, NeedsReply
    <3>2. replies' = [replies EXCEPT ![work[w].issue] = replies[work[w].issue] + 1]
      BY <1>7, <2>2 DEF AddReply
    <3>3. mails[work[w].issue] = 0
      BY <1>1, <1>2, <2>1, <3>1 DEF Counted
    <3>4. work'[w].at = "mail" /\ work'[w].issue = work[w].issue
      BY <1>1, <1>7, <2>2 DEF AddReply, Go, Worker
    <3>5. replies'[work[w].issue] = 1
      BY <1>1, <2>1, <3>1, <3>2
    <3>6. Known(work[w])'
      BY <2>1, <3>3, <3>4, <3>5 DEF Known
    <3>7. ASSUME NEW i \in Issues PROVE Counted(i)'
      <4>1. CASE i = work[w].issue
        <5>1. PICK h \in Houses, n \in 1 .. MaxIssues : i = <<h, n>>
          BY DEF Issues
        <5>2. ~(n > issues[h])
          BY <1>1, <2>1, <4>1, <5>1 DEF Exists
        <5> QED BY <2>1, <3>3, <3>5, <4>1, <5>1, <5>2 DEF Counted
      <4>2. CASE i # work[w].issue
        <5>1. replies'[i] = replies[i]
          BY <1>1, <3>2, <4>2
        <5> QED BY <1>2, <2>1, <5>1 DEF Counted
      <4> QED BY <4>1, <4>2
    <3> QED BY <1>2, <1>3, <2>1, <3>6, <3>7 DEF CountsInv
  <2>3. CASE ~NeedsReply(w)
    <3>1. UNCHANGED replies /\ work'[w].at = "handleGet"
      BY <1>1, <1>7, <2>3 DEF AddReply, Go, Worker
    <3>2. Known(work[w])'
      BY <3>1 DEF Known
    <3> QED BY <1>2, <1>3, <2>1, <3>1, <3>2 DEF CountsInv, Counted
  <2> QED BY <2>2, <2>3
<1>8. ASSUME NEW w \in Workers, SendMail(w) PROVE CountsInv'
  <2>1. UNCHANGED <<issues, replies, misreads>> /\ work[w].at = "mail" /\ work[w].at \in Hand
        /\ Step(w) /\ work[w].issue \in Issues
        /\ \/ mails' = mails
           \/ mails' = [mails EXCEPT ![work[w].issue] = mails[work[w].issue] + 1]
    BY <1>8 DEF SendMail, faults, Hand, Step, IInv, WorkInv, Exists
  <2>2. mails[work[w].issue] = 0 /\ replies[work[w].issue] > 0
    BY <1>2, <2>1 DEF Known
  <2>3. work'[w].at = "handleGet"
    BY <1>1, <1>8 DEF SendMail, Go, Worker
  <2>4. Known(work[w])'
    BY <2>3 DEF Known
  <2>5. ASSUME NEW i \in Issues PROVE mails'[i] <= replies[i]
    BY <1>1, <1>2, <2>1, <2>2 DEF Counted
  <2>6. \A i \in Issues : Counted(i)'
    BY <1>2, <2>1, <2>5 DEF Counted
  <2> QED BY <1>2, <1>3, <2>1, <2>4, <2>6 DEF CountsInv
<1>9. ASSUME NEW w \in Workers, Step(w), ~Find(w), ~FindMisreads(w),
             ~CreateIssue(w), ~UpdateWorkflow(w), ~AddReply(w), ~SendMail(w)
      PROVE  CountsInv'
  <2>1. UNCHANGED <<issues, replies, mails, misreads>> /\ Known(work'[w])
    BY <1>2, <1>9, MakesNothing
  <2>2. \A v \in Workers : v # w => work'[v] = work[v]
    BY <1>9, ShapeFacts
  <2>3. \A v \in Workers : Known(work[v])'
    BY <1>2, <2>1, <2>2 DEF Known
  <2> QED BY <1>2, <2>1, <2>3 DEF CountsInv, Counted
<1>10. ASSUME NEW w \in Workers, NEW kind \in Actions, Request(w, kind) PROVE CountsInv'
  <2>1. UNCHANGED <<issues, replies, mails, misreads>>
    BY <1>10 DEF Request, case, faults
  <2>2. work'[w].at \notin {"create", "reply", "mail"}
    BY <1>10, RequestShape DEF FirstPlace, Actions
  <2>3. ASSUME NEW v \in Workers, v # w
        PROVE  /\ work'[v].at = work[v].at /\ work'[v].replied = work[v].replied
               /\ work'[v].issue = work[v].issue /\ work'[v].house = work[v].house
    <3>1. CASE work'[v] = work[v]
      BY <3>1
    <3>2. CASE work'[v] = [work[v] EXCEPT !.alive = FALSE]
      BY <1>1, <3>2 DEF Worker
    <3> QED BY <1>10, <2>3, <3>1, <3>2, RequestShape
  <2>4. \A v \in Workers : Known(work[v])'
    BY <1>2, <2>1, <2>2, <2>3 DEF Known
  <2> QED BY <1>2, <2>1, <2>4 DEF CountsInv, Counted
<1>11. CASE Crash
  BY <1>1, <1>2, <1>11 DEF Crash, CountsInv, Counted, Known, case
<1>12. CASE UNCHANGED vars
  BY <1>2, <1>12 DEF vars, CountsInv, Counted, Known
<1> QED BY <1>4, <1>5, <1>6, <1>7, <1>8, <1>9, <1>10, <1>11, <1>12 DEF Next
-------------------------------------------------------------------------------
(* Cancellations (CancelHolds).                                             *)

\* After a cancellation the item is going to be reset, or is as the reset left
\* it and whoever may write it has read it so.
Clean(doc) == doc.status = "open" /\ ~doc.sugg
CancelInv ==
    ~env.overlap /\ ~env.early /\ ~env.fails /\ job.state = "cancelled" =>
        \/ \E w \in Workers : work[w].kind = "cancel"
        \/ /\ Clean(item)
           /\ \A w \in Workers : Busy(w) /\ work[w].kind # "job" =>
                 work[w].kind \in {"assign", "settings"} /\ Clean(work[w].doc)

\* Once a suggestion has been asked for, the item's own triage is over.
TriageInv ==
    ~env.overlap /\ ~env.early /\ job.state # "none" =>
        \A w \in Workers : work[w].kind # "triage"

LEMMA TriageStays == IInv /\ SlotInv /\ TriageInv /\ [Next]_vars => TriageInv'
<1> SUFFICES ASSUME IInv, SlotInv, TriageInv, [Next]_vars, ~env.overlap, ~env.early,
                    job'.state # "none"
             PROVE  \A w \in Workers : work'[w].kind # "triage"
  BY EnvStays DEF TriageInv
<1>1. Idle.kind = "none" /\ work \in [Workers -> Worker] /\ job \in JobTypes
  BY ItemGood DEF Idle, IInv, TypeOK
<1>2. ASSUME NEW w \in Workers, Step(w) PROVE \A v \in Workers : work'[v].kind # "triage"
  <2>1. job.state # "none"
    BY <1>1, <1>2, ShapeFacts DEF JobEnded, JobTypes
  <2> QED BY <1>1, <1>2, <2>1, ShapeFacts DEF TriageInv
<1>3. ASSUME NEW w \in Workers, NEW kind \in Actions, Request(w, kind),
             NEW v \in Workers, work'[v].kind = "triage"
      PROVE  FALSE
  <2>1. v # w /\ work[v].kind = "triage"
    <3>1. v # w
      BY <1>3, RequestShape DEF Actions
    <3>2. CASE work'[v] = work[v]
      BY <1>3, <3>1, <3>2
    <3>3. CASE work'[v] = [work[v] EXCEPT !.alive = FALSE]
      BY <1>1, <1>3, <3>1, <3>3 DEF Worker
    <3> QED BY <1>3, <3>1, <3>2, <3>3, RequestShape
  <2>2. job.state = "none"
    BY <2>1 DEF TriageInv
  <2>3. kind = "suggest"
    BY <1>3, <2>2 DEF Request, Admitted, JobRuns, Actions
  <2>4. Busy(v)
    BY <1>1, <2>1 DEF SlotInv, Placed, Busy
  <2> QED BY <1>3, <2>1, <2>3, <2>4 DEF Request, Beside
<1>4. CASE Crash
  BY <1>4 DEF Crash
<1>5. CASE UNCHANGED vars
  BY <1>5 DEF vars, TriageInv
<1> QED BY <1>2, <1>3, <1>4, <1>5 DEF Next

\* A goroutine whose context has ended writes the item no more; only the request
\* that starts a job writes without its context.
LEMMA DeadWritesNothing ==
  ASSUME NEW w \in Workers, Step(w), ~work[w].alive, work[w].kind # "suggest"
  PROVE  UNCHANGED item
  BY DEF Step, ResetItem, AssignGet, AssignPut, ResetGet, Restore, ReadPolicy, Suggested, SuggGet,
         SuggPut, Find, FindMisreads, CreateIssue, UpdateWorkflow, AddReply, SendMail, HandleGet, HandlePut,
         CountGet, CountPut, End, Fails, Deadline, Put, Reaches

LEMMA KeepsClean ==
  ASSUME IInv, SlotInv, NEW w \in Workers, Step(w), Busy(w),
         work[w].kind \in {"assign", "settings"}, Clean(item), Clean(work[w].doc)
  PROVE  Clean(item') /\ Clean(work'[w].doc)
<1>1. /\ work \in [Workers -> Worker] /\ work[w] \in Worker /\ item \in Item
      /\ work[w].row \in Item /\ work[w].doc \in Item /\ Clean(Open) /\ Idle.doc = Open
  BY DEF IInv, TypeOK, Open, Idle, Worker, Clean
<1>2. /\ work[w].at \in {"assignGet", "assignPut", "resetGet", "reset", "countGet", "countPut"}
      /\ work[w].kind # "job"
  BY DEF SlotInv, Placed
<1>3. \/ AssignGet(w) \/ AssignPut(w) \/ ResetGet(w) \/ ResetItem(w)
      \/ CountGet(w) \/ CountPut(w) \/ Fails(w)
  BY <1>2 DEF Step, Restore, ReadPolicy, Suggested, SuggGet, SuggPut, Find, FindMisreads,
        CreateIssue, UpdateWorkflow, AddReply, SendMail, HandleGet, HandlePut, End, Deadline
<1>4. ASSUME NEW place \in Places, Go(w, place) PROVE Clean(work'[w].doc)
  <2>1. work'[w].doc = Open
    BY <1>1, <1>4 DEF Go, Worker
  <2> QED BY <1>1, <2>1
<1>5. ASSUME NEW place \in Places, Get(w, place) PROVE Clean(work'[w].doc)
  <2>1. work'[w].doc = item
    BY <1>1, <1>5 DEF Get, Worker
  <2> QED BY <2>1
<1>6. ASSUME Finish(w) PROVE Clean(work'[w].doc)
  BY <1>1, <1>6 DEF Finish
<1>7. {"assignPut", "reset", "resetGet"} \subseteq Places
  BY DEF Places
<1>8. CASE AssignGet(w) \/ ResetGet(w)
  BY <1>5, <1>7, <1>8 DEF AssignGet, ResetGet
<1>9. CASE AssignPut(w)
  BY <1>4, <1>7, <1>9 DEF AssignPut, Put
<1>10. CASE ResetItem(w)
  <2>1. \E doc \in Item : item' = Emptied(doc)
    BY <1>1, <1>10 DEF ResetItem, Put
  <2>2. Clean(item')
    BY <2>1 DEF Emptied, Item, Clean
  <2> QED BY <1>2, <1>6, <1>10, <2>2 DEF ResetItem, Last
<1>11. CASE CountGet(w)
  <2>1. work'[w].doc = work[w].doc /\ item' = item
    BY <1>1, <1>11 DEF CountGet, Worker
  <2> QED BY <2>1
<1>12. CASE CountPut(w) \/ Fails(w)
  BY <1>2, <1>6, <1>12 DEF CountPut, Last, Fails
<1> QED BY <1>3, <1>8, <1>9, <1>10, <1>11, <1>12

LEMMA CancelStays ==
  IInv /\ SlotInv /\ OneInv /\ TriageInv /\ CancelInv /\ [Next]_vars => CancelInv'
<1> SUFFICES ASSUME IInv, SlotInv, OneInv, TriageInv, CancelInv, [Next]_vars,
                    ~env.overlap, ~env.early, ~env.fails, job'.state = "cancelled"
             PROVE  CancelInv'
  BY EnvStays DEF CancelInv
<1>1. /\ Idle.kind = "none" /\ Idle.at = "idle" /\ work \in [Workers -> Worker]
      /\ job \in JobTypes /\ Clean(Open) /\ OneRequest
  BY ItemGood DEF Idle, IInv, TypeOK, Clean, Open, OneInv
<1>2. ASSUME NEW w \in Workers, Step(w) PROVE CancelInv'
  <2>1. job.state = "cancelled"
    BY <1>1, <1>2, ShapeFacts DEF JobEnded, JobTypes
  <2>2. ASSUME NEW c \in Workers, work[c].kind = "cancel", c # w PROVE CancelInv'
    <3>1. work'[c] = work[c]
      BY <1>2, <2>2, ShapeFacts
    <3> QED BY <2>2, <3>1 DEF CancelInv
  <2>3. CASE work[w].kind = "cancel"
    <3>1. work[w].at = "reset" /\ Busy(w)
      BY <2>3 DEF SlotInv, Placed, Busy
    <3>2. ResetItem(w)
      BY <1>2, <2>3, <3>1 DEF Step, AssignGet, AssignPut, ResetGet, Restore, ReadPolicy, Suggested,
            SuggGet, SuggPut, Find, FindMisreads, CreateIssue, UpdateWorkflow, AddReply, SendMail, HandleGet,
            HandlePut, CountGet, CountPut, End, Fails, Deadline
    <3>3. Clean(item') /\ work'[w] = Idle
      <4>1. item' = Emptied(work[w].row) /\ Finish(w)
        BY <2>3, <3>2 DEF ResetItem, Put, Last
      <4> QED BY <1>1, <4>1, DocumentsGood DEF Finish, Clean, Emptied, Item
    <3>4. ASSUME NEW v \in Workers, Busy(v)' PROVE work'[v].kind = "job"
      <4>1. v # w
        BY <1>1, <3>3, <3>4 DEF Busy
      <4>2. work'[v] = work[v] /\ Busy(v)
        BY <1>2, <3>4, <4>1, ShapeFacts DEF Busy
      <4>3. work[v].kind # "triage"
        BY <2>1 DEF TriageInv
      <4> QED BY <1>1, <2>3, <3>1, <4>1, <4>2, <4>3 DEF OneRequest, Background
    <3> QED BY <3>3, <3>4 DEF CancelInv, Busy
  <2>4. CASE Clean(item) /\ \A v \in Workers : Busy(v) /\ work[v].kind # "job" =>
                 work[v].kind \in {"assign", "settings"} /\ Clean(work[v].doc)
    <3>1. CASE work[w].kind = "job"
      <4>1. ~work[w].alive
        BY <2>1, <3>1 DEF OneInv, JobIs
      <4>2. UNCHANGED item
        BY <1>2, <3>1, <4>1, DeadWritesNothing
      <4>3. Busy(w)' => work'[w].kind = "job"
        BY <1>1, <1>2, <3>1, ShapeFacts DEF Busy
      <4> QED BY <1>2, <2>4, <4>2, <4>3, ShapeFacts DEF CancelInv, Busy
    <3>2. CASE work[w].kind # "job"
      <4>1. Busy(w) /\ work[w].kind \in {"assign", "settings"} /\ Clean(work[w].doc)
        BY <1>2, <2>4, <3>2, ShapeFacts
      <4>2. Clean(item') /\ Clean(work'[w].doc)
        BY <1>2, <2>4, <4>1, KeepsClean
      <4>3. Busy(w)' => work'[w].kind \in {"assign", "settings"}
        BY <1>1, <1>2, <4>1, ShapeFacts DEF Busy
      <4> QED BY <1>2, <2>4, <4>2, <4>3, ShapeFacts DEF CancelInv, Busy
    <3> QED BY <3>1, <3>2
  <2> QED BY <2>1, <2>2, <2>3, <2>4 DEF CancelInv
<1>3. ASSUME NEW w \in Workers, NEW kind \in Actions, Request(w, kind) PROVE CancelInv'
  <2>1. CASE kind = "cancel"
    <3>1. work'[w].kind = "cancel"
      BY <1>3, <2>1, RequestShape
    <3> QED BY <3>1 DEF CancelInv
  <2>2. CASE kind # "cancel"
    <3>1. UNCHANGED <<job, item>> /\ kind # "suggest"
      BY <1>3, <2>2 DEF Request
    <3>2. work'[w].kind = kind /\ work'[w].doc = Open
      BY <1>3, <2>2, <3>1, RequestShape
    <3>5. ASSUME NEW v \in Workers, v # w PROVE work'[v] = work[v]
      BY <1>1, <1>3, <2>2, <3>5 DEF Request
    <3>3. ASSUME NEW c \in Workers, work[c].kind = "cancel" PROVE CancelInv'
      <4>1. c # w
        BY <1>1, <1>3, <3>3, RequestShape
      <4>2. work'[c].kind = "cancel"
        BY <3>3, <3>5, <4>1
      <4> QED BY <4>2 DEF CancelInv
    <3>4. CASE Clean(item) /\ \A v \in Workers : Busy(v) /\ work[v].kind # "job" =>
                 work[v].kind \in {"assign", "settings"} /\ Clean(work[v].doc)
      <4>1. kind \in {"assign", "settings"}
        BY <1>3, <2>2, <3>1, <3>4 DEF Request, Admitted, Clean, Actions
      <4> QED BY <1>1, <3>1, <3>2, <3>5, <3>4, <4>1 DEF CancelInv, Busy
    <3> QED BY <3>1, <3>3, <3>4 DEF CancelInv
  <2> QED BY <2>1, <2>2
<1>4. CASE Crash
  BY <1>4 DEF Crash
<1>5. CASE UNCHANGED vars
  BY <1>5 DEF vars, CancelInv, Busy
<1> QED BY <1>2, <1>3, <1>4, <1>5 DEF Next
-------------------------------------------------------------------------------
\* The invariant holds in every reachable state.
THEOREM Invariant == Spec => []IInv
  BY InitInv, NextInv, PTL DEF Spec

\* Every variable keeps its type.
THEOREM TypeCorrect == Spec => []TypeOK
<1>1. IInv => TypeOK
  BY DEF IInv
<1> QED BY <1>1, Invariant, PTL

\* However requests, jobs, cancellations, failures and restarts come together,
\* an item that counts as handled has an issue (handleIntake, UpdateHandling).
THEOREM HandledKeepsIssue == Spec => []HandledHasIssue
<1>1. IInv => HandledHasIssue
  BY DEF IInv
<1> QED BY <1>1, Invariant, PTL

\* IInv alone does not tell which workers can meet; the others build on it.
FullInv == IInv /\ SlotInv /\ OneInv /\ SerialInv /\ TriageInv /\ CountsInv
           /\ CancelInv

LEMMA InitFull == Init => FullInv
<1> SUFFICES ASSUME Init PROVE FullInv
  OBVIOUS
<1>1. IInv
  BY InitInv
<1>2. /\ Intake.at = "policy" /\ Intake.kind = "triage" /\ Intake.row = Open /\ Intake.doc = Open
      /\ Idle.at = "idle" /\ Idle.kind = "none" /\ Idle.row = Open
      /\ Idle.doc = Open /\ ~Open.sugg
  BY DEF Intake, Idle, Open
<1>3. PICK first \in Workers : work = [w \in Workers |-> IF w = first THEN Intake ELSE Idle]
  BY DEF Init
<1>4. \A w \in Workers : work[w] = IF w = first THEN Intake ELSE Idle
  BY <1>3
<1>5. /\ job.state = "none" /\ item = Open
      /\ \A h \in Houses : issues[h] = 0
      /\ \A i \in Issues : replies[i] = 0 /\ mails[i] = 0
  BY DEF Init
<1>6. SlotInv
  BY <1>2, <1>4, <1>5 DEF SlotInv, Placed
<1>7. OneInv /\ SerialInv /\ CancelInv /\ TriageInv
  BY <1>2, <1>4, <1>5 DEF OneInv, OneRequest, SerialInv, Undisturbed, CancelInv, TriageInv, Busy,
     Background
<1>8. misreads \in Nat
  BY InboxAssumption DEF Init
<1>9. CountsInv
  BY <1>2, <1>4, <1>5, <1>8 DEF CountsInv, Counted, Known
<1> QED BY <1>1, <1>6, <1>7, <1>9 DEF FullInv

\* The invariant about requests that come one at a time.
THEOREM SerialInvariant == Spec => []FullInv
<1>1. FullInv /\ [Next]_vars => FullInv'
  BY NextInv, SlotStays, OneStays, SerialStays, TriageStays, CountsStay, CancelStays DEF FullInv
<1> QED BY <1>1, InitFull, PTL DEF Spec

\* However often a handling failed, was cut off by a restart and was run again,
\* a house holds one issue of the item and one more for each lookup that failed,
\* and an issue one reply and at most one mail (handleIntake, findIntakeIssue).
THEOREM HandlingRepeats == Spec => []HandledOnce
<1>1. FullInv => HandledOnce
  BY DEF FullInv, CountsInv, Counted, HandledOnce
<1> QED BY <1>1, SerialInvariant, PTL

\* No request handles the item beside a job or its first triage (inboxCaseAction, runSuggestJob).
THEOREM NobodyBesideAJob == Spec => []JobWorksAlone
<1>1. FullInv => JobWorksAlone
  <2> SUFFICES ASSUME FullInv, Serial, NEW v \in Workers, NEW w \in Workers, v # w,
                      Handling(v), Handling(w)
               PROVE  FALSE
    BY DEF JobWorksAlone
  <2>1. work[v].at \in Hand /\ work[w].at \in Hand
    BY DEF Handling, Hand
  <2> QED BY <2>1, HandAlone DEF FullInv
<1> QED BY <1>1, SerialInvariant, PTL

\* What a cancellation has emptied stays empty, whatever its goroutine goes on
\* to do (cancelSuggestJob).
THEOREM CancellationHolds == Spec => []CancelHolds
<1>1. FullInv => CancelHolds
  <2> SUFFICES ASSUME FullInv, ~env.overlap, ~env.early, ~env.fails, job.state = "cancelled",
                      \A w \in Workers : Busy(w) => work[w].kind = "job"
               PROVE  Clean(item)
    BY DEF CancelHolds, Clean
  <2>1. ASSUME NEW w \in Workers PROVE work[w].kind # "cancel"
    BY DEF FullInv, SlotInv, Placed, Busy
  <2> QED BY <2>1 DEF FullInv, CancelInv
<1> QED BY <1>1, SerialInvariant, PTL
===============================================================================
