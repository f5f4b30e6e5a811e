-------------------------------- MODULE Inbox --------------------------------
(***************************************************************************)
(* One intake item between its human handlers and the suggestion jobs that *)
(* run in the background (src/internal/server/inbox.go, intake_pipeline.go *)
(* and the repositories under src/internal/store).  Every repository call  *)
(* is a transaction of its own; a handler works on the item it read first  *)
(* and writes whole documents back.  A worker is a request or a job.       *)
(***************************************************************************)
EXTENDS Naturals, FiniteSets

CONSTANTS
    Workers,    \* goroutines running at a time
    None,       \* no worker
    Environments, \* what requests may do; a behaviour is in one of them
    Houses,     \* the houses of the organisation
    MaxIssues,  \* bound: issues of the item in a house, replies and mails to each
    Crashes     \* bound: restarts of the process

Actions == {"approve", "edit", "reject", "assign", "restore", "template",
            "suggest", "cancel", "settings"}

\* The requests that come in and the houses suggestions name; whether requests
\* overlap each other; whether a suggestion is asked for beside the item's own
\* triage; whether calls of requests fail, as those of jobs do; how many lookups
\* of an issue fail at most; whether the process may stop.
Environment == [kinds : SUBSET Actions, houses : SUBSET Houses,
                overlap : BOOLEAN, early : BOOLEAN, fails : BOOLEAN,
                misreads : Nat, stops : BOOLEAN]

ASSUME InboxAssumption ==
    /\ None \notin Workers \cup Houses
    /\ Environments \subseteq Environment
    /\ MaxIssues \in Nat
    /\ Crashes \in Nat

VARIABLES
    item,       \* the row of intake_items
    issues,     \* per house, how many issues carry its intake id
    replies,    \* per issue, its intake-reply comments
    mails,      \* per issue, the replies sent by mail
    work,       \* per worker, where it is and what it has read
    job,        \* suggestJobs[item.ID]: its goroutine and its state
    autoOn,     \* AutoEnabled in the row of org_settings
    env,        \* the environment of this behaviour
    misreads,   \* lookups of an issue that failed
    crashes

vars == <<item, issues, replies, mails, work, job, autoOn, env, misreads, crashes>>
case == <<issues, replies, mails>>
org == <<autoOn, env>>
faults == <<misreads, crashes>>

\* The n-th issue of a house; the issues of a house are 1 .. issues[house].
Issues == Houses \X (1 .. MaxIssues)
NoIssue == <<None, 0>>
Handled == {"auto", "approved", "edited", "rejected"}
Status == {"open", "proposed"} \cup Handled
Item == [status : Status, sugg : BOOLEAN, issue : Issues \cup {NoIssue}]
Open == [status |-> "open", sugg |-> FALSE, issue |-> NoIssue]

Places == {"idle", "policy", "suggesting", "suggGet", "suggPut", "assignGet",
           "assignPut", "resetGet", "reset", "restore", "find", "create",
           "workflow", "reply", "mail", "handleGet", "handlePut",
           "countGet", "countPut", "end"}

Idle == [at |-> "idle", kind |-> "none", row |-> Open, doc |-> Open,
         status |-> "open", house |-> None, issue |-> NoIssue,
         replied |-> FALSE, alive |-> TRUE, auto |-> FALSE]

\* phoneNoteAction and ingestMail: the item has just been stored, its triage
\* is under way.
Intake == [Idle EXCEPT !.at = "policy", !.kind = "triage"]

Worker == [at : Places, kind : Actions \cup {"none", "triage", "job"}, row : Item,
           doc : Item, status : Status, house : Houses \cup {None},
           issue : Issues \cup {NoIssue}, replied : BOOLEAN, alive : BOOLEAN,
           auto : BOOLEAN]

TypeOK ==
    /\ item \in Item
    /\ issues \in [Houses -> 0 .. MaxIssues]
    /\ replies \in [Issues -> Nat]
    /\ mails \in [Issues -> Nat]
    /\ work \in [Workers -> Worker]
    /\ job \in [who : Workers \cup {None},
                state : {"none", "running", "done", "cancelled"}]
    /\ autoOn \in BOOLEAN
    /\ env \in Environments
    /\ misreads \in 0 .. env.misreads
    /\ crashes \in 0 .. Crashes

Init ==
    /\ item = Open
    /\ issues = [h \in Houses |-> 0]
    /\ replies = [i \in Issues |-> 0]
    /\ mails = [i \in Issues |-> 0]
    /\ \E first \in Workers :
          work = [w \in Workers |-> IF w = first THEN Intake ELSE Idle]
    /\ job = [who |-> None, state |-> "none"]
    /\ autoOn = TRUE
    /\ env \in Environments
    /\ misreads = 0
    /\ crashes = 0

-----------------------------------------------------------------------------
(* Steps shared by the handlers.                                           *)

\* Mutant: a job whose context has ended is never marked done.
JobEndedInTime(w) ==
    job' = IF job.who = w /\ job.state = "running" /\ work[w].alive
           THEN [job EXCEPT !.state = "done"] ELSE job

\* A goroutine ends; a job that is still the current one is done.
JobEnded(w) ==
    job' = IF job.who = w /\ job.state = "running"
           THEN [job EXCEPT !.state = "done"] ELSE job

Finish(w) ==
    /\ work' = [work EXCEPT ![w] = Idle]
    /\ JobEnded(w)

\* What a step has read is forgotten with the step that uses it.
Go(w, place) ==
    /\ work' = [work EXCEPT ![w].at = place, ![w].doc = Open]
    /\ UNCHANGED job

\* Mutant: the repositories ignore the context.
ReachesAnyway(w) == TRUE

\* A call under the worker's context goes through.
Reaches(w) == work[w].alive

\* intake.Create: the document is written over whatever the row holds.  The
\* request that starts a job still writes under its own context.
Put(w, doc) ==
    /\ Reaches(w) \/ work[w].kind = "suggest"
    /\ item' = doc

\* The last write of a handler.  A job still reads the item and takes the
\* lock before it is done.
Last(w) == IF work[w].kind = "job" THEN Go(w, "end") ELSE Finish(w)

Get(w, place) ==
    /\ Reaches(w)
    /\ work' = [work EXCEPT ![w].doc = item, ![w].at = place]
    /\ UNCHANGED job

\* Mutant: the suggestion is kept.
EmptiedStatusOnly(doc) == [doc EXCEPT !.status = "open"]

Emptied(doc) == [doc EXCEPT !.status = "open", !.sugg = FALSE]

Busy(w) == work[w].at # "idle"

-----------------------------------------------------------------------------
(* inboxCaseAction: the item is read, then the action's conditions decide. *)

Starts(w, kind) ==
    [Idle EXCEPT !.kind = kind, !.row = item, !.status =
        CASE kind = "approve" -> "approved"
          [] kind = "edit" -> "edited"
          [] kind = "reject" -> "rejected"
          [] kind = "template" -> item.status
          [] OTHER -> "open"]

\* Mutant: approving marks the item before its issue exists.
FirstPlaceEarly(kind) ==
    CASE kind \in {"approve", "reject"} -> "handleGet"
      [] kind \in {"edit", "template"} -> "suggGet"
      [] kind = "assign" -> "assignGet"
      [] kind = "restore" -> "restore"
      [] kind \in {"suggest", "cancel"} -> "reset"
      [] kind = "settings" -> "countGet"

FirstPlace(kind) ==
    CASE kind \in {"approve", "reject"} -> "find"
      [] kind \in {"edit", "template"} -> "suggGet"
      [] kind = "assign" -> "assignGet"
      [] kind = "restore" -> "restore"
      [] kind \in {"suggest", "cancel"} -> "reset"
      [] kind = "settings" -> "countGet"

JobRuns == job.state = "running"

\* The early returns of each action.
Admitted(kind) ==
    CASE kind \in {"approve", "edit", "reject"} -> item.sugg
      [] kind = "template" -> item.sugg /\ item.status # "open"
      [] kind = "restore" -> item.sugg /\ item.status = "auto"
      [] kind = "suggest" -> ~JobRuns
      [] kind = "cancel" -> JobRuns
      [] OTHER -> TRUE

\* Where requests do not overlap, they still come beside a job and beside the
\* triage of the poll or the phone note that stored the item.
Beside(v, kind) ==
    \/ work[v].kind = "job"
    \/ work[v].kind = "triage" /\ (kind = "suggest" => env.early)

\* suggest takes the job's slot; cancel marks the job and ends its context.
Request(w, kind) ==
    /\ ~Busy(w)
    /\ kind \in env.kinds
    /\ env.overlap \/ \A v \in Workers : Busy(v) => Beside(v, kind)
    /\ Admitted(kind)
    /\ work' = [v \in Workers |->
           IF v = w THEN [Starts(w, kind) EXCEPT !.at = FirstPlace(kind)]
           ELSE IF kind = "cancel" /\ v = job.who
                THEN [work[v] EXCEPT !.alive = FALSE] ELSE work[v]]
    /\ job' = CASE kind = "suggest" -> [who |-> w, state |-> "running"]
                [] kind = "cancel" -> [job EXCEPT !.state = "cancelled"]
                [] OTHER -> job
    /\ UNCHANGED <<item, case, org, faults>>

\* suggest and cancel, assign after the house is set, and a category on level
\* "manual" write the item they hold as open and without suggestion.
ResetItem(w) ==
    /\ work[w].at = "reset"
    /\ Put(w, Emptied(IF work[w].kind = "assign" THEN work[w].doc
                                                 ELSE work[w].row))
    /\ IF work[w].kind = "suggest"
       THEN /\ work' = [work EXCEPT ![w] =
                   [Idle EXCEPT !.at = "policy", !.kind = "job",
                                !.row = Emptied(work[w].row),
                                !.alive = work[w].alive]]
            /\ UNCHANGED job
       ELSE Last(w)
    /\ UNCHANGED <<case, org, faults>>

AssignGet(w) ==
    /\ work[w].at = "assignGet"
    /\ Get(w, "assignPut")
    /\ UNCHANGED <<item, case, org, faults>>

\* House and unit change, which no property tells apart.
AssignPut(w) ==
    /\ work[w].at = "assignPut"
    /\ Put(w, work[w].doc)
    /\ Go(w, "resetGet")
    /\ UNCHANGED <<case, org, faults>>

ResetGet(w) ==
    /\ work[w].at = "resetGet"
    /\ Get(w, "reset")
    /\ UNCHANGED <<item, case, org, faults>>

Restore(w) ==
    /\ work[w].at = "restore"
    /\ Put(w, [work[w].row EXCEPT !.status = "proposed"])
    /\ Go(w, "countGet")
    /\ UNCHANGED <<case, org, faults>>

-----------------------------------------------------------------------------
(* processIntake, by a job or right after a phone note or mail was stored.  *)

ReadPolicy(w) ==
    /\ work[w].at = "policy"
    /\ Reaches(w)
    /\ work' = [work EXCEPT ![w].at = "suggesting", ![w].auto = autoOn]
    /\ UNCHANGED <<item, case, org, faults, job>>

\* The provider answers; the category's trust level decides what follows.
Levels(w) == {"manual", "propose"} \cup (IF work[w].auto THEN {"auto"} ELSE {})

Suggested(w) ==
    /\ work[w].at = "suggesting"
    /\ Reaches(w)
    /\ \E level \in Levels(w) :
          work' = [work EXCEPT ![w].auto = FALSE,
              ![w].at = CASE level = "manual" -> "reset"
                          [] level = "propose" -> "suggGet"
                          [] level = "auto" -> "find",
              ![w].status = CASE level = "manual" -> "open"
                              [] level = "propose" -> "proposed"
                              [] level = "auto" -> "auto"]
    /\ UNCHANGED <<item, case, org, faults, job>>

\* UpdateSuggestion.
SuggGet(w) ==
    /\ work[w].at = "suggGet"
    /\ Get(w, "suggPut")
    /\ UNCHANGED <<item, case, org, faults>>

SuggPut(w) ==
    /\ work[w].at = "suggPut"
    /\ Put(w, [work[w].doc EXCEPT !.sugg = TRUE, !.status =
               IF work[w].kind = "edit" THEN "proposed" ELSE work[w].status])
    /\ IF work[w].kind = "edit" THEN Go(w, "find") ELSE Last(w)
    /\ UNCHANGED <<case, org, faults>>

-----------------------------------------------------------------------------
(* handleIntake.  Issues are not read or written under the context.        *)

\* Mutant: only the id in the item at hand is looked for.
FoundById(w, h) == work[w].row.issue[1] = h

\* Some issue of the house carries the intake id.
Found(w, h) == issues[h] > 0

\* findIntakeIssue, in the house the suggestion names now: the item's own issue
\* or, when that cannot be read, any that carries its intake id.
Find(w) ==
    /\ work[w].at = "find"
    /\ \E h \in env.houses :
          IF Found(w, h)
          THEN \E n \in 1 .. issues[h] :
                  work' = [work EXCEPT ![w].at = "workflow", ![w].row = Open,
                                       ![w].issue = <<h, n>>]
          ELSE work' = [work EXCEPT ![w].at = "create", ![w].row = Open,
                                    ![w].house = h]
    /\ UNCHANGED <<item, case, org, faults, job>>

\* Get and List answer a failed query like an absent issue.
FindMisreads(w) ==
    /\ work[w].at = "find"
    /\ misreads < env.misreads
    /\ misreads' = misreads + 1
    /\ \E h \in env.houses :
          work' = [work EXCEPT ![w].at = "create", ![w].row = Open,
                               ![w].house = h]
    /\ UNCHANGED <<item, case, org, crashes, job>>

CreateIssue(w) ==
    LET h == work[w].house IN
    /\ work[w].at = "create"
    /\ issues[h] < MaxIssues
    /\ issues' = [issues EXCEPT ![h] = @ + 1]
    /\ work' = [work EXCEPT ![w].at = "reply", ![w].house = None,
                            ![w].issue = <<h, issues[h] + 1>>]
    /\ UNCHANGED <<item, replies, mails, org, faults, job>>

\* UpdateWorkflow returns the issue it has stored, comments included.
UpdateWorkflow(w) ==
    /\ work[w].at = "workflow"
    /\ work' = [work EXCEPT ![w].at = "reply",
                            ![w].replied = replies[work[w].issue] > 0]
    /\ UNCHANGED <<item, case, org, faults, job>>

\* hasIntakeReply on that issue.
NeedsReply(w) == work[w].status # "rejected" /\ ~work[w].replied

AddReply(w) ==
    /\ work[w].at = "reply"
    /\ IF NeedsReply(w)
       THEN /\ replies[work[w].issue] < MaxIssues
            /\ replies' = [replies EXCEPT ![work[w].issue] = @ + 1]
            /\ Go(w, "mail")
       ELSE /\ UNCHANGED replies
            /\ Go(w, "handleGet")
    /\ UNCHANGED <<item, issues, mails, org, faults>>

\* A mail that cannot be sent is recorded and the handling goes on.
SendMail(w) ==
    /\ work[w].at = "mail"
    /\ \/ UNCHANGED mails
       \/ /\ mails[work[w].issue] < MaxIssues
          /\ mails' = [mails EXCEPT ![work[w].issue] = @ + 1]
    /\ Go(w, "handleGet")
    /\ UNCHANGED <<item, issues, replies, org, faults>>

\* UpdateHandling.
HandleGet(w) ==
    /\ work[w].at = "handleGet"
    /\ Get(w, "handlePut")
    /\ UNCHANGED <<item, case, org, faults>>

HandlePut(w) ==
    /\ work[w].at = "handlePut"
    /\ Put(w, [work[w].doc EXCEPT !.status = work[w].status,
                                  !.issue = work[w].issue])
    /\ Go(w, "countGet")
    /\ UNCHANGED <<case, org, faults>>

\* Increment, restore's counter and the settings form: Get and Save of the
\* organisation's whole settings.
CountGet(w) ==
    /\ work[w].at = "countGet"
    /\ Reaches(w)
    /\ work' = [work EXCEPT ![w].at = "countPut", ![w].auto = autoOn]
    /\ UNCHANGED <<item, case, org, faults, job>>

CountPut(w) ==
    /\ work[w].at = "countPut"
    /\ Reaches(w)
    /\ autoOn' = IF work[w].kind = "settings" THEN ~work[w].auto
                                              ELSE work[w].auto
    /\ Last(w)
    /\ UNCHANGED <<item, case, env, faults>>

-----------------------------------------------------------------------------
(* Failures.                                                               *)

\* Any call fails, the provider's and the cancelled context's included; the
\* handler returns the error and what was written stays.
Fails(w) ==
    /\ Busy(w)
    /\ env.fails \/ work[w].kind = "job"
    /\ Finish(w)
    /\ UNCHANGED <<item, case, org, faults>>

\* runSuggestJob returns.
End(w) ==
    /\ work[w].at = "end"
    /\ Finish(w)
    /\ UNCHANGED <<item, case, org, faults>>

\* The job's context reaches its deadline.
Deadline(w) ==
    /\ work[w].kind = "job"
    /\ work[w].alive
    /\ work' = [work EXCEPT ![w].alive = FALSE]
    /\ UNCHANGED <<item, case, org, faults, job>>

Crash ==
    /\ env.stops /\ crashes < Crashes
    /\ crashes' = crashes + 1
    /\ work' = [w \in Workers |-> Idle]
    /\ job' = [who |-> None, state |-> "none"]
    /\ UNCHANGED <<item, case, org, misreads>>

Step(w) ==
    \/ ResetItem(w) \/ AssignGet(w) \/ AssignPut(w) \/ ResetGet(w)
    \/ Restore(w) \/ ReadPolicy(w) \/ Suggested(w) \/ SuggGet(w)
    \/ SuggPut(w) \/ Find(w) \/ FindMisreads(w) \/ CreateIssue(w) \/ UpdateWorkflow(w)
    \/ AddReply(w) \/ SendMail(w) \/ HandleGet(w) \/ HandlePut(w)
    \/ CountGet(w) \/ CountPut(w) \/ End(w) \/ Fails(w) \/ Deadline(w)

Next ==
    \/ \E w \in Workers : Step(w) \/ \E kind \in Actions : Request(w, kind)
    \/ Crash

Spec == Init /\ [][Next]_vars

\* A goroutine that runs gets on.
LiveSpec == Spec /\ \A w \in Workers : WF_vars(Step(w))

-----------------------------------------------------------------------------
(* Properties.                                                             *)

\* Whatever requests, jobs, cancellations, failures and crashes come together,
\* an item that counts as handled has an issue in a house.
Made == \E h \in Houses : issues[h] > 0
HandledHasIssue == item.status \in Handled => Made

\* Requests one at a time, no suggestion asked for beside the item's own triage,
\* and no cancelled job running on beside them.
Serial == ~env.overlap /\ ~env.early /\ "cancel" \notin env.kinds

\* handleIntake can be run again after any failure or crash: with one request
\* at a time it leaves one issue in a house, a second only for a lookup that
\* failed, one reply to each issue and no mail without one.
HandledOnce ==
    Serial => /\ \A h \in Houses : issues[h] <= 1 + misreads
              /\ \A i \in Issues : replies[i] <= 1 /\ mails[i] <= replies[i]

\* While a job or the first triage runs the item offers nothing to approve, so
\* no request can handle it next to them (requests one at a time).
Handling(w) == work[w].at \in {"create", "workflow", "reply", "handlePut"}
JobWorksAlone ==
    Serial => \A v, w \in Workers : v # w => ~(Handling(v) /\ Handling(w))

\* After a cancellation the item is open and without suggestion, though the
\* cancelled goroutine may still be running and whatever it had reached
\* (inbox_suggest_hausv612_test.go:102; requests one at a time that succeed).
CancelHolds ==
    /\ ~env.overlap /\ ~env.early /\ ~env.fails
    /\ job.state = "cancelled"
    /\ \A w \in Workers : Busy(w) => work[w].kind = "job"
    => item.status = "open" /\ ~item.sugg

\* A started suggestion ends, whatever the provider does.
JobEnds == []<>(job.state # "running")

=============================================================================
