-------------------------------- MODULE Ballots --------------------------------
(***************************************************************************)
(* One ballot of a house (src/internal/store/vote_sql.go,                  *)
(* src/internal/server/votes.go).  The row holds the whole ballot as one   *)
(* document: an operation reads it, changes its copy and writes the copy   *)
(* back with an upsert.  Under READ COMMITTED the read takes no lock, so   *)
(* other operations may write between the two; the reminder worker works   *)
(* beside the requests.  A vote takes its time when its request arrives,   *)
(* which may be before the ballot is read.                                 *)
(***************************************************************************)
EXTENDS Naturals, FiniteSets

CONSTANTS
    Voters,
    Options,
    Requests,   \* requests running at a time
    Horizon,    \* bound: the clock runs from 1 to here
    Deadline,   \* the ballot's ClosesAt, 0 for none
    Reminder    \* ReminderBeforeMinutes

VARIABLES
    doc,        \* the row: status ("gone": none), votes, reminded, closes
    now,
    request,    \* per request: what it has read and what it will write
    attaching,  \* createBallot has not yet stored the attachments
    worker,     \* the reminder worker: step, recipients, read, to write
    acked,      \* history: the last vote acknowledged, per voter
    issued,     \* history: the protocol handed out last: the row's status, votes, deadline
    mailed,     \* history: who was reminded, unless the mark was lost since
    twice,      \* history: who was reminded again all the same
    overtaken   \* history: a document was written over a newer one

vars == <<doc, now, request, attaching, worker, acked, issued, mailed, twice, overtaken>>
history == <<acked, issued, mailed, twice, overtaken>>

NoVote == [option |-> "none", at |-> 0]
NoVotes == [v \in Voters |-> NoVote]
Gone == [status |-> "gone", votes |-> NoVotes, reminded |-> {}, closes |-> 0]
Draft == [Gone EXCEPT !.status = "draft", !.closes = Deadline]
Quiet == [at |-> "idle", read |-> Gone, new |-> Gone]
Asleep == [at |-> "idle", to |-> {}, read |-> Gone, new |-> Gone]

Votes == [Voters -> {NoVote} \cup [option : Options, at : 1 .. Horizon]]
Document == [status : {"gone", "draft", "open", "closed"}, votes : Votes,
             reminded : SUBSET Voters, closes : 0 .. Horizon]
Protocols == [status : {"open", "closed"}, votes : Votes, closes : 0 .. Horizon]

TypeOK ==
    /\ doc \in Document
    /\ now \in 1 .. Horizon
    /\ request \in [Requests -> [at : {"idle", "write"}, read : Document, new : Document]]
    /\ attaching \in BOOLEAN
    /\ worker \in [at : {"idle", "mail", "mark", "write"}, to : SUBSET Voters,
                   read : Document, new : Document]
    /\ acked \in Votes
    /\ issued \in {{}} \cup {{p} : p \in Protocols}
    /\ mailed \subseteq Voters
    /\ twice \subseteq Voters
    /\ overtaken \in BOOLEAN

Init ==
    /\ doc = Draft
    /\ now = 1
    /\ request = [r \in Requests |-> Quiet]
    /\ attaching \in BOOLEAN
    /\ worker = Asleep
    /\ acked = NoVotes
    /\ issued = {}
    /\ mailed = {}
    /\ twice = {}
    /\ overtaken = FALSE
-------------------------------------------------------------------------------
(* What an operation makes of the document it has read, at its time.        *)

Late(d, at) == d.closes # 0 /\ d.closes <= at
Shut(d) == [d EXCEPT !.status = "closed"]

\* Mutant: a closed ballot opens like a draft.
OpenableAny(d) == d.status # "gone"

\* setStatus refuses to reopen.
Openable(d) == d.status \notin {"gone", "closed"}

\* A ballot closed by hand closes now, unless it was due already.
ClosedNow(d) == [Shut(d) EXCEPT !.closes = IF @ = 0 \/ @ > now THEN now ELSE @]

TakesVotes(d, at) == d.status = "open" /\ ~Late(d, at)

\* castVote on an open ballot past its deadline persists the closure instead.
Cast(d, v, o, at) ==
    IF TakesVotes(d, at) THEN [d EXCEPT !.votes[v] = [option |-> o, at |-> at]] ELSE Shut(d)

Expirable(d) == d.status = "open" /\ Late(d, now)

\* ballotReminderDue
Due(d) == d.status = "open" /\ d.closes # 0 /\ now < d.closes /\ d.closes <= now + Reminder

\* Mutant: reminded voters are asked again.
RecipientsVoted(d) == {v \in Voters : d.votes[v] = NoVote}

\* ballotReminderRecipients
Recipients(d) == {v \in Voters : d.votes[v] = NoVote /\ v \notin d.reminded}
-------------------------------------------------------------------------------
(* The requests.                                                            *)

Read(r, new) ==
    /\ request[r].at = "idle" /\ doc.status # "gone"
    /\ request' = [request EXCEPT ![r] = [at |-> "write", read |-> doc, new |-> new]]
    /\ UNCHANGED <<doc, now, attaching, worker, history>>

Open(r) == Openable(doc) /\ Read(r, [doc EXCEPT !.status = "open"])

Close(r) == Read(r, ClosedNow(doc))

\* A request that shows the ballots closes the expired ones first.
CloseExpired(r) == Expirable(doc) /\ Read(r, Shut(doc))

CastVote(r, v, o, at) == doc.status = "open" /\ Read(r, Cast(doc, v, o, at))

\* writeTx and commit: the copy replaces whatever is there, marks included.
Replace(read, new) ==
    /\ doc' = new
    /\ mailed' = mailed \ (doc.reminded \ new.reminded)
    /\ overtaken' = (overtaken \/ doc # read)

Write(r) ==
    LET new == request[r].new
        read == request[r].read IN
    /\ request[r].at = "write"
    /\ Replace(read, new)
    /\ request' = [request EXCEPT ![r] = Quiet]
    /\ acked' = [v \in Voters |-> IF new.votes[v] # read.votes[v]
                                  THEN new.votes[v] ELSE acked[v]]
    /\ UNCHANGED <<now, attaching, worker, issued, twice>>

\* The process stops, or the statement fails, before the commit.
Fail(r) ==
    /\ request[r].at = "write"
    /\ request' = [request EXCEPT ![r] = Quiet]
    /\ UNCHANGED <<doc, now, attaching, worker, history>>

\* createBallot: the attachments are stored, or the ballot is deleted again.
Attached ==
    /\ attaching
    /\ attaching' = FALSE
    /\ UNCHANGED <<doc, now, request, worker, history>>

AttachmentsFail ==
    /\ attaching
    /\ attaching' = FALSE
    /\ Replace(Draft, Gone)
    /\ UNCHANGED <<now, request, worker, acked, issued, twice>>

\* ballotForSupport: the support view, which writes nothing, shows an expired
\* ballot as closed though its row is still open.
ShownClosed == doc.status = "closed" \/ Expirable(doc)

\* The protocol of a ballot that is shown closed is handed out.
Protocol ==
    /\ ShownClosed
    /\ issued' = {[status |-> doc.status, votes |-> doc.votes, closes |-> doc.closes]}
    /\ UNCHANGED <<doc, now, request, attaching, worker, acked, mailed, twice, overtaken>>
-------------------------------------------------------------------------------
(* The reminder worker (sendDueBallotReminders); its CloseExpired is the    *)
(* one of the requests.                                                     *)

List ==
    /\ worker.at = "idle" /\ Due(doc) /\ Recipients(doc) # {}
    /\ worker' = [Asleep EXCEPT !.at = "mail", !.to = Recipients(doc)]
    /\ UNCHANGED <<doc, now, request, attaching, history>>

\* notify returns those the mail went out to.
Mail(sent) ==
    /\ worker.at = "mail" /\ sent \subseteq worker.to
    /\ worker' = IF sent = {} THEN Asleep ELSE [Asleep EXCEPT !.at = "mark", !.to = sent]
    /\ mailed' = mailed \cup sent
    /\ twice' = twice \cup (mailed \cap sent)
    /\ UNCHANGED <<doc, now, request, attaching, acked, issued, overtaken>>

MarkReminderSent ==
    /\ worker.at = "mark" /\ doc.status # "gone"
    /\ worker' = [worker EXCEPT !.at = "write", !.read = doc,
                                !.new = [doc EXCEPT !.reminded = @ \cup worker.to]]
    /\ UNCHANGED <<doc, now, request, attaching, history>>

WriteMark ==
    /\ worker.at = "write"
    /\ Replace(worker.read, worker.new)
    /\ worker' = Asleep
    /\ UNCHANGED <<now, request, attaching, acked, issued, twice>>

\* The ballot is gone, the statement fails or the process stops after the mail.
MarkFails ==
    /\ worker.at \in {"mark", "write"}
    /\ worker' = Asleep
    /\ mailed' = mailed \ worker.to
    /\ UNCHANGED <<doc, now, request, attaching, acked, issued, twice, overtaken>>

Tick ==
    /\ now < Horizon
    /\ now' = now + 1
    /\ UNCHANGED <<doc, request, attaching, worker, history>>

Next ==
    \/ \E r \in Requests :
          \/ Open(r) \/ Close(r) \/ CloseExpired(r) \/ Write(r) \/ Fail(r)
          \/ \E v \in Voters, o \in Options, at \in 1 .. now : CastVote(r, v, o, at)
    \/ Attached \/ AttachmentsFail \/ Protocol
    \/ List \/ (\E sent \in SUBSET Voters : Mail(sent)) \/ MarkReminderSent \/ WriteMark \/ MarkFails
    \/ Tick

Spec == Init /\ [][Next]_vars
-------------------------------------------------------------------------------
(* Properties.                                                              *)

\* As long as no document is written over a newer one, the row holds exactly
\* the votes that were acknowledged, and a protocol that was handed out is
\* final: its ballot stays closed with those votes.  A protocol of the support
\* view, whose row was still open, may be amended, but only by votes cast before
\* the deadline it shows (castVote, setStatus, closeExpiredTenant,
\* markReminderSent, ballotProtocol, ballotForSupport).
CountsTrue ==
    ~overtaken =>
        /\ doc.status # "gone" => doc.votes = acked
        /\ \A p \in issued :
              /\ p.status = "closed" => doc.status = "closed" /\ doc.votes = p.votes
              /\ doc.status \in {"open", "closed"}
              /\ \A v \in Voters : doc.votes[v] # p.votes[v] => doc.votes[v].at < p.closes

\* A voter is reminded a second time only when the mark of the first reminder
\* was not written or was erased by another write (sendDueBallotReminders,
\* markReminderSent).
RemindedOnce == twice = {}
===============================================================================
