------------------------------ MODULE MCInbox ------------------------------
(* The inbox on a small instance; workers are interchangeable. *)
EXTENDS Inbox, TLC

CONSTANTS h1, h2

WorkerSymmetry == Permutations(Workers)

\* Two requests at a time, or a request and jobs.
Overlapping == [kinds |-> {"approve", "suggest", "cancel"},
                houses |-> {h1}, overlap |-> TRUE, early |-> TRUE,
                fails |-> TRUE, misreads |-> 0, stops |-> FALSE]

\* Two at a time, from templates or assigned anew.
Templating == [Overlapping EXCEPT !.kinds = {"approve", "template", "assign"}]

\* One request at a time beside the item's triage and a job, with failures and
\* a restart; a lookup of the issue may fail.
OneByOne == [kinds |-> Actions \ {"cancel"}, houses |-> {h1},
             overlap |-> FALSE, early |-> FALSE,
             fails |-> TRUE, misreads |-> 1, stops |-> TRUE]

\* The item moves between two houses.
Moving == [kinds |-> {"approve", "edit", "suggest"}, houses |-> {h1, h2},
           overlap |-> FALSE, early |-> FALSE,
           fails |-> TRUE, misreads |-> 1, stops |-> FALSE]

\* Every request about the item, one at a time beside jobs and cancelled jobs.
Cancelling == [kinds |-> Actions \ {"settings"}, houses |-> {h1},
               overlap |-> FALSE, early |-> FALSE,
               fails |-> FALSE, misreads |-> 0, stops |-> FALSE]

\* Two triages of the item at once, which leave it handled with a suggestion.
Restoring == [kinds |-> {"suggest", "restore"}, houses |-> {h1},
              overlap |-> FALSE, early |-> TRUE,
              fails |-> FALSE, misreads |-> 0, stops |-> FALSE]

\* Suggestions asked for and cancelled.
Suggesting == [kinds |-> {"suggest", "cancel"}, houses |-> {h1},
               overlap |-> TRUE, early |-> TRUE,
               fails |-> FALSE, misreads |-> 0, stops |-> FALSE]

Everyday == {Overlapping, Templating, OneByOne, Moving, Cancelling,
             Restoring}
Jobs == {Suggesting}
=============================================================================
