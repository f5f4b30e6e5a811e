----------------------------- MODULE LinkPromise -----------------------------
(***************************************************************************)
(* What the login promises about each one-time link, whatever the delivery *)
(* does: a link is issued, reaches its recipient or becomes void, lets in  *)
(* at most one session, and only one whose link was sent; a void link      *)
(* stays void.  src/internal/server/magic_link_delivery.go and the token   *)
(* store of src/internal/auth/auth.go are what has to keep it.             *)
(***************************************************************************)
EXTENDS Naturals

CONSTANT Links

VARIABLES
    fate,       \* per link, how far it has come
    logins      \* per link, the sessions it has opened

promise == <<fate, logins>>

Fate == {"new", "pending", "sent", "opened", "void"}

Init ==
    /\ fate = [l \in Links |-> "new"]
    /\ logins = [l \in Links |-> 0]

\* A request issues its token; the link is on its way.
Issue(l) ==
    /\ fate[l] = "new"
    /\ fate' = [fate EXCEPT ![l] = "pending"]
    /\ UNCHANGED logins

\* The link reaches the recipient.
Send(l) ==
    /\ fate[l] = "pending"
    /\ fate' = [fate EXCEPT ![l] = "sent"]
    /\ UNCHANGED logins

\* Links expire, are withdrawn, or are lost with the process.
Void(S) ==
    /\ \A l \in S : fate[l] \in {"pending", "sent"}
    /\ fate' = [l \in Links |-> IF l \in S THEN "void" ELSE fate[l]]
    /\ UNCHANGED logins

\* The recipient follows the link.
Open(l) ==
    /\ fate[l] = "sent"
    /\ fate' = [fate EXCEPT ![l] = "opened"]
    /\ logins' = [logins EXCEPT ![l] = @ + 1]

Next ==
    \/ \E l \in Links : Issue(l) \/ Send(l) \/ Open(l)
    \/ \E S \in SUBSET Links : Void(S)

Spec == Init /\ [][Next]_promise

=============================================================================
