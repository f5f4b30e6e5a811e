---------------------------- MODULE MCMailIntake ----------------------------
(* Mail intake on a small instance. *)
EXTENDS MailIntake

\* Mail 3 is a second copy of mail 1.
Copied == [u \in 1 .. 3 |-> IF u = 3 THEN 1 ELSE u]
=============================================================================
