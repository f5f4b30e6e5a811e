----------------------------- MODULE MCCharging -----------------------------
(* Charging on a small instance; sessions are interchangeable. *)
EXTENDS Charging, TLC

SessionSymmetry == Permutations(Ids)
=============================================================================
