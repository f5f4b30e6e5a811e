---------------------------- MODULE MCLoginLinks ----------------------------
(* Login links on a small instance.  Links and workers are interchangeable, *)
(* but the run checks liveness, so no symmetry is declared.                 *)
EXTENDS LoginLinks

=============================================================================
