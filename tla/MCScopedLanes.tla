---------------------------- MODULE MCScopedLanes ----------------------------
(* The lanes on a small instance: two requests, three keys, two lanes. *)
EXTENDS ScopedLanes
=============================================================================
