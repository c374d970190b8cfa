-------------------------- MODULE MCSuspendResume --------------------------
(* SuspendResume for TLC: one collector and a caller. *)
EXTENDS SuspendResume
=============================================================================
