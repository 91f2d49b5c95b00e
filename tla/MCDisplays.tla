----------------------------- MODULE MCDisplays -----------------------------
(* GroundDisplays with three sessions: one to fail, one to join, one to leave. *)
EXTENDS GroundDisplays

CONSTANTS c1, c2, c3
=============================================================================
