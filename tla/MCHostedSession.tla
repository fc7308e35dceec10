--------------------------- MODULE MCHostedSession ---------------------------
(* Instances of HostedSession for TLC. *)
EXTENDS HostedSession

CONSTANTS o1, o2, c1, c2
=============================================================================
