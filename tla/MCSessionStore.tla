---------------------------- MODULE MCSessionStore ----------------------------
(* An instance of SessionStore: s2 is closed already and waits to be collected. *)
EXTENDS SessionStore

CONSTANTS s1, s2

\* Collecting s1 frees nothing, collecting any other session frees two frames.
MCReclaimed == [s \in Sessions |-> IF s = s1 THEN 0 ELSE 2]
=============================================================================
