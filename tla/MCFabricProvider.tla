------------------------- MODULE MCFabricProvider -------------------------
(* Instances of FabricProvider for TLC. *)
EXTENDS FabricProvider, TLC

Sub(attempt, nonce, incarnation, issued, expires, flaw) ==
  [issuer |-> "i", attempt |-> attempt, nonce |-> nonce, principal |-> "p",
   incarnation |-> incarnation, issued |-> issued, expires |-> expires, flaw |-> flaw]

\* A submission whose lease expires early; one whose lease becomes valid late,
\* reuses its nonce and does not reconstruct its source; one that the next
\* incarnation may serve under the first one's attempt coordinate; and one that
\* is not authentic.
Submissions ==
  {Sub("a1", "n1", 1, 0, 0, "no"), Sub("a2", "n1", 1, 1, 1, "source"),
   Sub("a1", "n2", 2, 0, 1, "no"), Sub("a3", "n3", 1, 0, 1, "unauthentic")}
=============================================================================
