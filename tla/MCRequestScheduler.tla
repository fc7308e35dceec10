------------------------ MODULE MCRequestScheduler ------------------------
(* An instance of RequestScheduler: i1 instantiates what a lazy block e1   *)
(* evaluates to, r1 realises its derivation, d1 and m1 are dry activations *)
(* and the source of m1 is malformed.                                      *)
EXTENDS RequestScheduler, TLC

CONSTANTS proc1, proc2, i1, r1, d1, e1, m1

MCSource == (i1 :> e1) @@ (r1 :> i1) @@ [r \in {d1, e1, m1} |-> NoRequest]
MCKind == (e1 :> "eval") @@ [r \in {i1, r1} |-> "nix"] @@ [r \in {d1, m1} |-> "dry"]
MCBuffers == (proc1 :> {{r1}, {i1, d1}, {m1}}) @@ (proc2 :> {{d1}})
===========================================================================
