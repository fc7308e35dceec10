-------------------------- MODULE MCAttemptDriver --------------------------
(* Instances of AttemptDriver for TLC. *)
EXTENDS AttemptDriver, TLC

=============================================================================
