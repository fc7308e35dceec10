--------------------------- MODULE SerialExecutor ---------------------------
(***************************************************************************)
(* What a graph execution promises, without workers, speculation or        *)
(* buffering: operations finish one after the other in ordinal order, the  *)
(* first one that fails ends the run with its error, and the run succeeds  *)
(* only when every operation finished.  The runtime itself may give up at  *)
(* any time, but never after an operation's failure was observed.          *)
(***************************************************************************)
EXTENDS Naturals, Sequences

CONSTANT N       \* operations 1 .. N, in ordinal order

VARIABLES
  verdict,       \* verdict[i]: what operation i evaluates to, "ok" or "fail"
  log,           \* the operations that finished
  result         \* [kind, op]

serialVars == <<verdict, log, result>>

Running == [kind |-> "running", op |-> 0]

SerialInit ==
  /\ verdict \in [1..N -> {"ok", "fail"}]
  /\ log = <<>>
  /\ result = Running

\* The next operation in ordinal order finishes.
Finish ==
  /\ result = Running
  /\ Len(log) < N
  /\ verdict[Len(log) + 1] = "ok"
  /\ log' = Append(log, Len(log) + 1)
  /\ UNCHANGED <<verdict, result>>

\* The next operation in ordinal order fails, and with it the run.
Fail ==
  /\ result = Running
  /\ Len(log) < N
  /\ verdict[Len(log) + 1] = "fail"
  /\ result' = [kind |-> "failed", op |-> Len(log) + 1]
  /\ UNCHANGED <<verdict, log>>

Succeed ==
  /\ result = Running
  /\ Len(log) = N
  /\ result' = [kind |-> "ok", op |-> 0]
  /\ UNCHANGED <<verdict, log>>

\* An infrastructure fault ends the run.
GiveUp ==
  /\ result = Running
  /\ result' = [kind |-> "infrastructure", op |-> 0]
  /\ UNCHANGED <<verdict, log>>

SerialNext == Finish \/ Fail \/ Succeed \/ GiveUp

SerialSpec == SerialInit /\ [][SerialNext]_serialVars
=============================================================================
