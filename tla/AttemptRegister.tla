-------------------------- MODULE AttemptRegister --------------------------
(***************************************************************************)
(* What a fabric provider promises about pure attempts, without threads,   *)
(* ledger, storage or restarts: an attempt is executed at most once, never *)
(* together with one it excludes, and decided at most once; a decision     *)
(* that carries a value follows an execution.                              *)
(***************************************************************************)
EXTENDS Naturals

CONSTANTS
  Submission,  \* attempts
  Exclusive,   \* pairs of attempts of which at most one may execute
  Outcome,     \* decisions
  Value,       \* the decisions that carry a computed value
  Undecided    \* not a decision

VARIABLES
  outcome,     \* outcome[s]: the decision about s
  runs         \* runs[s]: how often s was executed

registerVars == <<outcome, runs>>

RegisterInit ==
  /\ outcome = [s \in Submission |-> Undecided]
  /\ runs = [s \in Submission |-> 0]

\* The effect happens: before any decision, and once.
Execute(s) ==
  /\ outcome[s] = Undecided
  /\ runs[s] = 0
  /\ \A t \in Submission : <<s, t>> \in Exclusive => runs[t] = 0
  /\ runs' = [runs EXCEPT ![s] = @ + 1]
  /\ UNCHANGED outcome

\* Any number of undecided attempts are decided at once (a restart abandons
\* all of them); decisions are never revised.
Decide ==
  /\ outcome' \in [Submission -> Outcome \cup {Undecided}]
  /\ \A s \in Submission :
       /\ outcome[s] # Undecided => outcome'[s] = outcome[s]
       /\ outcome'[s] \in Value => runs[s] = 1
  /\ UNCHANGED runs

RegisterNext == Decide \/ \E s \in Submission : Execute(s)

RegisterSpec == RegisterInit /\ [][RegisterNext]_registerVars
=============================================================================
