----------------------------- MODULE MCRunStore -----------------------------
(* Instances of RunStore for TLC.                                          *)
EXTENDS RunStore

CONSTANTS proc1, proc2, run1, run2, run3, plan1

(* One death, one loss of power, or failing system calls.                  *)
MCBudgets == {[faults |-> 0, kills |-> 1, outages |-> 0],
              [faults |-> 0, kills |-> 0, outages |-> 1],
              [faults |-> 1, kills |-> 0, outages |-> 0]}

MCSymmetry == Permutations(Runs) \cup Permutations(Procs)
=============================================================================
