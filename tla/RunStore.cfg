SPECIFICATION Spec
CONSTANTS
    NoRun = NoRun  NoPlan = NoPlan  NoProc = NoProc
    proc1 = proc1  proc2 = proc2
    run1 = run1  run2 = run2  run3 = run3  plan1 = plan1
    Procs = {proc1, proc2}
    Runs = {run1, run2, run3}
    Plans = {plan1}
    MaxAttempts = 2
    MaxBytes = 2
    Budgets <- MCBudgets
SYMMETRY MCSymmetry
INVARIANTS StoreSound
PROPERTIES PromisesKept
CHECK_DEADLOCK FALSE
