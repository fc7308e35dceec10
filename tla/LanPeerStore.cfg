SPECIFICATION FairSpec
CONSTANTS
    NoFile = NoFile  NoDir = NoDir  NoProc = NoProc  NoMaterial = NoMaterial
    proc1 = proc1  proc2 = proc2  id1 = id1  id2 = id2  bundle1 = bundle1
    Procs = {proc1, proc2}
    Paired = {id1, id2}
    Open = {bundle1}
    V2 = {id1, id2}
    Budgets <- MCBudgets
INVARIANT PeersSound
PROPERTY OperationsEnd
