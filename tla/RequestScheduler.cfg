SPECIFICATION FairSpec
CONSTANTS
    NoRequest = NoRequest
    proc1 = proc1  proc2 = proc2  i1 = i1  r1 = r1  d1 = d1  e1 = e1  m1 = m1
    Procs = {proc1, proc2}
    Requests = {i1, r1, e1, d1, m1}
    Source <- MCSource
    Kind <- MCKind
    Malformed = {m1}
    Buffers <- MCBuffers
    EvalFns = {TRUE, FALSE}
    Parallelism = 2
    MaxBatches = 1
    MaxFaults = 1
    MaxKills = 1
INVARIANTS BatchSound
PROPERTIES BatchEnds
CHECK_DEADLOCK FALSE
