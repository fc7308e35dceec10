SPECIFICATION Spec
CONSTANTS
  s1 = s1
  s2 = s2
  Authority = authority
  Sessions = {s1, s2}
  Headroom = 2
  Reclaimed <- MCReclaimed
  Found = {s2}
  LossAfterKill = FALSE
  MaxOrdinary = 1
INVARIANTS RestartAgrees ConfirmedDurable
PROPERTIES KeepsPromise
