SPECIFICATION FairSpec
CONSTANTS
  Task = {t1, t2}
  Token = {k1, k2}
  MaxGeneration = 3
  Capacity = 3
  Local = local
INVARIANTS
  OneCurrentAttempt
  DeliveredOnce
  SlotsExact
PROPERTIES
  DriverProgress
