SPECIFICATION FairSpec
CONSTANTS
  Submission <- Submissions
  Observation = {"o1"}
  MaxEntries = 2
  Handler = {h1, h2}
  Peer = {"p"}
  Skew = 0
  MaxTime = 1
  MaxIncarnation = 2
INVARIANTS
  SingleExecution
  DurableBeforeEffect
  FinalRepliesAgree
  DefensesIdle
PROPERTIES
  DurableProgress
  ImplementsRegister
  EveryAttemptDecided
CHECK_DEADLOCK FALSE
