SPECIFICATION FairSpec
CONSTANTS
  o1 = o1
  o2 = o2
  c1 = c1
  c2 = c2
  None = none
  Ops = {o1, o2}
  Calls = {c1, c2}
  Tiers = {"stateless", "checkpoint", "live"}
  StateBytes = 14
  MaxCommits = 4
  MaxFaults = 2
  MaxRestarts = 2
INVARIANTS RecordSound StateKept HeadroomHolds
PROPERTIES VerdictsTrue SessionProgress
CHECK_DEADLOCK FALSE
