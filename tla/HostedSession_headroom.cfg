SPECIFICATION Spec
CONSTANTS
  o1 = o1
  o2 = o2
  c1 = c1
  c2 = c2
  None = none
  Ops = {o1}
  Calls = {c1}
  Tiers = {"stateless", "checkpoint", "live"}
  StateBytes = 10
  MaxCommits = 4
  MaxFaults = 1
  MaxRestarts = 1
INVARIANTS StaysReadable
CHECK_DEADLOCK FALSE
