SPECIFICATION FairSpec
CONSTANTS
  N = 10
  Kind <- PlanKind
  Deps <- PlanDeps
  Member <- PlanMember
  Group = {"g"}
  NoGroup = "none"
  Region <- PlanRegion
  Capacity = 2
  MaxCalls = 1
INVARIANTS
  SchedulerSound
  EffectOrder
  CleanReturn
PROPERTIES
  ImplementsSerial
  RunReturns
