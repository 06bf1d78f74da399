CONSTANTS
  make = make
  mid = mid
  use = use
  Step <- MCStep
  Needs <- MCNeeds
  Inps <- MCInps
  Amends <- MCAmends
  Units <- MCUnits
  Available = 1
  Durations = {2}
  DeferCap = 1
  TargetSets <- MCTargetSets
  MaxEvents = 1
SPECIFICATION Spec
CHECK_DEADLOCK FALSE
INVARIANTS
  NeedCovers
  ReadyAgrees
  PendingExplained
  CleanIsComplete
