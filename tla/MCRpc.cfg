SPECIFICATION FairSpec
CONSTANTS
  c1 = c1
  c2 = c2
  c3 = c3
  Caller <- TwoCallers
  Kinds <- BothKinds
  Unpicklable <- OnlySecond
  Patient <- OnlySecond
  Buffer = 0
CHECK_DEADLOCK FALSE
INVARIANTS
  NoneLost
  InStep
PROPERTIES
  Implements
  AllEnds
