SPECIFICATION Spec
CONSTANTS
  p = p
  c = c
  d = d
  src = src
  ext = ext
  a = a
  b = b
  e = e
  Static = Static
  Step <- ThreeSteps
  File <- MixedFiles
  Maker <- MixedMaker
  Inp <- MixedInp
  Dyn <- MixedDyn
  WatchEdits <- MixedFiles
  BuildEdits <- BothStatic
  NJob = 2
  DeferCap = 2
  MaxEvents = 2
INVARIANTS
  TypeOK
  PendingHasCause
  BuiltBySucceeded
  DeferredIsBlocked
CHECK_DEADLOCK FALSE
