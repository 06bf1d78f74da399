SPECIFICATION Spec
CONSTANTS
  p = p
  c = c
  d = d
  src = src
  ext = ext
  a = a
  b = b
  e = e
  Static = Static
  Step <- ThreeSteps
  File <- FiveFiles
  Maker <- FiveMaker
  Inp <- LateInp
  Dyn <- LateDyn
  WatchEdits <- OnlySrc
  BuildEdits = {}
  NJob = 2
  DeferCap = 2
  MaxEvents = 4
INVARIANTS
  UpToDate
PROPERTIES
  InputsStay
CHECK_DEADLOCK FALSE
