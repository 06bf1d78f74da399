SPECIFICATION FairSpec
CONSTANTS
  p = p
  c = c
  d = d
  src = src
  ext = ext
  a = a
  b = b
  e = e
  Static = Static
  Step <- TwoSteps
  File <- ThreeFiles
  Maker <- ThreeMaker
  Inp <- AmendInp
  Dyn <- AmendDyn
  WatchEdits <- ThreeFiles
  BuildEdits = {}
  NJob = 2
  DeferCap = 2
  MaxEvents = 1
PROPERTIES
  BuildEnds
CHECK_DEADLOCK FALSE
