SPECIFICATION FairSpec
CONSTANTS
  c1 = c1
  c2 = c2
  s1 = s1
  s2 = s2
  f1 = f1
  Modes <- AllModes
  Client <- Clients
  First = c1
  Step <- Steps
  File <- Files
  Uses <- AllUse
  Stubborn <- OneStubborn
  MaxEdit = 1
  MaxStop = 2
  MaxSignal = 2
CHECK_DEADLOCK FALSE
INVARIANTS
  Exclusive
  EditsKept
PROPERTIES
  PhasesAlternate
  StopEnds
