SPECIFICATION FairSpec
CONSTANTS
  plan = plan
  s1 = s1
  s2 = s2
  s3 = s3
  f1 = f1
  f2 = f2
  t1 = t1
  t2 = t2
  Step <- Steps
  Boot = plan
  File <- Files
  TreeFile <- InTree
  Gone <- JustF2
  Unreadable <- JustT2
  Faulty <- JustS1
  Declares <- PlanDeclares
  Creates <- PlanCreates
  Uses <- StepUses
  Amends <- StepAmends
  NJob = 2
CHECK_DEADLOCK FALSE
INVARIANTS
  HashedOnce
  NoLostWake
  AmendSeesState
PROPERTIES
  PhaseEnds
