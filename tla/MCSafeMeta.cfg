SPECIFICATION Spec
CONSTANTS
  plan = plan
  sub = sub
  leaf = leaf
  tip = tip
  Root = Root
  Step <- Chain3
  Parent <- ChainParent
  MaxHold = 2
INVARIANTS
  TypeOK
  SafeIsSound
  HoldOwned
PROPERTIES
  DispatchIsSafe
