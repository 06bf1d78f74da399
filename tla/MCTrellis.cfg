SPECIFICATION Spec
CONSTANTS
  Step = {s1, s2}
  File = {f1}
  Tree = {t1}
  Root = Root
  NoNode = NoNode
SYMMETRY Symmetric
INVARIANTS
  TypeOK
  Consistent
  DependencyAcyclic
  RecordComplete
PROPERTIES
  DeletesExactly
