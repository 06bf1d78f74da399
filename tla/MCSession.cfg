SPECIFICATION SessionSpec
CONSTANTS
  t1 = t1
  t2 = t2
  t3 = t3
  row1 = row1
  row2 = row2
  Task <- MCTask
  Row <- MCRow
  Table <- MCTable
  NodeTable = "node"
  MaxCommits = 3
  MaxCrashes = 3
CHECK_DEADLOCK FALSE
INVARIANTS
  Isolated
  UpIsComplete
PROPERTIES
  ForeignUntouched
  WaitersServed
