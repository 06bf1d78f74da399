SPECIFICATION Spec
CONSTANTS
  plan = plan
  sub = sub
  work = work
  data = data
  part = part
  prod = prod
  dir = dir
  pat = pat
  Step <- MCStep
  Plan = plan
  File <- MCFile
  Tree = {dir}
  Under <- MCUnder
  Inside <- MCInside
  Glob = {pat}
  Matches <- MCMatches
  Statics <- MCStatics
  Globs <- MCGlobs
  Defines <- MCDefines
  Amends <- MCAmends
  UserFiles = {data, part}
  MaxEvents = 3
INVARIANT UpdatesExpected
CHECK_DEADLOCK FALSE
