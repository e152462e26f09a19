SPECIFICATION FairRestSpec
CONSTANTS
  a = a
  b = b
  c = c
  d = d
  NoKey = NoKey
  Node <- ABC
  Daemon <- AB
  Layouts <- OddLayouts
  MaxChanges = 2
  MaxFaults = 0
PROPERTY MajorityReturnsToIdle
