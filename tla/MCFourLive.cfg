SPECIFICATION FairRestSpec
CONSTANTS
  a = a
  b = b
  c = c
  d = d
  NoKey = NoKey
  Node <- Four
  Daemon <- AB
  Layouts <- AloneOrWhole
  MaxChanges = 2
  MaxFaults = 0
PROPERTIES
  MajorityReturnsToIdle
  MinorityYields
  SplitDecides
