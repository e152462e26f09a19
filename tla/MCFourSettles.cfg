SPECIFICATION FairRestSpec
CONSTANTS
  a = a
  b = b
  c = c
  d = d
  NoKey = NoKey
  Node <- Four
  Daemon <- AB
  Layouts <- OneSplit
  MaxChanges = 1
  MaxFaults = 0
PROPERTY SplitSettles
