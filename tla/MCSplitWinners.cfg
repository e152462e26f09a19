SPECIFICATION RestSpec
CONSTANTS
  a = a
  b = b
  c = c
  d = d
  NoKey = NoKey
  Node <- Four
  Daemon <- ABC
  Layouts <- OneSplit
  MaxChanges = 1
  MaxFaults = 0
INVARIANT WinnersOnHoldersSide
PROPERTY WonTieStays
