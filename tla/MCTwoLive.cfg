SPECIFICATION FairRestOrTieSpec
CONSTANTS
  a = a
  b = b
  c = c
  d = d
  NoKey = NoKey
  Node <- Two
  Daemon <- Two
  Layouts <- TwoLayouts
  MaxChanges = 1
  MaxFaults = 1
PROPERTIES
  LastingTieHasOneSide
  UnusedReservationReleased
  SplitDecides
  MajorityReturnsToIdle
  StopGivesUp
