SPECIFICATION FairSpec
CONSTANTS
  a = a
  b = b
  Junk = Junk
  Node <- Two
  Layouts <- TwoLayouts
  MaxChanges = 1
  MaxFaults = 1
INVARIANTS
  TypeOK
  ViewIsCurrent
  KeysAreKnown
  WithdrawnKeysForgotten
PROPERTY KeysConverge
CHECK_DEADLOCK FALSE
