SPECIFICATION Spec
CONSTANTS
  a = a
  b = b
  c = c
  d = d
  NoKey = NoKey
  Node <- Two
  Daemon <- Two
  Layouts <- TwoLayouts
  MaxChanges = 2
  MaxFaults = 2
SYMMETRY Symmetry
INVARIANTS
  TypeOK
  HaveQdiskHolds
  ServingIsRegistered
  ResignedDoesNotVote
PROPERTIES
  LockSpec
  DeadHolderKeeps
  LostTieStays
