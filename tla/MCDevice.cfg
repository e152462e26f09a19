SPECIFICATION FairSpec
CONSTANTS
  host = host
  old = old
  Key <- TwoKeys
  HostKey = host
  OtherKey = OtherKey
  Zero = Zero
  NoKey = NoKey
  Kinds <- BothKinds
  MaxFaults = 2
  MaxChanges = 3
INVARIANTS
  TypeOK
  HeartbeatSawTheDisk
  ZeroNeverActs
  KeyFileIsRewritten
PROPERTIES
  ServesUnderItsKey
  UnusedReservationReleased
CHECK_DEADLOCK FALSE
