SPECIFICATION FairRestAdminSpec
CONSTANTS
  a = a
  b = b
  c = c
  d = d
  NoKey = NoKey
  Node <- Two
  Daemon <- Two
  Layouts <- TwoLayouts
  MaxChanges = 1
  MaxFaults = 0
  Hosts = {a}
  Kinds = {"nvme", "scsi"}
  MaxCommands = 1
INVARIANTS
  AdminTypeOK
  FewStaleWinners
PROPERTIES
  BrokenLockSpec
  OneWinnerAgain
  ExpelledStops
