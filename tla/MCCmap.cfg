SPECIFICATION FairSpec
CONSTANTS
  Configs <- SmallConfigs
  MaxChanges = 1
  MaxLosses = 2
INVARIANTS
  TypeOK
  CountIsCurrent
PROPERTY CountConverges
CHECK_DEADLOCK FALSE
