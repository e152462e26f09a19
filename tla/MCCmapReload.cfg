SPECIFICATION Spec
CONSTANTS
  Configs <- SmallConfigs
  MaxChanges = 2
  MaxLosses = 1
PROPERTY WaitsForFullReload
CHECK_DEADLOCK FALSE
