SPECIFICATION Spec
CONSTANTS
  a = a
  b = b
  Junk = Junk
  Node <- Two
  Layouts <- TwoLayouts
  MaxChanges = 1
  MaxFaults = 1
PROPERTY StartNotRefused
CHECK_DEADLOCK FALSE
