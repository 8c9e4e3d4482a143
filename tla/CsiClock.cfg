SPECIFICATION Spec
CONSTANTS
  Wrap = 8
  StallLimit = 1
  StallMax = 2
  MaxSec = 9
PROPERTY CsiSharesClock
CHECK_DEADLOCK FALSE
