SPECIFICATION Spec
CONSTANTS
  LateFrames = 3
  MaxFrames = 3
  MaxLost = 1
  MaxChecks = 1
  MaxAsks = 0
INVARIANT AlwaysPutBack
CHECK_DEADLOCK FALSE
