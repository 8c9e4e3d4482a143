SPECIFICATION FairSpec
CONSTANTS
  LateFrames = 3
  MaxFrames = 5
  MaxLost = 1
  MaxChecks = 2
  MaxAsks = 1
INVARIANTS
  GapsAreLost
  HeardAsMeant
  PutBack
  OneResult
  AntennaKnown
PROPERTIES
  CheckEnds
  StopEnds
CHECK_DEADLOCK FALSE
