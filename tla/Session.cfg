SPECIFICATION Spec
CONSTANTS
  Sessions <- MCSessions
  MaxHeard = 2
INVARIANTS
  CapturesAsAsked
  NothingDropped
  FailsOnlyOnFault
  FailedIsClosed
  CuresFollowSilence
