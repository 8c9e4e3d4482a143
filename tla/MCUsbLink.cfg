SPECIFICATION Spec
CONSTANTS
  Rx = Rx
  Main = Main
  Others = {}
  Nobody = Nobody
  SeqMod = 3
  QueueLen = 1
  RingCap = 2
  ChunkCap = 2
  PipeCap = 1
  MaxDrops = 1
  MaxNumber = 5
INVARIANTS
  TypeOK
  InOrder
  GapsAreMissing
  LossCountedOnce
  LosslessIsTrue
PROPERTY LedgerSpec
CHECK_DEADLOCK FALSE
