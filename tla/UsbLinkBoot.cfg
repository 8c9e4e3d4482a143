SPECIFICATION Spec
CONSTANTS
  Rx = Rx
  Main = Main
  Others = {}
  Nobody = Nobody
  SeqMod = 7
  QueueLen = 1
  RingCap = 2
  ChunkCap = 2
  PipeCap = 2
  MaxDrops = 0
  MaxNumber = 6
INVARIANT CountedOnceFromBoot
CHECK_DEADLOCK FALSE
