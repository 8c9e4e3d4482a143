SPECIFICATION FairSpec
CONSTANTS
  Rx = Rx
  Main = Main
  Others = {Control}
  Nobody = Nobody
  SeqMod = 3
  QueueLen = 1
  RingCap = 2
  ChunkCap = 2
  PipeCap = 1
  MaxDrops = 0
  MaxNumber = 4
PROPERTIES
  SendersReturn
  RingDrains
CHECK_DEADLOCK FALSE
