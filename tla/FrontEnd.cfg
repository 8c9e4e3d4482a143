SPECIFICATION FairSpec
CONSTANTS
  Commands <- AllCommands
  Others <- NoRadio
INVARIANTS
  OwnedIsFlagged
  HandedBack
  OneRadio
  CaptureListens
PROPERTIES
  BootCures
  PowerCycleHappens
