SPECIFICATION Spec
CONSTANTS
  Scripts <- MCScripts
  Ticks <- MCTicks
  MaxNow = 150
  KeySetups <- MCKeySetups
  Addresses <- MCAddresses
  SEEN_LIMIT = 2
  After = 2
  Commands <- MCCommands
  Profiles <- MCProfiles
  Users <- MCUsers
  Bands <- MCBands
  Channels <- MCChannels
  Wrap = 8
  StallLimit = 1
  StallMax = 2
  MaxSec = 9
  MaxQueued = 2
INVARIANTS
  OnlyWhatWasHeard
  StampsInOrder
  HandshakesTold
  EntriesAccumulate
  LabelsTellTheBand
  
PROPERTIES
  ClockForward
  WholeFramesDelivered
  FollowedOrTold
