SPECIFICATION Spec
CONSTANTS
  Commands <- AllCommands
  Others <- NoRadio
INVARIANT FlagMeansOwned
