SPECIFICATION Spec
CONSTANTS
  Setups <- MCSetups
  Picked <- MCPicked
  Notes <- MCNotes
  MaxLines = 2
INVARIANTS
  NotesSaidOnce
  MessagesWhole
  ExitTellsWhy
PROPERTIES
  TunesWhatWasPicked
  StopsWhenHostGoes
