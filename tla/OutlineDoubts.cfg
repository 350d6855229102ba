\* The tree pane: filters of two letters, one edit.
CONSTANTS
  plain = plain
  encKey = encKey
  store = store
  message = message
  empty = empty
  a = a
  b = b
  NoFile = NoFile
  Files = {plain, encKey, store, message, empty}
  Letters = {a, b}
  Startup <- MCStartup
  Labels <- MCLabels
  FreeId = 100
  MaxFilter = 2
  MaxEdits = 1
SPECIFICATION Spec
INVARIANTS
  SearchAgrees
  LeftClimbsEverywhere
  RegionsKeepTheirFolds
  RowsShowWhatIsRevealed
