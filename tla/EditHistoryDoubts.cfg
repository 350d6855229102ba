SPECIFICATION Spec
CONSTANTS
  a = a
  b = b
  x = x
  NoAnchor = NoAnchor
  Unit = 1
  Row = 0
  UndoDepth = 1
  Initial <- Word
  StartCursor = 2
  Typed = {x}
  Controls = {LineFeed, Return}
  KeepsNewlines = FALSE
  LineFeed = LineFeed
  Return = Return
  Pastes <- ForeignLine
  MaxLen = 4
  MaxChanges = 2
INVARIANT FreshIsNeverSelected
PROPERTY FreshMarksOnlyInsertions
PROPERTY UndoMarksWhatReappears
PROPERTY PasteTakesAll
