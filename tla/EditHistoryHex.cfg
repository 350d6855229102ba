SPECIFICATION Spec
CONSTANTS
  a = a
  b = b
  x = x
  NoAnchor = NoAnchor
  Unit = 2
  Row = 2
  UndoDepth = 2
  Initial <- Word
  StartCursor = 0
  Typed = {x}
  Controls = {}
  KeepsNewlines = FALSE
  LineFeed = LineFeed
  Return = Return
  Pastes <- Foreign
  MaxLen = 4
  MaxChanges = 3
INVARIANT RangesInBounds
PROPERTY UndoWalksBack
PROPERTY CutCanBePastedBack
PROPERTY UndoMarksTheRestored
