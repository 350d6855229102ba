SPECIFICATION Spec
CONSTANTS
  MaxDepth = 4
  OverflowChecks = TRUE
  MaxResolveDepth = 32
  ShortNames <- Names
  SpecFiles <- Directory
  Files <- AllFiles
  HexTexts <- AllHex
  Numbers <- AllNumbers
  Reals <- AllReals
  Texts <- AllTexts
  Oids <- AllOids
  Dates <- AllDates
  Pasted <- AllPasted
  PickedTypes <- AllPicked
  MaxEdits = 1
INVARIANTS
  EncodingParses
  NeverDies
  UntouchedNeverChange
  RealsAreReals
  TreeIsExactlyOfTheFile
CHECK_DEADLOCK FALSE
