SPECIFICATION Spec
CONSTANTS
  MaxDepth = 9
  OverflowChecks = FALSE
  MaxResolveDepth = 32
  ShortNames <- Names
  SpecFiles <- Directory
  Files <- AllFiles
  HexTexts <- AllHex
  Numbers <- AllNumbers
  Reals <- AllReals
  Texts <- AllTexts
  Oids <- AllOids
  Dates <- AllDates
  Pasted <- AllPasted
  PickedTypes <- AllPicked
  MaxEdits = 1
INVARIANTS
  SavedFileReloads
  TreeIsOfTheFile
  UntouchedEditsChangeNothing
  EnteredIsKept
  IdentifiedAsTheBest
CHECK_DEADLOCK FALSE
