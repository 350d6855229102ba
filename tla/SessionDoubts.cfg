SPECIFICATION Spec
CONSTANTS
  a = a
  b = b
  NoPath = NoPath
  NoElem = NoElem
  NoFilter = NoFilter
  Absent = Absent
  Junk = Junk
  Paths <- MCPaths
  Elems = {a, b}
  Filters <- MCFilters
  StartedWith = {"directory"}
  Startup <- MCStartup
  Argument = 2
  OutArgument = 2
  MaxExternal = 0
  MaxLen = 2
PROPERTY DeletesTheElementAskedAbout
PROPERTY NoDiscardWithoutConfirmation
PROPERTY SearchKeyOpensField
