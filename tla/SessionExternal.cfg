SPECIFICATION Spec
CONSTANTS
  a = a
  b = b
  NoPath = NoPath
  NoElem = NoElem
  NoFilter = NoFilter
  Absent = Absent
  Junk = Junk
  Paths <- MCPaths
  Elems = {a, b}
  Filters <- MCFilters
  StartedWith = {"directory"}
  Startup <- MCStartup1
  Argument = 2
  OutArgument = 2
  MaxExternal = 1
  MaxLen = 1
PROPERTY SwitchDiscardsOnlyAfterWarning
