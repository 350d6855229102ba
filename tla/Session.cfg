SPECIFICATION Spec
CONSTANTS
  a = a
  b = b
  NoPath = NoPath
  NoElem = NoElem
  NoFilter = NoFilter
  Absent = Absent
  Junk = Junk
  Paths <- MCPaths
  Elems = {a, b}
  Filters <- MCFilters
  StartedWith = {"directory", "file"}
  Startup <- MCStartup
  Argument = 2
  OutArgument = 1
  MaxExternal = 0
  MaxLen = 2
INVARIANT CleanMeansPersisted
PROPERTY SwitchDiscardsOnlyAfterWarning
PROPERTY QuitDiscardsOnlyAfterWarning
INVARIANT SelectionIsARow
