SPECIFICATION Spec
CONSTANTS
  a = a
  b = b
  NoPath = NoPath
  NoElem = NoElem
  NoFilter = NoFilter
  Absent = Absent
  Junk = Junk
  Paths <- MCThree
  Elems = {a, b}
  Filters <- MCFilters
  StartedWith = {"directory"}
  Startup <- MCStartup3
  Argument = 2
  OutArgument = 2
  MaxExternal = 1
  MaxLen = 1
PROPERTY OpensTheFileAskedAbout
