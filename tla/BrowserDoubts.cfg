CONSTANTS
    Paths <- MCPaths
    Parent <- MCParent
    Folders <- MCFolders
    Files <- MCFiles
    MaxTime = 3
SPECIFICATION Spec
INVARIANTS
    VanishedAreMarked
    WhatIsShownIsIndexed
PROPERTIES
    RightGoesToAChild
