CONSTANTS
  Names <- MCNames
  MaxDepth = 2
  Contents <- MCContents
  Unsearchable = {}
  EmptyPath = EmptyStr
  EmptyStr = EmptyStr
  DiskFaults = FALSE

SPECIFICATION Spec

INVARIANTS
  NoErrorSwallowed
