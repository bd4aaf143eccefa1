CONSTANTS
  Names <- MCNames
  MaxDepth = 2
  Contents <- MCContents
  Unsearchable <- MCUnsearchable
  EmptyPath = EmptyStr
  EmptyStr = EmptyStr
  DiskFaults = FALSE

SPECIFICATION Spec

INVARIANTS
  NoAbort
