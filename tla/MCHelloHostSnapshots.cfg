\* hello.c against an engine build that implements snapshots.
CONSTANTS
  Main = Main
  VMs = {v1, v2}
  c1 = c1
  c2 = c2
  c3 = c3
  c4 = c4
  Code = {c1, c2, c3, c4}
  Malformed = {c3}
  NativeNames <- MCNativeNames
  Registered <- MCRegistered
  Imports <- MCImports
  Entries <- MCEntries
  Exports <- MCExports
  SnapshotSupported = TRUE
  Snapshots = {s1, s2}
  MaxErrors = 1
  MaxHeap = 2
  NoRun = NoRun
  NoVM = NoVM
  NoSnapshot = NoSnapshot

SPECIFICATION Spec
INVARIANT HostReleasesAll
\* main() returns: the program really stops.
CHECK_DEADLOCK FALSE
