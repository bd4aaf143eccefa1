CONSTANTS
  Threads = {t1, t2}
  VMs = {v1, v2}
  c1 = c1
  c2 = c2
  c3 = c3
  Code = {c1, c2, c3}
  Malformed = {c3}
  NativeNames <- MCNativeNames
  Registered <- MCRegistered
  Imports <- MCImports
  Entries <- MCEntries
  Exports <- MCExports
  SnapshotSupported = TRUE
  Snapshots = {s1}
  MaxErrors = 1
  MaxHeap = 1
  NoRun = NoRun

SPECIFICATION Spec
SYMMETRY Symmetry
INVARIANT TypeOK
