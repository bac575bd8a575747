CONSTANTS
  Proc = {p1, p2, p3}
  Page = {g1, g2, g3}
  Data = {d1, d2}
  MaxHeap = 1
  NCPU = 2
  Syscalls = {"malloc", "store", "fork", "exit", "exec"}
  NoProc = NoProc
  NoPage = NoPage
  NoData = NoData
SPECIFICATION Spec
SYMMETRY Symmetry
CHECK_DEADLOCK FALSE
INVARIANT RefExact
INVARIANT FreeListSound
INVARIANT WritableIsPrivate
INVARIANT DataIsolated
