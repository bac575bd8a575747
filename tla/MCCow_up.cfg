CONSTANTS
  Proc = {p1, p2, p3}
  Page = {g1, g2, g3}
  Data = {d1}
  MaxHeap = 2
  NCPU = 1
  Syscalls = {"malloc", "store", "fork", "exit", "exec", "free", "read"}
  NoProc = NoProc
  NoPage = NoPage
  NoData = NoData
SPECIFICATION Spec
SYMMETRY Symmetry
CHECK_DEADLOCK FALSE
INVARIANT NoLeak
