CONSTANTS
  NCPU = 2
  NPROC = 4
  Argc = 2
  TIME_SLICE_LEN = 2
  MaxForks = 2
  Syscalls = {"fork", "fork_to", "wait_any", "wait_pid", "exit", "yield"}
  NULL = NULL
SPECIFICATION Spec
CHECK_DEADLOCK FALSE
INVARIANT OffAtBarrier
INVARIANT LockedByOne
