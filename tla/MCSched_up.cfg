CONSTANTS
  NCPU = 1
  NPROC = 3
  Argc = 1
  TIME_SLICE_LEN = 2
  MaxForks = 4
  Syscalls = {"fork", "wait_any", "exit", "yield", "timer"}
  NULL = NULL
SPECIFICATION FairSpec
CHECK_DEADLOCK FALSE
 
INVARIANT WaiterHasChild
PROPERTY ZombieStays
PROPERTY NoStarvation
PROPERTY PowersOff
