CONSTANTS
  NCPU = 2
  NPROC = 4
  Argc = 2
  TIME_SLICE_LEN = 2
  MaxForks = 2
  Syscalls = {"fork", "fork_to", "exit", "yield"}
  NULL = NULL
SPECIFICATION Spec
CHECK_DEADLOCK FALSE
INVARIANT RunningIsCurrent
INVARIANT HeadIsReady
