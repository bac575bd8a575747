CONSTANTS
  NCPU = 2
  NSEMAPHORE = 2
  Proc = {1, 2, 3, 4}
  Home <- ThreeOnOne
  InitReady <- InOrder
  InitVals <- WithDebt
  Pinned = TRUE
  MaxNew = 3
  MaxValue = 1
  NULL = NULL
SPECIFICATION Spec
CHECK_DEADLOCK FALSE
INVARIANT IdsUnique
INVARIANT WaitersCounted
INVARIANT NobodyLost
INVARIANT CurrentIsRunning
PROPERTY CountsAndQueues
