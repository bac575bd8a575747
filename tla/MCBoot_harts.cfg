CONSTANTS
  NCPU = 3
  NPROC = 2
  Argc = 2
  NoSlot = NoSlot
SPECIFICATION FairSpec
CHECK_DEADLOCK FALSE
INVARIANT InitBeforeUse
INVARIANT ScheduleAfterLoad
INVARIANT BuildExclusive
PROPERTY AllScheduled
