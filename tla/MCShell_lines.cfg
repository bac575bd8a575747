CONSTANTS
  NCPU = 2
  NPROC = 3
  BUFSIZE = 2
  Lines <- MCLines
  Programs <- MCPrograms
  Byte <- MCByte
  Scan = Scan
  Space = Space
  NUL = NUL
  None = None
SPECIFICATION FairSpec
CHECK_DEADLOCK FALSE
INVARIANT ConsoleRestored
INVARIANT PipeDelivers
INVARIANT StagesInOrder
 
