CONSTANTS
  Proc = {p1, p2}
  NInodes = 3
  NBlocks = 3
  MAX_FILES = 2
  DirEntries = 2
  FileBlocks = 2
  FilePath <- Mixed
  DirPath <- Down
  Name <- Names3
  None = None
SPECIFICATION Spec
SYMMETRY Symmetry
CHECK_DEADLOCK FALSE
 
INVARIANT CacheCoherent
INVARIANT LinkCounts
INVARIANT BlocksOwned
INVARIANT InodeForBlock
INVARIANT AssertsHold
PROPERTY TreeSpec
