CONSTANTS
  HDR = 2
  PAGE = 8
  Requests = {1, 2, 4, 5, 9}
  Pages = 3
  MaxLive = 3
  WORD = 4096
SPECIFICATION Spec
CHECK_DEADLOCK FALSE
INVARIANT BlocksApart
INVARIANT FreeOrdered
 
PROPERTY LiveSpec
