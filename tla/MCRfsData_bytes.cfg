CONSTANTS
  BLKSIZE = 3
  Byte = {x, y}
  MaxSize = 7
  MaxLen = 4
  Overwrite = FALSE
SPECIFICATION Spec
SYMMETRY Symmetry
CHECK_DEADLOCK FALSE
INVARIANT BlocksFit
PROPERTY BytesSpec
