SPECIFICATION MCSpec
CONSTANTS
  SECTORS = 6
  Reserved = {0}
  DIRECT_MAX = 1
  SECTOR_MAX = 2
  DISK_SECTOR_SIZE = 2
  Byte = {0, 1}
  Handle = {h1, h2}
  NULL = NULL
  CleanShutdown = TRUE
  Size = {0, 3}
  Offset = {1, 6}
  MaxFiles = 1
  MaxLeaked = 1
SYMMETRY Symmetry
CHECK_DEADLOCK FALSE
INVARIANTS BlocksOwned OpenersCounted
PROPERTIES ImplementsFiles
