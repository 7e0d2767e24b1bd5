SPECIFICATION MCSpec
CONSTANTS
  Process = {p1, p2}
  Name = {a, b}
  a = a
  b = b
  SECTORS = 4
  ROOT_DIR_SECTOR = 1
  Path <- Paths
  MIN_FILE_COUNT = 2
  MAX_FILE_COUNT = 3
  Parent = Parent
  Self = Self
  NULL = NULL
  MaxOpen = 2
  MaxLeaked = 1
SYMMETRY Symmetry
CHECK_DEADLOCK FALSE
INVARIANTS WellFormed 
PROPERTIES  ReaddirMeetsAll
