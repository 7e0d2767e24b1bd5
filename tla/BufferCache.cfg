SPECIFICATION Spec
CONSTANTS
  Client = {c1, c2}
  Sector = {s1, s2, s3}
  Part = {a, b}
  Value = {0, 1}
  Zero = 0
  MAX_SIZE = 2
  NULL = NULL
  Flush = Flush
  Halt = Halt
INVARIANTS EntriesOK FlushedOnDisk
PROPERTIES ImplementsStore 
CHECK_DEADLOCK FALSE
SYMMETRY Symmetry
