SPECIFICATION Spec
CONSTANTS
  Process = {p1, p2}
  Frame = {f1,f2,f3}
  Slot = {0,1}
  FileLength = 1
  Value = {0, 1}
  Code = 1
  HEAD = HEAD
  TAIL = TAIL
  NULL = NULL
  MaxMarked = 2
CONSTRAINT MarkedBound
SYMMETRY Symmetry
INVARIANT Illusion
CHECK_DEADLOCK FALSE
