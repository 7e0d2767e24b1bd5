SPECIFICATION MCSpec
CONSTANTS
  Elem <- MCElem
  Key <- MCKey
  ListName = {1, 2}
  MIN_BUCKETS = 1
  BEST_ELEMS_PER_BUCKET = 1
  MaxBuckets = 4
  NULL = NULL
  e1 = e1
  e2 = e2
  e3 = e3
  e4 = e4
  e5 = e5
  none = none
  Item = {0, 1, 2}
  Char = {1, 2, 8, SPACE, PLUS, MINUS, e1}
  SPACE = SPACE
  PLUS = PLUS
  MINUS = MINUS
  BITS = 8
  MaxArray = 6
  MaxText = 4
  Byte = {0, 1, 2}
  MaxMemory = 6
  WordBits = 4
  POUND = POUND
  GROUP = GROUP
  DOT = DOT
  STAR = STAR
  H = H
  J = J
  L = L
  T = T
  Z = Z
  COMMA = COMMA
  X = X
  ByteBits = 2
  BUF_SIZE = 10
  MAX_ARG_COUNT = 4
  PGSIZE = 32
  PHYS_BASE = 192
  WORD = 4
  FileLength = 40
  JUNK = JUNK
  MaxLine = 6
INVARIANTS ContainersRight  LoadRight
