CONSTANTS
  Thread = {t1, t2}
  Size = {2, 3, 10}
  PAGES = 4
  PGSIZE = 10
  ARENA_SIZE = 1
  MIN_BLOCK = 2
  MaxHeld = 2
  ELEM_BITS = 2
  NULL = NULL
SYMMETRY Symmetry
SPECIFICATION Spec
INVARIANTS ContentsKept BooksRight
