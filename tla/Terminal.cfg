CONSTANTS
  Thread = {t1, t2}
  INTQ_BUFSIZE = 3
  Length = 2
  Received <- MCReceived
  Key = {a, left}
  Letter = {a}
  ShiftKey = {left}
  CtrlKey = {}
  AltKey = {}
  CAPS_LOCK = caps
  NULL = NULL
  INTR = intr
SPECIFICATION FairSpec
INVARIANTS BytesInOrder OutputWhole QueuesServed
PROPERTY WritersFinish
CHECK_DEADLOCK FALSE
