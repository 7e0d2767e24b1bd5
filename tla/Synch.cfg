SPECIFICATION FairSpec
CONSTANTS
  Thread = {t1, t2, t3, t4}
  Cond = {c1, c2}
  NULL = NULL
INVARIANTS OneOwner LockNotForgotten WaiterAlive NoLostSignal
PROPERTIES ImplementsMonitor CallsReturn
CHECK_DEADLOCK FALSE
