SPECIFICATION FairSpec
CONSTANTS
  Main = main
  Idle = idle
  Thread = {main, idle, t1, t2}
  NULL = NULL
  IdleStarted = idle_started
  Sema = {idle_started, s1}
  TIME_SLICE = 2
  MaxValue = 2
  MaxSleep = 2
  TickMod = 3
INVARIANTS RunQueueOK WaitListsOK NoLostWakeup
PROPERTIES AlarmOnTime EveryThreadRuns
