SPECIFICATION FairSpec
CONSTANTS
  Proc = {p0, p1, p2}
  Root = p0
  NULL = NULL
  Status = {ok}
  PID_ERROR = PID_ERROR
INVARIANTS NoUseAfterReap DeadHoldsNothing
PROPERTIES ChildHeard 
CHECK_DEADLOCK FALSE
