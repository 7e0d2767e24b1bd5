CONSTANTS
  Thread = {t1, t2}
  Sector = {1, 2}
  Value = {zero, v}
  Zero = zero
  NULL = NULL
  BOOT = boot
SPECIFICATION FairSpec
INVARIANTS TransfersRight
PROPERTY CallsReturn
CHECK_DEADLOCK FALSE
