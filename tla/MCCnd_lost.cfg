CONSTANTS
  Threads = {t1, t2, t3}
  Waiters = {t1, t2}
  None = none
  Types <- AllTypes
  MayDie = FALSE
  MaxHeld = 2
  MaxCount = 2
SPECIFICATION Spec
SYMMETRY Symmetry
INVARIANTS NoLostWakeup
CHECK_DEADLOCK FALSE
