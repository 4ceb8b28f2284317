CONSTANTS
  Threads = {t1, t2, t3, t4}
  Waiters = {t1, t2}
  None = none
  Types <- AllTypes
  MayDie = TRUE
  MaxHeld = 2
  MaxCount = 3
SPECIFICATION Spec
SYMMETRY Symmetry
INVARIANTS TypeOK MutualExclusion FreeWhenUnlocked NoUndercount UndisturbedWakeups
CHECK_DEADLOCK FALSE
