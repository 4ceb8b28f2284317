CONSTANTS
  Threads = {t1, t2}
  Keys = {k1, k2, k3}
  Vals = {v}
  None = none
  Dangling = dangling
  Iterations = 4
SPECIFICATION Spec
SYMMETRY Symmetry
INVARIANTS ValuesDestroyed
CHECK_DEADLOCK FALSE
