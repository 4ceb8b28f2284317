CONSTANTS
  Threads = {t1, t2}
  Keys = {k1, k2}
  Vals = {v}
  None = none
  Dangling = dangling
  Iterations = 2
SPECIFICATION FairSpec
INVARIANTS TypeOK OnceExactly ValuesDestroyed ListSound
PROPERTIES ThreadsEnd
CHECK_DEADLOCK FALSE
