\* KORO_THREAD_AWARE 1: each thread has its own `current`.
CONSTANTS
  Koros = {k1}
  Workers = {w1, w2}
  App = app
  Ctxs = {c1}
  None = none
  ThreadAware = TRUE
  CreateMayFail = FALSE
  MaxSegs = 3
SPECIFICATION Spec
INVARIANTS WorkEqualsRuns
CHECK_DEADLOCK FALSE
