CONSTANTS
  Koros = {k1, k2}
  Workers = {w1, w2, w3}
  App = app
  Ctxs = {c1, c2, c3}
  None = none
  ThreadAware = FALSE
  CreateMayFail = TRUE
  MaxSegs = 3
SPECIFICATION Spec
SYMMETRY Symmetry
INVARIANTS TypeOK IInv OneAtATime CtxInUseIsLive HeapIsUnfinished CurrentIsRunning WorkEqualsRuns
PROPERTIES ImplementsCoroutines
CHECK_DEADLOCK FALSE
