\* thrd_create may fail.
CONSTANTS
  Koros = {k1}
  Workers = {w1}
  App = app
  Ctxs = {c1}
  None = none
  ThreadAware = FALSE
  CreateMayFail = TRUE
  MaxSegs = 2
SPECIFICATION FairSpec
PROPERTIES RunSwitches
CHECK_DEADLOCK FALSE
