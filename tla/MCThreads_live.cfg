\* Nothing fails: liveness, and no deadlock.
CONSTANTS
  Koros = {k1, k2}
  Workers = {w1, w2}
  App = app
  Ctxs = {c1, c2}
  None = none
  ThreadAware = FALSE
  CreateMayFail = FALSE
  MaxSegs = 2
SPECIFICATION FairSpec
PROPERTIES RunSwitches RunReturns ImplementsFairCoroutines
