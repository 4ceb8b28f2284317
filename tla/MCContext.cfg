CONSTANTS
  Koros = {k1, k2}
  Runners = {r1, r2}
  None = none
  Functions = {f}
  MaxSegs = 2
  MaxCalls = 1
SPECIFICATION FairSpec
INVARIANTS TypeOK JumpsLand StackIntact StacksApart WorkEqualsRuns
PROPERTIES RunReturns ImplementsFairCoroutines
