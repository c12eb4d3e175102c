SPECIFICATION FairSpec
CONSTANTS
  p = p
  q = q
  r = r
  j1 = j1
  Nobody = Nobody
  Node <- MCNode
  Job <- MCJob
  Author <- MCAuthor
  Routed <- MCNode
  Miner <- MCMiner
  Hops = 1
  BreakBound = 1
CHECK_DEADLOCK FALSE
INVARIANTS
  ClaimedArePending
  WorkerHoldsClaim
  CreditedOnce
PROPERTIES
  ResultReaches
  JobLeaves
