SPECIFICATION FairSpec
CONSTANTS
  Job = {j1}
  Miner = {m1, m2, m3}
  P2P = TRUE
  Length = 2
  Local = local
  Nobody = nobody
CHECK_DEADLOCK FALSE
INVARIANTS
  OneWorker
  ResultFromClaimant
  AnsweredIsFinal
PROPERTIES
  RequestAnswered
  JobSwept
