SPECIFICATION FairSpec
CONSTANTS
  p = p
  q = q
  r = r
  t = t
  b = b
  j = j
  Truncated = Truncated
  Node <- MCNode
  Tx = {t}
  Block = {b}
  Job = {j}
  Origin <- MCOrigin
  Address <- MCAddress
  Listening <- MCListening
  Capable <- MCCapable
  Hops = 2
  BroadcastBound = 2
  BreakBound = 1
CHECK_DEADLOCK FALSE
INVARIANTS
  AskedOnce
PROPERTIES
  FloodEnds
  FloodReaches
  
  KeyAnswered
