SPECIFICATION FairSpec
CONSTANTS
  Start = {k1, k2}
  Stop = {c1, c2}
  None = None
INVARIANTS
  LoopOwned
  StatusHonest
PROPERTY Quiet
