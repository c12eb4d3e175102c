SPECIFICATION MintSpec
CONSTANTS
  MaxSupply <- MCMaxSupply
  BaseSupply <- MCBaseSupply
  InitialReward <- MCInitialReward
  TailEmission <- MCTailEmission
  Decay <- MCDecay
  MaxHeight = 110
INVARIANTS
  ProjectionsExact
  TailPaid
PROPERTIES
  NoOvershoot
  SmoothDecay
CHECK_DEADLOCK FALSE
