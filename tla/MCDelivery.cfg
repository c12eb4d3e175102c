SPECIFICATION DeliverySpec
CONSTANTS
  g = g
  b1 = b1
  b2 = b2
  b3 = b3
  b4 = b4
  b5 = b5
  k1 = k1
  k2 = k2
  Hash <- MCHash
  TxHash <- MCTxHash
  KeyImage <- MCKeyImage
  Tx <- MCTx
  Block <- MCBlock
  Genesis <- MCGenesis
  MaxSupply <- MCMaxSupply
  BaseSupply <- MCBaseSupply
  InitialReward <- MCInitialReward
  TailEmission <- MCTailEmission
  Decay <- MCDecay
  RecursionLimit = 3
  SupplyBound = 60
  OrphanBound = 5
  MempoolBound = 2
  Offered <- MCTx
INVARIANTS
  CaughtUp
  MempoolDisjoint
