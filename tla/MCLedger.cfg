SPECIFICATION FairSpec
CONSTANTS
  g = g
  b1 = b1
  b2 = b2
  b3 = b3
  b4 = b4
  c2 = c2
  u3 = u3
  d3 = d3
  d5 = d5
  k1 = k1
  k2 = k2
  k3 = k3
  Hash <- MCHash
  TxHash <- MCTxHash
  KeyImage <- MCKeyImage
  Tx <- MCTx
  Block <- MCBlock
  Genesis <- MCGenesis
  MaxSupply <- MCMaxSupply
  BaseSupply <- MCBaseSupply
  InitialReward <- MCInitialReward
  TailEmission <- MCTailEmission
  Decay <- MCDecay
  RecursionLimit = 3
  SupplyBound = 34
  OrphanBound = 3
  MempoolBound = 1
  Offered <- MCOffered
INVARIANTS
  ChainLinked
  NoDoubleSpend
  NoReadyOrphan
PROPERTIES
  ImplementsAbstract
  AddBlockReturns
