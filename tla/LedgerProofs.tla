---------------------------- MODULE LedgerProofs ----------------------------
(***************************************************************************)
(* Theorems about Ledger, for every set of blocks and transactions and     *)
(* every monetary policy that meets the assumptions.                       *)
(***************************************************************************)
EXTENDS Delivery, Numbers, SequenceTheorems

-----------------------------------------------------------------------------
(***************************************************************************)
(* Lemmas about the transaction loop of add_block.                         *)
(***************************************************************************)

\* The transactions of a block and the inputs of a regular transaction.
LEMMA BlockTyping ==
  ASSUME NEW b \in Block
  PROVE  /\ b.hash \in Hash /\ b.height \in Nat /\ b.txs \in Seq(Tx)
         /\ \A i \in DOMAIN b.txs : /\ b.txs[i] \in Tx /\ i \in Nat
                                    /\ b.txs[i].id \in TxHash
                                    /\ b.txs[i].inputs \in Seq(KeyImage)
BY BlocksAssumption DEF BlockRecord, TxRecord

\* A spend of a block is a place in it and has a key image.
LEMMA SpendTyping ==
  ASSUME NEW b \in Block, NEW p \in Spends(b)
  PROVE  /\ p = <<p[1], p[2]>> /\ p[1] \in Nat /\ p[2] \in Nat
         /\ Image(b, p) \in KeyImage
<1>1. PICK i \in Regular(b) : p \in {i} \X DOMAIN b.txs[i].inputs
  BY DEF Spends
<1>2. i \in DOMAIN b.txs /\ b.txs[i].inputs \in Seq(KeyImage) /\ i \in Nat
  BY BlockTyping DEF Regular
<1>3. p = <<p[1], p[2]>> /\ p[1] = i /\ p[2] \in DOMAIN b.txs[i].inputs
  BY <1>1
<1>4. QED
  BY <1>2, <1>3 DEF Image

\* Two different inputs of a block are visited one before the other.
LEMMA VisitOrder ==
  ASSUME NEW b \in Block, NEW p \in Spends(b), NEW q \in Spends(b), p # q
  PROVE  Before(p, q) \/ Before(q, p)
<1>1. p[1] # q[1] \/ p[2] # q[2]
  BY SpendTyping
<1>2. QED
  BY <1>1, SpendTyping DEF Before

\* An accepted block marks every key image it spends; none was spent before
\* and no two of its inputs spend the same.
LEMMA AcceptedSpends ==
  ASSUME NEW b \in Block, NEW S, Conflicts(b, S) = {}
  PROVE  /\ Marked(b, S) = Spends(b)
         /\ Images(b) \cap S = {}
         /\ \A p, q \in Spends(b) : Image(b, p) = Image(b, q) => p = q
<1>1. Marked(b, S) = Spends(b)
  BY DEF Marked
<1>2. Images(b) \cap S = {}
  BY DEF Images, Conflicts
<1>3. ASSUME NEW p \in Spends(b), NEW q \in Spends(b), Image(b, p) = Image(b, q), p # q
      PROVE  FALSE
  BY <1>3, VisitOrder DEF Conflicts
<1>4. QED
  BY <1>1, <1>2, <1>3

\* The reward of a supply that is at least the base supply is a natural
\* number, positive, and below the cap it fits under the cap (the clamps of block_reward).
LEMMA RewardBounds ==
  ASSUME NEW s \in Nat, s >= BaseSupply
  PROVE  /\ BlockReward(s) \in Nat \ {0}
         /\ s < MaxSupply => s + BlockReward(s) <= MaxSupply
<1>1. CASE s >= MaxSupply
  BY <1>1, EmissionAssumption DEF BlockReward
<1>2. CASE s < MaxSupply
  <2>1. Remaining(s) \in ToMine /\ Remaining(s) = MaxSupply - s
    BY <1>2, EmissionAssumption DEF Remaining, ToMine
  <2>2. Decay[Remaining(s)] \in Nat
    BY <2>1, EmissionAssumption
  <2>3. BelowCapReward(s) \in Nat \ {0} /\ BelowCapReward(s) <= MaxSupply - s
    BY <1>2, <2>1, <2>2, EmissionAssumption DEF BelowCapReward, AtMost, AtLeast
  <2>4. QED
    BY <1>2, <2>3, EmissionAssumption DEF BlockReward
<1>3. QED
  BY <1>1, <1>2, EmissionAssumption

\* What the loop of add_block does keeps the supply, the spent key images and
\* the outputs typed, and takes nothing back.
LEMMA EffectsTyping ==
  ASSUME TypeOK, supply >= BaseSupply, NEW b \in Block, ProcessTransactions(b)
  PROVE  /\ supply' \in Nat /\ supply' >= supply
         /\ spent' \subseteq KeyImage /\ spent \subseteq spent'
         /\ utxo' \subseteq TxHash
<1>1. Cardinality(Coinbases(b, spent)) \in Nat
  <2>1. b.txs \in Seq(Tx)
    BY BlockTyping
  <2>2. IsFiniteSet(1 .. Len(b.txs))
    BY <2>1, FS_Interval
  <2>3. Coinbases(b, spent) \subseteq 1 .. Len(b.txs)
    BY <2>1 DEF Coinbases, Completed
  <2>4. QED
    BY <2>2, <2>3, FS_Subset, FS_CardinalityType
<1>2. supply' \in Nat /\ supply' >= supply
  <2>1. BlockReward(supply) \in Nat /\ supply \in Nat
    BY RewardBounds DEF TypeOK
  <2>2. BlockReward(supply) * Cardinality(Coinbases(b, spent)) \in Nat
    BY <1>1, <2>1
  <2>3. QED
    BY <2>1, <2>2 DEF ProcessTransactions
<1>3. spent' \subseteq KeyImage /\ spent \subseteq spent'
  <2>1. \A p \in Marked(b, spent) : Image(b, p) \in KeyImage
    BY SpendTyping DEF Marked
  <2>2. QED
    BY <2>1 DEF ProcessTransactions, TypeOK
<1>4. utxo' \subseteq TxHash
  <2>1. \A i \in Completed(b, spent) : b.txs[i].id \in TxHash
    BY BlockTyping DEF Completed
  <2>2. QED
    BY <2>1 DEF ProcessTransactions, TypeOK
<1>5. QED
  BY <1>2, <1>3, <1>4

\* What a step can do to the chain: nothing, a double spend found half-way,
\* or a block appended, be it received or waiting before.
LEMMA StepKinds ==
  ASSUME TypeOK, [Next]_vars
  PROVE  \/ UNCHANGED <<chainVars, effects>>
         \/ \E b \in Block : DoubleSpend(b)
         \/ \E b \in Block : Extend(b)
<1>1. ASSUME NEW b \in Block, AddBlock(b)
      PROVE  UNCHANGED <<chainVars, effects>> \/ DoubleSpend(b) \/ Extend(b)
  BY <1>1 DEF AddBlock, StoreOrphan, RejectInvalid, RejectDoubleSpend, AcceptBlock, AppendBlock
<1>2. ASSUME ProcessOrphans
      PROVE  \/ UNCHANGED <<chainVars, effects>>
             \/ \E b \in Block : DoubleSpend(b) \/ Extend(b)
  BY <1>2 DEF ProcessOrphans, SkipOrphan, RejectOrphan, AdoptOrphan, AppendBlock,
              ReturnToCaller, ReturnToPass, HashingFails, StackRunsOut
<1>3. ASSUME NEW t \in Tx, AddToMempool(t)
      PROVE  UNCHANGED <<chainVars, effects>>
  BY <1>3 DEF AddToMempool
<1>4. ASSUME NEW ids, ClearMempool(ids)
      PROVE  UNCHANGED <<chainVars, effects>>
  BY <1>4 DEF ClearMempool
<1>5. CASE UNCHANGED vars
  BY <1>5 DEF vars, chainVars, effects
<1>6. QED
  BY <1>1, <1>2, <1>3, <1>4, <1>5 DEF Next, MempoolStep

-----------------------------------------------------------------------------
(***************************************************************************)
(* Type correctness.  The decay term of the reward is defined for supplies *)
(* from the base supply on: that the supply never falls below it is part   *)
(* of the induction.                                                       *)
(***************************************************************************)

TypeInv == TypeOK /\ supply >= BaseSupply

\* Storing a block in a dictionary gives a dictionary.
LEMMA StoreTyping ==
  ASSUME NEW dict \in Seq(Block), NEW b \in Block
  PROVE  Store(dict, b) \in Seq(Block)
<1>1. CASE \E i \in DOMAIN dict : dict[i].hash = b.hash
  <2>1. Store(dict, b) \in [1 .. Len(dict) -> Block]
    BY <1>1 DEF Store
  <2>2. QED
    BY <2>1, Len(dict) \in Nat, IsASeq
<1>2. CASE ~ \E i \in DOMAIN dict : dict[i].hash = b.hash
  BY <1>2 DEF Store
<1>3. QED
  BY <1>1, <1>2

\* Deleting from a dictionary makes it one shorter.
LEMMA DeleteTyping ==
  ASSUME NEW dict \in Seq(Block), NEW k \in DOMAIN dict
  PROVE  /\ Delete(dict, k) \in Seq(Block)
         /\ Len(Delete(dict, k)) = Len(dict) - 1
<1>1. SubSeq(dict, 1, k - 1) \in Seq(Block) /\ Len(SubSeq(dict, 1, k - 1)) = k - 1
  BY SubSeqProperties
<1>2. /\ SubSeq(dict, k + 1, Len(dict)) \in Seq(Block)
      /\ Len(SubSeq(dict, k + 1, Len(dict))) = Len(dict) - k
  BY SubSeqProperties
<1>3. Len(dict) \in Nat /\ k \in 1 .. Len(dict)
  OBVIOUS
<1>4. /\ Delete(dict, k) \in Seq(Block)
      /\ Len(Delete(dict, k)) = (k - 1) + (Len(dict) - k)
  BY <1>1, <1>2, ConcatProperties DEF Delete
<1>5. QED
  BY <1>3, <1>4

\* A block that joins the chain leaves a typed chain.
LEMMA ExtendTyping ==
  ASSUME TypeInv, NEW b \in Block, Extend(b), mempool' = mempool,
         orphans' \in Seq(Block), frames' \in Seq(Seq(Block)), raised' \in BOOLEAN
  PROVE  TypeInv'
<1>1. /\ supply' \in Nat /\ supply' >= BaseSupply
      /\ spent' \subseteq KeyImage /\ utxo' \subseteq TxHash
  BY EffectsTyping, EmissionAssumption DEF Extend, TypeInv, TypeOK
<1>2. chain' \in Seq(Block) /\ chain' # <<>>
  <2>1. chain \in Seq(Block) /\ chain' = Append(chain, b)
    BY DEF Extend, TypeInv, TypeOK
  <2>2. QED
    BY <2>1
<1>3. height' \in Nat /\ lastHash' \in Hash
  BY BlockTyping DEF Extend
<1>4. QED
  BY <1>1, <1>2, <1>3 DEF TypeInv, TypeOK

\* Beginning a pass leaves a typed stack.
LEMMA AppendBlockTyping ==
  ASSUME TypeInv, NEW b \in Block, AppendBlock(b), UNCHANGED <<mempool, raised>>
  PROVE  TypeInv'
<1>1. frames' \in Seq(Seq(Block)) /\ orphans' \in Seq(Block) /\ raised' \in BOOLEAN
  BY DEF AppendBlock, TypeInv, TypeOK
<1>2. QED
  BY <1>1, ExtendTyping DEF AppendBlock

\* What a call that stops at a double spend leaves of the chain is typed.
LEMMA DoubleSpendTyping ==
  ASSUME TypeInv, NEW b \in Block, DoubleSpend(b),
         orphans' \in Seq(Block), mempool' = mempool, frames' \in Seq(Seq(Block)),
         raised' \in BOOLEAN
  PROVE  TypeInv'
<1>1. /\ supply' \in Nat /\ supply' >= BaseSupply
      /\ spent' \subseteq KeyImage /\ utxo' \subseteq TxHash
  BY EffectsTyping, EmissionAssumption DEF DoubleSpend, TypeInv, TypeOK
<1>2. QED
  BY <1>1 DEF DoubleSpend, chainVars, TypeInv, TypeOK

\* A pass over the orphans keeps its frames typed.
LEMMA ContinuePassTyping ==
  ASSUME TypeInv, ~Idle, Pass # <<>>, ContinuePass
  PROVE  frames' \in Seq(Seq(Block))
<1>1. Len(frames) \in 1 .. Len(frames) /\ Pass \in Seq(Block)
  BY DEF Idle, Pass, TypeInv, TypeOK
<1>2. Tail(Pass) \in Seq(Block)
  BY <1>1
<1>3. QED
  BY <1>1, <1>2, ExceptSeq DEF ContinuePass, Pass, TypeInv, TypeOK

\* Receiving a block, whatever add_block does with it, keeps the types.
LEMMA AddBlockTyping ==
  ASSUME TypeInv, NEW b \in Block, AddBlock(b)
  PROVE  TypeInv'
<1>1. CASE StoreOrphan(b)
  <2>1. orphans' \in Seq(Block)
    BY <1>1, StoreTyping DEF StoreOrphan, TypeInv, TypeOK
  <2>2. QED
    BY <1>1, <2>1 DEF AddBlock, StoreOrphan, chainVars, effects, TypeInv, TypeOK
<1>2. CASE RejectInvalid(b)
  BY <1>2 DEF AddBlock, RejectInvalid, chainVars, effects, TypeInv, TypeOK
<1>3. CASE RejectDoubleSpend(b)
  BY <1>3, DoubleSpendTyping DEF AddBlock, RejectDoubleSpend, TypeInv, TypeOK
<1>4. CASE AcceptBlock(b)
  BY <1>4, AppendBlockTyping DEF AddBlock, AcceptBlock
<1>5. QED
  BY <1>1, <1>2, <1>3, <1>4 DEF AddBlock

\* Every step of the recursion over the orphans keeps the types.
LEMMA ProcessOrphansTyping ==
  ASSUME TypeInv, ProcessOrphans
  PROVE  TypeInv'
<1>1. ASSUME NEW b \in Block, SkipOrphan(b)
      PROVE  TypeInv'
  <2>1. frames' \in Seq(Seq(Block))
    BY <1>1, ContinuePassTyping DEF SkipOrphan, Candidate
  <2>2. QED
    BY <1>1, <2>1 DEF ProcessOrphans, SkipOrphan, chainVars, effects, TypeInv, TypeOK
<1>2. ASSUME NEW b \in Block, RejectOrphan(b)
      PROVE  TypeInv'
  <2>1. frames' \in Seq(Seq(Block))
    BY <1>2, ContinuePassTyping DEF RejectOrphan, Candidate
  <2>2. QED
    BY <1>2, <2>1, DoubleSpendTyping DEF ProcessOrphans, RejectOrphan, TypeInv, TypeOK
<1>3. ASSUME NEW b \in Block, AdoptOrphan(b)
      PROVE  TypeInv'
  BY <1>3, AppendBlockTyping DEF ProcessOrphans, AdoptOrphan
<1>4. CASE ReturnToCaller
  <2>1. frames' \in Seq(Seq(Block)) /\ orphans' \in Seq(Block)
    BY <1>4 DEF ReturnToCaller, TypeInv, TypeOK
  <2>2. raised' \in BOOLEAN
    BY <1>4 DEF ReturnToCaller
  <2>3. QED
    BY <1>4, <2>1, <2>2 DEF ProcessOrphans, ReturnToCaller, chainVars, effects, TypeInv, TypeOK
<1>5. CASE ReturnToPass
  <2>1. orphans' \in Seq(Block)
    BY <1>5, DeleteTyping DEF ReturnToPass, TypeInv, TypeOK
  <2>2. SubSeq(frames, 1, Len(frames) - 2) \in Seq(Seq(Block))
    BY <1>5, SubSeqProperties DEF ReturnToPass, TypeInv, TypeOK
  <2>3. frames' \in Seq(Seq(Block))
    BY <1>5, <2>1, <2>2 DEF ReturnToPass
  <2>4. QED
    BY <1>5, <2>1, <2>3 DEF ProcessOrphans, ReturnToPass, chainVars, effects, TypeInv, TypeOK
<1>6. ASSUME Unwind
      PROVE  frames' \in Seq(Seq(Block)) /\ orphans' \in Seq(Block) /\ raised' \in BOOLEAN
  BY <1>6 DEF Unwind, TypeInv, TypeOK
<1>7. ASSUME UNCHANGED <<chainVars, effects, mempool>>, Unwind
      PROVE  TypeInv'
  BY <1>6, <1>7 DEF chainVars, effects, TypeInv, TypeOK
<1>8. ASSUME NEW b \in Block, HashingFails(b)
      PROVE  TypeInv'
  BY <1>7, <1>8 DEF ProcessOrphans, HashingFails
<1>9. CASE StackRunsOut
  BY <1>6, <1>7, <1>9, ExtendTyping, DoubleSpendTyping DEF ProcessOrphans, StackRunsOut
<1>10. QED
  BY <1>1, <1>2, <1>3, <1>4, <1>5, <1>8, <1>9 DEF ProcessOrphans

\* The operations of the mempool keep the types.
LEMMA MempoolTyping ==
  ASSUME TypeInv,
         \/ \E t \in Tx : AddToMempool(t)
         \/ \E ids \in SUBSET {mempool[i].id : i \in DOMAIN mempool} : ClearMempool(ids)
  PROVE  TypeInv'
<1>1. ASSUME NEW t \in Tx, AddToMempool(t)
      PROVE  TypeInv'
  BY <1>1 DEF AddToMempool, chainVars, effects, TypeInv, TypeOK
<1>2. ASSUME NEW ids, ClearMempool(ids)
      PROVE  TypeInv'
  <2> DEFINE kept == {i \in DOMAIN mempool : mempool[i].id \notin ids}
  <2>1. PICK place \in [1 .. Cardinality(kept) -> kept] :
          mempool' = [i \in DOMAIN place |-> mempool[place[i]]]
    BY <1>2 DEF ClearMempool
  <2>2. Cardinality(kept) \in Nat
    <3>1. IsFiniteSet(1 .. Len(mempool)) /\ kept \subseteq 1 .. Len(mempool)
      BY FS_Interval DEF TypeInv, TypeOK
    <3>2. QED
      BY <3>1, FS_Subset, FS_CardinalityType
  <2>3. mempool' \in [1 .. Cardinality(kept) -> Tx]
    <3>1. \A i \in kept : mempool[i] \in Tx
      BY DEF TypeInv, TypeOK
    <3> HIDE DEF kept
    <3>2. DOMAIN place = 1 .. Cardinality(kept)
      BY <2>1
    <3>3. \A i \in DOMAIN place : mempool[place[i]] \in Tx
      BY <2>1, <3>1
    <3>4. QED
      BY <2>1, <3>2, <3>3
  <2>4. mempool' \in Seq(Tx)
    <3> HIDE DEF kept
    <3>1. QED
      BY <2>2, <2>3, IsASeq
  <2>5. QED
    BY <1>2, <2>4 DEF ClearMempool, chainVars, effects, TypeInv, TypeOK
<1>3. QED
  BY <1>1, <1>2

\* TypeInv is inductive.
LEMMA TypeInvStep == TypeInv /\ [Next]_vars => TypeInv'
<1> SUFFICES ASSUME TypeInv, [Next]_vars
             PROVE  TypeInv'
  OBVIOUS
<1>1. CASE \E b \in Block : AddBlock(b)
  BY <1>1, AddBlockTyping
<1>2. CASE ProcessOrphans
  BY <1>2, ProcessOrphansTyping
<1>3. CASE \/ \E t \in Tx : AddToMempool(t)
           \/ \E ids \in SUBSET {mempool[i].id : i \in DOMAIN mempool} : ClearMempool(ids)
  BY <1>3, MempoolTyping
<1>4. CASE UNCHANGED vars
  BY <1>4 DEF vars, TypeInv, TypeOK
<1>5. QED
  BY <1>1, <1>2, <1>3, <1>4 DEF Next, MempoolStep

\* The initial states are typed.
LEMMA TypeInit == Init => TypeInv
<1> SUFFICES ASSUME Init PROVE TypeInv
  OBVIOUS
<1>1. Genesis \in Block /\ Genesis.hash \in Hash /\ BaseSupply \in Nat
  BY BlocksAssumption, BlockTyping, EmissionAssumption
<1>2. chain = <<Genesis>> /\ chain \in Seq(Block) /\ chain # <<>>
  BY <1>1 DEF Init
<1>3. raised \in BOOLEAN
  BY DEF Init
<1>4. QED
  BY <1>1, <1>2, <1>3 DEF Init, TypeInv, TypeOK

\* The variables of the blockchain keep their types in every reachable state,
\* those in the middle of the recursion included.
THEOREM TypeCorrect == Spec => []TypeOK
<1>1. Init => TypeInv
  BY TypeInit
<1>2. QED
  BY <1>1, TypeInvStep, PTL DEF Spec, TypeInv

-----------------------------------------------------------------------------
(***************************************************************************)
(* The chain.  The inductive invariant ties the chain to spent_key_images: *)
(* every key image spent on the chain is in the set.  The set may hold     *)
(* more, those of blocks rejected half-way, which only makes add_block     *)
(* refuse more.                                                            *)
(***************************************************************************)

SpentCoversChain == \A i \in DOMAIN chain : Images(chain[i]) \subseteq spent

ChainInv == TypeInv /\ ChainLinked /\ SpentCoversChain /\ NoDoubleSpend

\* A block appended to the chain is linked to the tip it was validated on.
LEMMA AppendKeepsLinks ==
  ASSUME ChainInv, NEW b \in Block, Extend(b)
  PROVE  ChainLinked'
<1>1. /\ chain \in Seq(Block) /\ Len(chain) \in Nat \ {0}
      /\ chain' = Append(chain, b) /\ Len(chain') = Len(chain) + 1
      /\ chain'[Len(chain) + 1] = b
      /\ \A i \in 1 .. Len(chain) : chain'[i] = chain[i]
  BY DEF Extend, ChainInv, TypeInv, TypeOK
<1>2. b.prev = chain[Len(chain)].hash /\ b.height = chain[Len(chain)].height + 1
  BY DEF Extend, Accepts, Validate, Linked, Tip
<1>3. chain[Len(chain)].height = Len(chain) - 1
  BY <1>1, BlocksAssumption DEF ChainInv, ChainLinked
<1>4. height' = b.height /\ lastHash' = b.hash
  BY DEF Extend
<1>5. chain'[1] = Genesis
  BY <1>1 DEF ChainInv, ChainLinked
<1>6. ASSUME NEW i \in 2 .. Len(chain')
      PROVE  chain'[i].prev = chain'[i - 1].hash /\ chain'[i].height = i - 1
  <2>1. CASE i = Len(chain')
    BY <2>1, <1>1, <1>2, <1>3
  <2>2. CASE i # Len(chain')
    BY <2>2, <1>1 DEF ChainInv, ChainLinked
  <2>3. QED
    BY <2>1, <2>2
<1>7. QED
  BY <1>1, <1>2, <1>3, <1>4, <1>5, <1>6 DEF ChainLinked, Tip

\* A block appended to the chain spends nothing the chain has spent, and what
\* it spends is marked.
LEMMA AppendKeepsSpends ==
  ASSUME ChainInv, NEW b \in Block, Extend(b)
  PROVE  SpentCoversChain' /\ NoDoubleSpend'
<1>1. /\ chain \in Seq(Block) /\ Len(chain) \in Nat
      /\ chain' = Append(chain, b) /\ Len(chain') = Len(chain) + 1
      /\ chain'[Len(chain) + 1] = b
      /\ \A i \in 1 .. Len(chain) : chain'[i] = chain[i]
      /\ DOMAIN chain = 1 .. Len(chain) /\ DOMAIN chain' = 1 .. Len(chain')
  BY DEF Extend, ChainInv, TypeInv, TypeOK
<1>2. /\ Images(b) \cap spent = {}
      /\ \A p, q \in Spends(b) : Image(b, p) = Image(b, q) => p = q
  BY AcceptedSpends DEF Extend, Accepts
<1>3. spent' = spent \cup Images(b)
  BY AcceptedSpends DEF Extend, Accepts, ProcessTransactions, Images
<1>4. SpentCoversChain'
  <2> SUFFICES ASSUME NEW i \in DOMAIN chain'
               PROVE  Images(chain'[i]) \subseteq spent'
    BY DEF SpentCoversChain
  <2>1. CASE i = Len(chain')
    BY <2>1, <1>1, <1>3
  <2>2. CASE i # Len(chain')
    <3>1. i \in DOMAIN chain /\ chain'[i] = chain[i]
      BY <2>2, <1>1
    <3>2. QED
      BY <3>1, <1>3 DEF ChainInv, SpentCoversChain
  <2>3. QED
    BY <2>1, <2>2
<1>5. ASSUME NEW i \in DOMAIN chain, NEW p \in Spends(chain[i]), NEW q \in Spends(b)
      PROVE  Image(chain[i], p) # Image(b, q)
  <2>1. Image(chain[i], p) \in spent
    BY DEF ChainInv, SpentCoversChain, Images
  <2>2. Image(b, q) \in Images(b)
    BY DEF Images
  <2>3. QED
    BY <2>1, <2>2, <1>2
<1>6. NoDoubleSpend'
  <2> SUFFICES ASSUME NEW i \in DOMAIN chain', NEW j \in DOMAIN chain',
                      NEW p \in Spends(chain'[i]), NEW q \in Spends(chain'[j]),
                      Image(chain'[i], p) = Image(chain'[j], q)
               PROVE  i = j /\ p = q
    BY DEF NoDoubleSpend
  <2>1. \A k \in DOMAIN chain' : \/ k \in DOMAIN chain /\ chain'[k] = chain[k]
                                 \/ k = Len(chain') /\ chain'[k] = b
    BY <1>1
  <2>2. CASE i \in DOMAIN chain /\ j \in DOMAIN chain
    BY <2>1, <2>2, <1>1 DEF ChainInv, NoDoubleSpend
  <2>3. CASE i \in DOMAIN chain /\ j = Len(chain')
    BY <2>3, <1>1, <1>5
  <2>4. CASE i = Len(chain') /\ j \in DOMAIN chain
    BY <2>4, <1>1, <1>5
  <2>5. CASE i = Len(chain') /\ j = Len(chain')
    BY <2>5, <1>1, <1>2
  <2>6. QED
    BY <2>1, <2>2, <2>3, <2>4, <2>5
<1>7. QED
  BY <1>4, <1>6

\* The initial states satisfy ChainInv.
LEMMA ChainInvInit == Init => ChainInv
<1> SUFFICES ASSUME Init PROVE ChainInv
  OBVIOUS
<1>1. TypeInv
  BY TypeInit
<1>2. chain = <<Genesis>> /\ DOMAIN chain = {1} /\ Len(chain) = 1 /\ chain[1] = Genesis
  BY DEF Init
<1>3. ChainLinked
  BY <1>2 DEF Init, ChainLinked, Tip
<1>4. Spends(Genesis) = {}
  BY BlocksAssumption DEF Spends, Regular
<1>5. SpentCoversChain /\ NoDoubleSpend
  BY <1>2, <1>4 DEF SpentCoversChain, NoDoubleSpend, Images
<1>6. QED
  BY <1>1, <1>3, <1>5 DEF ChainInv

\* ChainInv is inductive.
LEMMA ChainInvStep == ChainInv /\ [Next]_vars => ChainInv'
<1> SUFFICES ASSUME ChainInv, [Next]_vars
             PROVE  ChainInv'
  OBVIOUS
<1>1. TypeInv'
  BY TypeInvStep DEF ChainInv
<1>2. CASE UNCHANGED <<chainVars, effects>>
  BY <1>1, <1>2 DEF chainVars, effects, ChainInv, ChainLinked, Tip,
                    SpentCoversChain, NoDoubleSpend
<1>3. ASSUME NEW b \in Block, DoubleSpend(b)
      PROVE  ChainInv'
  <2>1. chain' = chain /\ height' = height /\ lastHash' = lastHash
    BY <1>3 DEF DoubleSpend, chainVars
  <2>2. spent \subseteq spent'
    BY <1>3, EffectsTyping DEF DoubleSpend, ChainInv, TypeInv
  <2>3. QED
    BY <1>1, <2>1, <2>2 DEF ChainInv, ChainLinked, Tip, SpentCoversChain, NoDoubleSpend
<1>4. ASSUME NEW b \in Block, Extend(b)
      PROVE  ChainInv'
  BY <1>1, <1>4, AppendKeepsLinks, AppendKeepsSpends DEF ChainInv
<1>5. QED
  BY <1>2, <1>3, <1>4, StepKinds DEF ChainInv, TypeInv

\* ChainInv holds in every state.
LEMMA ChainInvariant == Spec => []ChainInv
<1>1. QED
  BY ChainInvInit, ChainInvStep, PTL DEF Spec

\* In every reachable state the chain is linked from the genesis block to the
\* tip that state.height and state.last_block_hash describe.
THEOREM ChainIsLinked == Spec => []ChainLinked
<1>1. ChainInv => ChainLinked
  BY DEF ChainInv
<1>2. QED
  BY <1>1, ChainInvariant, PTL

\* No key image is ever spent twice on the chain.
THEOREM NeverDoubleSpent == Spec => []NoDoubleSpend
<1>1. ChainInv => NoDoubleSpend
  BY DEF ChainInv
<1>2. QED
  BY <1>1, ChainInvariant, PTL

\* The chain only grows, a block at a time, and no spent key image and no
\* minted unit is taken back.
THEOREM ChainOnlyGrows == Spec => AppendOnly
<1>1. ASSUME ChainInv, [Next]_vars
      PROVE  [/\ Len(chain') \in {Len(chain), Len(chain) + 1}
              /\ SubSeq(chain', 1, Len(chain)) = chain
              /\ spent \subseteq spent'
              /\ supply <= supply']_vars
  <2>1. chain \in Seq(Block) /\ supply \in Nat /\ supply >= BaseSupply
    BY <1>1 DEF ChainInv, TypeInv, TypeOK
  <2>2. SubSeq(chain, 1, Len(chain)) = chain
    BY <2>1, SubSeqFull
  <2>3. CASE UNCHANGED <<chainVars, effects>>
    BY <2>1, <2>2, <2>3 DEF chainVars, effects
  <2>4. ASSUME NEW b \in Block, DoubleSpend(b)
        PROVE  /\ chain' = chain /\ spent \subseteq spent'
               /\ supply <= supply'
    <3>1. spent \subseteq spent' /\ supply' \in Nat /\ supply' >= supply
      BY <1>1, <2>4, EffectsTyping DEF DoubleSpend, ChainInv, TypeInv
    <3>2. QED
      BY <2>1, <2>4, <3>1 DEF DoubleSpend, chainVars
  <2>5. ASSUME NEW b \in Block, Extend(b)
        PROVE  /\ Len(chain') = Len(chain) + 1
               /\ SubSeq(chain', 1, Len(chain)) = chain
               /\ spent \subseteq spent' /\ supply <= supply'
    <3>1. spent \subseteq spent' /\ supply' \in Nat /\ supply' >= supply
      BY <1>1, <2>5, EffectsTyping DEF Extend, ChainInv, TypeInv
    <3>2. chain' = Append(chain, b)
      BY <2>5 DEF Extend
    <3>3. SubSeq(Append(chain, b), 1, Len(chain)) = chain
      BY <2>1
    <3>4. QED
      BY <2>1, <3>1, <3>2, <3>3
  <2>6. QED
    BY <1>1, <2>1, <2>2, <2>3, <2>4, <2>5, StepKinds DEF ChainInv, TypeInv
<1>2. QED
  BY <1>1, ChainInvariant, PTL DEF Spec, AppendOnly

\* The instance of AbstractLedger reads blocks the way Ledger does.
LEMMA SameBlocks ==
  /\ \A b, prev : Abstract!Validate(b, prev) = Validate(b, prev)
  /\ \A b, S : Abstract!Conflicts(b, S) = Conflicts(b, S)
  /\ \A b : Abstract!Images(b) = Images(b)
<1>1. \A b, prev : Abstract!Validate(b, prev) = Validate(b, prev)
  BY DEF Abstract!Validate, Validate, Abstract!Linked, Linked, Abstract!Hashable, Hashable,
         Abstract!ValidateBasic, ValidateBasic
<1>2. /\ \A b : Abstract!Spends(b) = Spends(b)
      /\ \A b, q : Abstract!Image(b, q) = Image(b, q)
      /\ \A p, q : Abstract!Before(p, q) = Before(p, q)
  BY DEF Abstract!Spends, Spends, Abstract!Regular, Regular, Abstract!Image, Image,
         Abstract!Before, Before
<1>3. \A b, S : Abstract!Conflicts(b, S) = Conflicts(b, S)
  BY <1>2 DEF Abstract!Conflicts, Conflicts
<1>4. \A b : Abstract!Images(b) = Images(b)
  BY <1>2 DEF Abstract!Images, Images
<1>5. QED
  BY <1>1, <1>3, <1>4

\* The Blockchain class implements the append-only list of valid blocks: every
\* block it appends is valid on the tip and spends nothing spent before it on
\* the chain, and no other step changes the chain.
THEOREM LedgerImplementsAbstract == Spec => ImplementsAbstract
<1>1. Init => Abstract!Init
  BY DEF Init, Abstract!Init
<1>2. ASSUME ChainInv, [Next]_vars
      PROVE  [Abstract!Next]_chain
  <2>1. CASE UNCHANGED <<chainVars, effects>>
    BY <2>1 DEF chainVars
  <2>2. CASE \E b \in Block : DoubleSpend(b)
    BY <2>2 DEF DoubleSpend, chainVars
  <2>3. ASSUME NEW b \in Block, Extend(b)
        PROVE  Abstract!Extend(b)
    <3>1. Abstract!SpentIn(chain) \subseteq spent
      BY <1>2, SameBlocks DEF Abstract!SpentIn, ChainInv, SpentCoversChain
    <3>2. Conflicts(b, spent) = {}
      BY <2>3 DEF Extend, Accepts
    <3>3. Conflicts(b, Abstract!SpentIn(chain)) = {}
      BY <3>1, <3>2 DEF Conflicts
    <3>4. Validate(b, chain[Len(chain)]) /\ chain' = Append(chain, b)
      BY <2>3 DEF Extend, Accepts, Tip
    <3>5. QED
      BY <3>3, <3>4, SameBlocks DEF Abstract!Extend
  <2>4. QED
    BY <1>2, <2>1, <2>2, <2>3, StepKinds DEF Abstract!Next, ChainInv, TypeInv
<1>3. QED
  BY <1>1, <1>2, ChainInvariant, PTL DEF Spec, ImplementsAbstract, Abstract!Spec

-----------------------------------------------------------------------------
(***************************************************************************)
(* The supply.                                                             *)
(***************************************************************************)

\* If no block has two coinbases, no step of the blockchain takes the supply
\* across the cap, not even one that ends in a rejection.
THEOREM CapCrossedByTailOnly ==
  ASSUME \A b \in Block : \A i, j \in DOMAIN b.txs :
           b.txs[i].coinbase /\ b.txs[j].coinbase => i = j
  PROVE  Spec => CapNotCrossed
<1>1. ASSUME TypeInv, NEW b \in Block, ProcessTransactions(b), supply < MaxSupply
      PROVE  supply' <= MaxSupply
  <2>1. Cardinality(Coinbases(b, spent)) \in {0, 1}
    <3>1. CASE Coinbases(b, spent) = {}
      BY <3>1, FS_EmptySet
    <3>2. CASE Coinbases(b, spent) # {}
      <4>1. PICK i : Coinbases(b, spent) = {i}
        BY <3>2 DEF Coinbases, Completed
      <4>2. QED
        BY <4>1, FS_Singleton
    <3>3. QED
      BY <3>1, <3>2
  <2>2. /\ supply \in Nat /\ BlockReward(supply) \in Nat
        /\ supply + BlockReward(supply) <= MaxSupply
    BY <1>1, RewardBounds DEF TypeInv, TypeOK
  <2>3. supply' = supply + BlockReward(supply) * Cardinality(Coinbases(b, spent))
    BY <1>1 DEF ProcessTransactions
  <2>4. QED
    BY <1>1, <2>1, <2>2, <2>3, EmissionAssumption
<1>2. ASSUME TypeInv, [Next]_vars
      PROVE  [supply < MaxSupply => supply' <= MaxSupply]_vars
  <2>1. CASE UNCHANGED <<chainVars, effects>>
    BY <1>2, <2>1, EmissionAssumption DEF effects, TypeInv, TypeOK
  <2>2. CASE \E b \in Block : DoubleSpend(b)
    BY <1>1, <1>2, <2>2 DEF DoubleSpend
  <2>3. CASE \E b \in Block : Extend(b)
    BY <1>1, <1>2, <2>3 DEF Extend
  <2>4. QED
    BY <1>2, <2>1, <2>2, <2>3, StepKinds DEF TypeInv
<1>3. ChainInv => TypeInv
  BY DEF ChainInv
<1>4. QED
  BY <1>2, <1>3, ChainInvariant, PTL DEF Spec, CapNotCrossed

-----------------------------------------------------------------------------
(***************************************************************************)
(* The mempool.                                                            *)
(***************************************************************************)

\* No two transactions of the mempool ever spend the same key image:
\* add_to_mempool looks at all of them, and clear_mempool duplicates none.
THEOREM MempoolIsDisjoint == Spec => []MempoolDisjoint
<1>1. Init => MempoolDisjoint
  BY DEF Init, MempoolDisjoint
<1>2. ASSUME TypeOK, MempoolDisjoint, [Next]_vars
      PROVE  MempoolDisjoint'
  <2>1. CASE UNCHANGED mempool
    BY <1>2, <2>1 DEF MempoolDisjoint
  <2>2. ASSUME NEW t \in Tx, AddToMempool(t)
        PROVE  MempoolDisjoint'
    <3>1. mempool' = Append(mempool, t) /\ mempool \in Seq(Tx)
      BY <1>2, <2>2 DEF AddToMempool, TypeOK
    <3>2. \A i \in DOMAIN mempool' :
            \/ i \in DOMAIN mempool /\ mempool'[i] = mempool[i]
            \/ i = Len(mempool) + 1 /\ mempool'[i] = t
      BY <3>1
    <3>3. \A i \in DOMAIN mempool : ImagesOf(t) \cap ImagesOf(mempool[i]) = {}
      BY <2>2 DEF AddToMempool, MempoolAccepts
    <3> QED BY <1>2, <3>2, <3>3 DEF MempoolDisjoint
  <2>3. ASSUME NEW ids, ClearMempool(ids)
        PROVE  MempoolDisjoint'
    <3> DEFINE kept == {i \in DOMAIN mempool : mempool[i].id \notin ids}
    <3>1. PICK place \in [1 .. Cardinality(kept) -> kept] :
            /\ \A i, j \in DOMAIN place : i < j => place[i] < place[j]
            /\ mempool' = [i \in DOMAIN place |-> mempool[place[i]]]
      BY <2>3 DEF ClearMempool
    <3>2. \A i \in kept : i \in DOMAIN mempool /\ i \in Int
      BY <1>2 DEF TypeOK
    <3>3. IsFiniteSet(kept)
      <4>1. IsFiniteSet(1 .. Len(mempool)) /\ kept \subseteq 1 .. Len(mempool)
        BY <1>2, FS_Interval DEF TypeOK
      <4> QED BY <4>1, FS_Subset
    <3> HIDE DEF kept
    <3>4. \A i \in DOMAIN place : i \in Int /\ place[i] \in DOMAIN mempool /\ place[i] \in Int
      BY <3>1, <3>2, <3>3, FS_CardinalityType
    <3>5. \A i, j \in DOMAIN place : i # j => place[i] # place[j]
      BY <3>1, <3>4
    <3> QED BY <1>2, <3>1, <3>4, <3>5 DEF MempoolDisjoint
  <2>4. \/ UNCHANGED mempool
        \/ \E t \in Tx : AddToMempool(t)
        \/ \E ids : ClearMempool(ids)
    BY <1>2 DEF Next, MempoolStep, AddBlock, ProcessOrphans, vars
  <2> QED BY <2>1, <2>2, <2>3, <2>4
<1> QED BY <1>1, <1>2, TypeCorrect, PTL DEF Spec

-----------------------------------------------------------------------------
(***************************************************************************)
(* The blocks that wait for their parent.  In the middle of the recursion  *)
(* a block that the chain could take may wait, but then it is among those  *)
(* the innermost pass has still to look at.  What the passes below it have *)
(* left of their snapshots does not matter: each of them starts over when  *)
(* the call it made returns.  An exception breaks all of them off; the     *)
(* next block that joins the chain begins a pass over all that waits.      *)
(***************************************************************************)

ToTry(b) == ~Idle /\ \E k \in DOMAIN Pass : Pass[k] = b

ReadyInv ==
  (Idle /\ raised) \/ \A i \in DOMAIN orphans :
    orphans[i].prev = lastHash => ~Accepts(orphans[i]) \/ ToTry(orphans[i])

\* What add_block refuses on a tip it refuses as long as that is the tip: spent
\* key images only come to it.
LEMMA RefusalStays ==
  ASSUME chain' = chain, spent \subseteq spent', NEW b, ~Accepts(b)
  PROVE  ~Accepts(b)'
BY DEF Accepts, Tip, Conflicts

\* The innermost pass goes on: only its first block is no longer to be tried.
LEMMA PassGoesOn ==
  ASSUME TypeInv, NEW b \in Block, Candidate(b), ContinuePass
  PROVE  \A c : ToTry(c) => c = b \/ ToTry(c)'
<1>1. /\ frames \in Seq(Seq(Block)) /\ Len(frames) \in 1 .. Len(frames)
      /\ Pass \in Seq(Block) /\ Pass # <<>> /\ b = Pass[1]
  BY DEF Candidate, Idle, Pass, TypeInv, TypeOK
<1>2. Len(frames') = Len(frames) /\ frames'[Len(frames)] = Tail(Pass)
  BY <1>1 DEF ContinuePass, Pass
<1>3. ~Idle' /\ Pass' = Tail(Pass)
  <2>1. frames' # <<>>
    BY <1>1, <1>2
  <2> QED BY <1>2, <2>1 DEF Idle, Pass
<1>4. ASSUME NEW k \in DOMAIN Pass, k # 1
      PROVE  k - 1 \in DOMAIN Tail(Pass) /\ Tail(Pass)[k - 1] = Pass[k]
  BY <1>1, <1>4
<1> QED BY <1>1, <1>3, <1>4 DEF ToTry

\* A fresh snapshot holds every block that waits.
LEMMA FreshPass ==
  ASSUME ~Idle', Pass' = orphans'
  PROVE  ReadyInv'
BY DEF ReadyInv, ToTry

\* The last element after an append.
LEMMA LastOfAppend ==
  ASSUME NEW s \in Seq(Seq(Block)), NEW p \in Seq(Block)
  PROVE  Append(s, p) # <<>> /\ Append(s, p)[Len(Append(s, p))] = p
<1>1. Append(s, p) \in Seq(Seq(Block)) /\ Len(Append(s, p)) = Len(s) + 1
  OBVIOUS
<1>2. Append(s, p)[Len(s) + 1] = p
  BY AppendProperties
<1> QED BY <1>1, <1>2

\* ReadyInv is inductive, given ChainInv.
LEMMA ReadyStep == ChainInv /\ ReadyInv /\ [Next]_vars => ReadyInv'
<1> SUFFICES ASSUME ChainInv, ReadyInv, [Next]_vars PROVE ReadyInv'
  OBVIOUS
<1>1. TypeInv /\ lastHash = Tip.hash
  BY DEF ChainInv, ChainLinked
<1>2. CASE UNCHANGED <<chainVars, spent, orphans, frames, raised>>
  BY <1>2 DEF chainVars, ReadyInv, ToTry, Idle, Pass, Accepts, Tip
<1>3. ASSUME NEW b \in Block, StoreOrphan(b), raised' = raised
      PROVE  ReadyInv'
  <2>1. b.prev # lastHash
    BY <1>1, <1>3 DEF StoreOrphan, MissesParent
  <2>2. \A i \in DOMAIN orphans' :
          orphans'[i] = b \/ (i \in DOMAIN orphans /\ orphans'[i] = orphans[i])
    BY <1>1, <1>3 DEF StoreOrphan, Store, TypeInv, TypeOK
  <2>3. /\ lastHash' = lastHash /\ chain' = chain /\ spent' = spent
        /\ frames' = frames /\ raised' = raised
    BY <1>3 DEF StoreOrphan, chainVars, effects
  <2> QED BY <2>1, <2>2, <2>3 DEF ReadyInv, ToTry, Idle, Pass, Accepts, Tip
<1>4. ASSUME NEW b \in Block, DoubleSpend(b), UNCHANGED <<orphans, frames, raised>>
      PROVE  ReadyInv'
  <2>1. spent \subseteq spent' /\ chain' = chain /\ lastHash' = lastHash
    BY <1>1, <1>4, EffectsTyping DEF DoubleSpend, chainVars, TypeInv
  <2>2. \A c : ToTry(c)' <=> ToTry(c)
    BY <1>4 DEF ToTry, Idle, Pass
  <2> QED BY <1>4, <2>1, <2>2, RefusalStays DEF ReadyInv, Idle
<1>5. ASSUME NEW b \in Block, AppendBlock(b)
      PROVE  ReadyInv'
  <2>1. frames' = Append(frames, orphans) /\ orphans' = orphans
    BY <1>5 DEF AppendBlock
  <2>2. ~Idle' /\ Pass' = orphans'
    BY <1>1, <2>1, LastOfAppend DEF Idle, Pass, TypeInv, TypeOK
  <2> QED BY <2>2, FreshPass
<1>6. ASSUME NEW b \in Block, SkipOrphan(b)
      PROVE  ReadyInv'
  <2>1. ~Idle /\ (b.prev # lastHash \/ ~Accepts(b))
    BY <1>6 DEF SkipOrphan, Candidate, Accepts
  <2>2. \A c : ToTry(c) => c = b \/ ToTry(c)'
    BY <1>1, <1>6, PassGoesOn DEF SkipOrphan
  <2>3. orphans' = orphans /\ chain' = chain /\ spent' = spent /\ lastHash' = lastHash
    BY <1>6 DEF SkipOrphan, chainVars, effects
  <2> QED BY <2>1, <2>2, <2>3, RefusalStays DEF ReadyInv
<1>7. ASSUME NEW b \in Block, RejectOrphan(b)
      PROVE  ReadyInv'
  <2>1. ~Idle /\ ~Accepts(b)
    BY <1>7 DEF RejectOrphan, Candidate, DoubleSpend, Accepts
  <2>2. \A c : ToTry(c) => c = b \/ ToTry(c)'
    BY <1>1, <1>7, PassGoesOn DEF RejectOrphan
  <2>3. /\ orphans' = orphans /\ chain' = chain /\ lastHash' = lastHash
        /\ spent \subseteq spent'
    BY <1>1, <1>7, EffectsTyping DEF RejectOrphan, DoubleSpend, chainVars, TypeInv
  <2> QED BY <2>1, <2>2, <2>3, RefusalStays DEF ReadyInv
<1>8. CASE ReturnToCaller
  <2>1. Pass = <<>> /\ ~Idle
    BY <1>8 DEF ReturnToCaller
  <2>2. \A c : ~ToTry(c)
    BY <2>1 DEF ToTry
  <2>3. orphans' = orphans /\ chain' = chain /\ spent' = spent /\ lastHash' = lastHash
    BY <1>8 DEF ReturnToCaller, chainVars, effects
  <2> QED BY <2>1, <2>2, <2>3, RefusalStays DEF ReadyInv
<1>9. CASE ReturnToPass
  <2>1. frames' = Append(SubSeq(frames, 1, Len(frames) - 2), orphans')
    BY <1>9 DEF ReturnToPass
  <2>2. orphans' \in Seq(Block)
    BY <1>1, <1>9, DeleteTyping DEF ReturnToPass, TypeInv, TypeOK
  <2>3. SubSeq(frames, 1, Len(frames) - 2) \in Seq(Seq(Block))
    BY <1>1, <1>9, SubSeqProperties DEF ReturnToPass, TypeInv, TypeOK
  <2>4. ~Idle' /\ Pass' = orphans'
    BY <2>1, <2>2, <2>3, LastOfAppend DEF Idle, Pass
  <2> QED BY <2>4, FreshPass
<1>10. CASE Unwind
  BY <1>10 DEF Unwind, Idle, ReadyInv
<1>11. CASE \E b \in Block : AddBlock(b)
  BY <1>2, <1>3, <1>4, <1>5, <1>11 DEF AddBlock, RejectInvalid, RejectDoubleSpend, AcceptBlock, effects
<1>12. CASE ProcessOrphans
  BY <1>5, <1>6, <1>7, <1>8, <1>9, <1>10, <1>12
     DEF ProcessOrphans, AdoptOrphan, HashingFails, StackRunsOut
<1>13. CASE MempoolStep \/ UNCHANGED vars
  BY <1>2, <1>13 DEF MempoolStep, AddToMempool, ClearMempool, vars, chainVars, effects
<1> QED BY <1>11, <1>12, <1>13 DEF Next

\* When add_block has returned, no stored block is left that the chain could
\* take: the recursion of _process_orphans tries every one of them.
THEOREM NoOrphanIsReady == Spec => []NoReadyOrphan
<1>1. Init => ReadyInv
  BY DEF Init, ReadyInv
<1>2. ReadyInv => NoReadyOrphan
  BY DEF ReadyInv, NoReadyOrphan, ToTry
<1> QED BY <1>1, <1>2, ReadyStep, ChainInvariant, PTL DEF Spec

-----------------------------------------------------------------------------
(***************************************************************************)
(* Catching up with one chain.  What is not forgotten is on the chain or   *)
(* waits; no key image is marked but by blocks of the chain, since no      *)
(* block of one chain is a double spend on the one below it; and the block *)
(* that a nested pass deletes when it returns is on the chain.  That the   *)
(* lowest block over the tip waits, and waits on the tip, then contradicts *)
(* ReadyInv.                                                               *)
(***************************************************************************)

SpentByChain == \A k \in spent : \E c \in OnChain : k \in Images(c)

Waiting == {orphans[i] : i \in DOMAIN orphans}

Kept == received \ dropped \subseteq OnChain \cup Waiting

HeadsAdopted ==
  \A j \in 1 .. Len(frames) - 1 : frames[j] # <<>> /\ Head(frames[j]) \in OnChain

DeliveryInv == ChainInv /\ ReadyInv /\ received \subseteq Block
               /\ SpentByChain /\ Kept /\ HeadsAdopted

\* The blocks of the chain have the heights of their places, and no other
\* block of one chain has one of these.
LEMMA Heights ==
  ASSUME OneChain, ChainInv
  PROVE  /\ OnChain \subseteq Block
         /\ \A i \in DOMAIN chain : chain[i].height = i - 1
         /\ \A b \in Block : b.height < Len(chain) => b \in OnChain
         /\ \A b \in OnChain : b.height < Len(chain)
         /\ Tip \in OnChain /\ Tip.height = Len(chain) - 1
<1>1. chain \in Seq(Block) /\ Len(chain) \in Nat \ {0} /\ DOMAIN chain = 1 .. Len(chain)
  BY DEF ChainInv, TypeInv, TypeOK
<1>2. \A i \in DOMAIN chain : chain[i].height = i - 1
  BY <1>1, BlocksAssumption DEF ChainInv, ChainLinked
<1>3. ASSUME NEW b \in Block, b.height < Len(chain)
      PROVE  b \in OnChain
  <2>1. b.height \in Nat
    BY BlockTyping
  <2>2. b.height + 1 \in DOMAIN chain /\ chain[b.height + 1].height = b.height
    BY <1>1, <1>2, <1>3, <2>1
  <2>3. chain[b.height + 1] = b
    BY <1>1, <2>2 DEF OneChain
  <2> QED BY <2>2, <2>3 DEF OnChain
<1> QED BY <1>1, <1>2, <1>3 DEF OnChain, Tip

\* A block of one chain that is valid on the tip is no double spend.
LEMMA ValidIsAccepted ==
  ASSUME OneChain, ChainInv, SpentByChain, NEW b \in Block, Validate(b, Tip)
  PROVE  Accepts(b)
<1>1. b.height = Len(chain)
  BY Heights DEF Validate, Linked, ChainInv, TypeInv, TypeOK
<1>2. b \notin OnChain
  BY <1>1, Heights, BlockTyping
<1>3. ASSUME NEW p \in Spends(b), Image(b, p) \in spent
      PROVE  FALSE
  <2>1. PICK c \in OnChain : Image(b, p) \in Images(c)
    BY <1>3 DEF SpentByChain
  <2>2. Image(b, p) \in Images(b) /\ c \in Block /\ c # b
    BY <1>2, Heights DEF Images
  <2> QED BY <2>1, <2>2 DEF OneChain
<1>4. Conflicts(b, spent) \subseteq Conflicts(b, {})
  BY <1>3 DEF Conflicts
<1> QED BY <1>4 DEF Accepts, OneChain

\* With what ReadyInv says of the blocks that wait, the invariant leaves no
\* block behind.
LEMMA NobodyLeftBehind == OneChain /\ DeliveryInv => CaughtUp
<1> SUFFICES ASSUME OneChain, DeliveryInv, Idle, ~raised, NEW b \in received,
                    \A a \in Block \ {Genesis} : a.height <= b.height => a \in received \ dropped,
                    b \notin OnChain
             PROVE  FALSE
  BY DEF CaughtUp
<1>1. /\ chain \in Seq(Block) /\ Len(chain) \in Nat \ {0} /\ b \in Block
      /\ b.height \in Nat /\ b.height >= Len(chain)
  BY Heights, BlockTyping DEF DeliveryInv, ChainInv, TypeInv, TypeOK
<1> DEFINE Above == {c.height : c \in {c \in Block : c.height >= Len(chain)}}
<1>2. Above \in SUBSET Nat /\ b.height \in Above
  BY <1>1, BlockTyping
<1>3. PICK n \in Above : \A m \in Above : n <= m
  BY <1>2, LeastNatural
<1>4. PICK c \in Block : c.height >= Len(chain) /\ n = c.height
  BY <1>3
<1>5. c.height \in Nat /\ c.height <= b.height
  BY <1>2, <1>3, <1>4, BlockTyping
<1>6. c # Genesis
  BY <1>1, <1>4, BlocksAssumption
<1>7. PICK a \in Block : Validate(c, a)
  BY <1>6 DEF OneChain
<1>8. a.height \in Nat /\ c.height = a.height + 1
  BY <1>7, BlockTyping DEF Validate, Linked
<1>9. a.height < Len(chain)
  <2> SUFFICES ASSUME a.height >= Len(chain) PROVE FALSE
    BY <1>1, <1>8
  <2>1. a.height \in Above
    OBVIOUS
  <2>2. n <= a.height
    BY <2>1, <1>3
  <2> QED BY <2>2, <1>4, <1>8
<1>10. a.height = Len(chain) - 1 /\ c.height = Len(chain)
  BY <1>1, <1>4, <1>8, <1>9
<1>11. a = Tip
  BY <1>10, Heights DEF OneChain, DeliveryInv
<1>12. c \notin OnChain
  BY <1>10, Heights, BlockTyping DEF DeliveryInv
<1>13. c \in Waiting
  BY <1>5, <1>6, <1>12 DEF DeliveryInv, Kept
<1>14. Accepts(c) /\ c.prev = lastHash
  BY <1>7, <1>11, ValidIsAccepted DEF DeliveryInv, ChainInv, ChainLinked, Validate, Linked
<1> QED BY <1>13, <1>14 DEF DeliveryInv, ReadyInv, Waiting, ToTry

\* A step of the delivery is one of the blockchain.
LEMMA DeliveryRefines == [DeliveryNext]_deliveryVars => [Next]_vars
BY DEF DeliveryNext, Deliver, Next, deliveryVars, vars

\* Appending keeps the blocks of the chain and adds the new one.
LEMMA OnChainAppend ==
  ASSUME TypeInv, NEW b \in Block, Extend(b)
  PROVE  OnChain' = OnChain \cup {b}
<1>1. chain \in Seq(Block) /\ chain' = Append(chain, b)
  BY DEF Extend, TypeInv, TypeOK
<1>2. /\ DOMAIN chain' = DOMAIN chain \cup {Len(chain) + 1}
      /\ chain'[Len(chain) + 1] = b
      /\ \A i \in DOMAIN chain : chain'[i] = chain[i]
  BY <1>1
<1> QED BY <1>2 DEF OnChain

\* Where there is one chain, all that is spent is spent by blocks of the chain.
LEMMA SpentStep ==
  ASSUME OneChain, ChainInv, SpentByChain, [Next]_vars
  PROVE  SpentByChain'
<1>1. CASE UNCHANGED <<chainVars, effects>>
  BY <1>1 DEF chainVars, effects, SpentByChain, OnChain
<1>2. ASSUME NEW b \in Block, DoubleSpend(b)
      PROVE  FALSE
  BY <1>2, ValidIsAccepted DEF DoubleSpend, Accepts
<1>3. ASSUME NEW b \in Block, Extend(b)
      PROVE  SpentByChain'
  <2>1. OnChain' = OnChain \cup {b}
    BY <1>3, OnChainAppend DEF ChainInv
  <2>2. spent' = spent \cup Images(b)
    BY <1>3, AcceptedSpends DEF Extend, Accepts, ProcessTransactions, Images
  <2> QED BY <2>1, <2>2 DEF SpentByChain
<1> QED BY <1>1, <1>2, <1>3, StepKinds DEF ChainInv, TypeInv

\* The chain loses no block.
LEMMA OnChainGrows ==
  ASSUME TypeInv, [Next]_vars
  PROVE  OnChain \subseteq OnChain'
<1>1. CASE UNCHANGED <<chainVars, effects>>
  BY <1>1 DEF chainVars, OnChain
<1>2. CASE \E b \in Block : DoubleSpend(b)
  BY <1>2 DEF DoubleSpend, chainVars, OnChain
<1>3. CASE \E b \in Block : Extend(b)
  BY <1>3, OnChainAppend
<1> QED BY <1>1, <1>2, <1>3, StepKinds DEF TypeInv

\* The first elements of a sequence.
LEMMA FirstElements ==
  ASSUME NEW S, NEW s \in Seq(S), NEW n \in Nat, n <= Len(s)
  PROVE  /\ SubSeq(s, 1, n) \in Seq(S)
         /\ Len(SubSeq(s, 1, n)) = n
         /\ \A j \in 1 .. n : SubSeq(s, 1, n)[j] = s[j]
<1>1. \A j \in 1 .. n : s[j] \in S
  OBVIOUS
<1> DEFINE t == SubSeq(s, 1, n)
<1>2. /\ t \in Seq(S)
      /\ Len(t) = IF 1 <= n THEN n - 1 + 1 ELSE 0
      /\ \A j \in 1 .. n - 1 + 1 : t[j] = s[1 + j - 1]
  BY <1>1, SubSeqProperties
<1>3. n - 1 + 1 = n /\ (~(1 <= n) => n = 0)
  OBVIOUS
<1>4. \A j \in 1 .. n : j \in 1 .. n - 1 + 1 /\ 1 + j - 1 = j
  OBVIOUS
<1> HIDE DEF t
<1>5. t \in Seq(S) /\ Len(t) = n
  BY <1>2, <1>3
<1>6. ASSUME NEW j \in 1 .. n
      PROVE  t[j] = s[j]
  BY <1>2, <1>4
<1> QED BY <1>5, <1>6 DEF t

\* A nested call that returns takes its own entry off the stack, and the call
\* below it starts over in the place of what it had left.
LEMMA ReturnToPassFrames ==
  ASSUME TypeInv, ReturnToPass
  PROVE  /\ orphans' \in Seq(Block)
         /\ Len(frames') = Len(frames) - 1
         /\ frames'[Len(frames) - 1] = orphans'
         /\ \A j \in 1 .. Len(frames) - 2 : frames'[j] = frames[j]
<1>1. frames \in Seq(Seq(Block)) /\ Len(frames) \in Nat /\ Len(frames) > 1
  BY DEF ReturnToPass, TypeInv, TypeOK
<1> DEFINE n == Len(frames) - 2
           s == SubSeq(frames, 1, n)
<1>2. n \in Nat /\ n <= Len(frames)
  BY <1>1
<1>3. frames' = Append(s, orphans') /\ n + 1 = Len(frames) - 1
  BY <1>1 DEF ReturnToPass
<1>4. orphans' \in Seq(Block)
  BY DeleteTyping DEF ReturnToPass, TypeInv, TypeOK
<1> HIDE DEF n
<1>5. s \in Seq(Seq(Block)) /\ Len(s) = n /\ \A j \in 1 .. n : s[j] = frames[j]
  BY <1>1, <1>2, FirstElements
<1> HIDE DEF s
<1>6. /\ Len(frames') = n + 1 /\ frames'[n + 1] = orphans'
      /\ \A j \in 1 .. n : frames'[j] = s[j]
  BY <1>2, <1>3, <1>4, <1>5, AppendProperties
<1>7. \A j \in 1 .. n : frames'[j] = frames[j]
  BY <1>5, <1>6
<1> QED BY <1>3, <1>4, <1>6, <1>7 DEF n

\* The blocks whose add_block has not returned are on the chain.
LEMMA HeadsStep ==
  ASSUME TypeInv, HeadsAdopted, [Next]_vars
  PROVE  HeadsAdopted'
<1>1. frames \in Seq(Seq(Block)) /\ Len(frames) \in Nat /\ OnChain \subseteq OnChain'
  BY OnChainGrows DEF TypeInv, TypeOK
<1>2. CASE UNCHANGED frames
  BY <1>1, <1>2 DEF HeadsAdopted
<1>3. ASSUME Idle, NEW b \in Block, AppendBlock(b)
      PROVE  HeadsAdopted'
  <2>1. Len(frames') = 1
    BY <1>1, <1>3 DEF Idle, AppendBlock
  <2> QED BY <2>1 DEF HeadsAdopted
<1>4. ASSUME NEW b \in Block, AdoptOrphan(b)
      PROVE  HeadsAdopted'
  <2>1. frames' = Append(frames, orphans) /\ orphans \in Seq(Block)
    BY <1>4 DEF AdoptOrphan, AppendBlock, TypeInv, TypeOK
  <2>2. /\ Len(frames') = Len(frames) + 1 /\ Len(frames) >= 1
        /\ \A j \in 1 .. Len(frames) : frames'[j] = frames[j]
    BY <1>1, <1>4, <2>1 DEF AdoptOrphan, Candidate, Idle
  <2>3. frames[Len(frames)] # <<>> /\ Head(frames[Len(frames)]) = b /\ b \in OnChain'
    BY <1>4, OnChainAppend DEF AdoptOrphan, AppendBlock, Candidate, Pass
  <2> QED BY <1>1, <2>2, <2>3, SMTT(60) DEF HeadsAdopted
<1>5. ASSUME ~Idle, ContinuePass
      PROVE  HeadsAdopted'
  <2>1. /\ Len(frames') = Len(frames)
        /\ \A j \in 1 .. Len(frames) - 1 : frames'[j] = frames[j]
    BY <1>1, <1>5 DEF ContinuePass
  <2> QED BY <1>1, <2>1 DEF HeadsAdopted
<1>6. CASE ReturnToCaller \/ Unwind
  BY <1>6 DEF ReturnToCaller, Unwind, HeadsAdopted
<1>7. CASE ReturnToPass
  BY <1>1, <1>7, ReturnToPassFrames, SMTT(60) DEF ReturnToPass, HeadsAdopted
<1>8. CASE \E b \in Block : AddBlock(b)
  BY <1>2, <1>3, <1>8 DEF AddBlock, StoreOrphan, RejectInvalid, RejectDoubleSpend, AcceptBlock
<1>9. CASE ProcessOrphans
  BY <1>4, <1>5, <1>6, <1>7, <1>9 DEF ProcessOrphans, SkipOrphan, RejectOrphan, HashingFails,
                                      StackRunsOut, Candidate
<1>10. CASE MempoolStep \/ UNCHANGED vars
  BY <1>2, <1>10 DEF MempoolStep, AddToMempool, ClearMempool, vars
<1> QED BY <1>8, <1>9, <1>10 DEF Next

\* Storing a block that waits already, or another one.
LEMMA StoreKeeps ==
  ASSUME OneChain, NEW dict \in Seq(Block), NEW b \in Block
  PROVE  {Store(dict, b)[i] : i \in DOMAIN Store(dict, b)} = {dict[i] : i \in DOMAIN dict} \cup {b}
<1>1. CASE \E i \in DOMAIN dict : dict[i].hash = b.hash
  <2>1. \A i \in DOMAIN dict : dict[i] \in Block
    OBVIOUS
  <2>2. \A i \in DOMAIN dict : dict[i].hash = b.hash => dict[i] = b
    BY <2>1, BlocksAssumption DEF OneChain
  <2>3. /\ DOMAIN Store(dict, b) = DOMAIN dict
        /\ \A i \in DOMAIN dict : Store(dict, b)[i] = dict[i]
    BY <1>1, <2>2 DEF Store
  <2> QED BY <1>1, <2>2, <2>3
<1>2. CASE ~ \E i \in DOMAIN dict : dict[i].hash = b.hash
  <2>1. Store(dict, b) = Append(dict, b)
    BY <1>2 DEF Store
  <2>2. /\ DOMAIN Append(dict, b) = DOMAIN dict \cup {Len(dict) + 1}
        /\ Append(dict, b)[Len(dict) + 1] = b
        /\ \A i \in DOMAIN dict : Append(dict, b)[i] = dict[i]
    BY SMTT(60)
  <2> QED BY <2>1, <2>2
<1> QED BY <1>1, <1>2

\* What a dictionary holds after a deletion: the entries before the one deleted
\* where they were, those after it one place earlier.
LEMMA DeleteElements ==
  ASSUME NEW dict \in Seq(Block), NEW k \in DOMAIN dict
  PROVE  /\ Len(dict) \in Nat /\ DOMAIN dict = 1 .. Len(dict)
         /\ DOMAIN Delete(dict, k) = 1 .. Len(dict) - 1
         /\ \A j \in 1 .. Len(dict) - 1 :
              Delete(dict, k)[j] = IF j < k THEN dict[j] ELSE dict[j + 1]
<1> DEFINE n == Len(dict)
           s == SubSeq(dict, 1, k - 1)
           t == SubSeq(dict, k + 1, n)
<1>1. n \in Nat /\ DOMAIN dict = 1 .. n /\ k \in 1 .. n
  OBVIOUS
<1>2. /\ s \in Seq(Block) /\ Len(s) = k - 1
      /\ \A j \in 1 .. k - 1 : s[j] = dict[j]
  BY <1>1, SubSeqProperties
<1>3. /\ t \in Seq(Block) /\ Len(t) = n - k
      /\ \A j \in 1 .. n - k : t[j] = dict[k + j]
  BY <1>1, SubSeqProperties, SMTT(60)
<1> HIDE DEF n, s, t
<1>4. /\ Len(s \o t) = Len(s) + Len(t) /\ s \o t \in Seq(Block)
      /\ \A j \in 1 .. Len(s) + Len(t) : (s \o t)[j] = IF j <= Len(s) THEN s[j] ELSE t[j - Len(s)]
  BY <1>2, <1>3, ConcatProperties
<1>5. Delete(dict, k) = s \o t
  BY DEF Delete, n, s, t
<1>6. Len(s) + Len(t) = n - 1
  BY <1>1, <1>2, <1>3
<1>7. DOMAIN (s \o t) = 1 .. n - 1
  <2>1. DOMAIN (s \o t) = 1 .. Len(s \o t)
    BY <1>4
  <2> QED BY <1>4, <1>6, <2>1
<1>8. ASSUME NEW j \in 1 .. n - 1
      PROVE  (s \o t)[j] = IF j < k THEN dict[j] ELSE dict[j + 1]
  <2>1. (s \o t)[j] = IF j <= Len(s) THEN s[j] ELSE t[j - Len(s)]
    BY <1>4, <1>6
  <2>2. CASE j < k
    <3>1. j <= Len(s) /\ j \in 1 .. k - 1
      BY <1>1, <1>2, <2>2
    <3> QED BY <1>2, <2>1, <2>2, <3>1
  <2>3. CASE ~(j < k)
    <3>1. Len(s) = k - 1
      BY <1>2
    <3>2. ~(j <= Len(s)) /\ j - Len(s) \in 1 .. n - k /\ k + (j - Len(s)) = j + 1
      BY <1>1, <2>3, <3>1
    <3>3. t[j - Len(s)] = dict[j + 1]
      BY <1>3, <3>2
    <3> QED BY <2>1, <2>3, <3>2, <3>3
  <2> QED BY <2>2, <2>3
<1> QED BY <1>1, <1>5, <1>7, <1>8 DEF n

\* Deleting an entry takes nothing but that entry away.
LEMMA DeleteKeeps ==
  ASSUME NEW dict \in Seq(Block), NEW k \in DOMAIN dict, NEW i \in DOMAIN dict, i # k
  PROVE  \E j \in DOMAIN Delete(dict, k) : Delete(dict, k)[j] = dict[i]
<1>1. Len(dict) \in Nat /\ k \in 1 .. Len(dict) /\ i \in 1 .. Len(dict)
  BY DeleteElements
<1>2. CASE i < k
  <2>1. i \in 1 .. Len(dict) - 1
    BY <1>1, <1>2
  <2> QED BY <1>2, <2>1, DeleteElements
<1>3. CASE ~(i < k)
  <2>1. i - 1 \in 1 .. Len(dict) - 1 /\ ~(i - 1 < k) /\ i - 1 + 1 = i
    BY <1>1, <1>3
  <2>2. Delete(dict, k)[i - 1] = dict[i]
    BY <2>1, DeleteElements
  <2> QED BY <2>1, <2>2, DeleteElements
<1> QED BY <1>2, <1>3

\* What is in a dictionary after a deletion was there before.
LEMMA DeleteTakes ==
  ASSUME NEW dict \in Seq(Block), NEW k \in DOMAIN dict, NEW j \in DOMAIN Delete(dict, k)
  PROVE  \E i \in DOMAIN dict : Delete(dict, k)[j] = dict[i]
<1>1. Len(dict) \in Nat /\ j \in 1 .. Len(dict) - 1
  BY DeleteElements
<1>2. j \in 1 .. Len(dict) /\ j + 1 \in 1 .. Len(dict)
  BY <1>1
<1>3. Delete(dict, k)[j] = dict[j] \/ Delete(dict, k)[j] = dict[j + 1]
  BY <1>1, DeleteElements
<1> QED BY <1>2, <1>3, DeleteElements

\* A block that was received is on the chain or kept as an orphan.
LEMMA KeptStep ==
  ASSUME OneChain, DeliveryInv, [DeliveryNext]_deliveryVars
  PROVE  Kept' /\ received' \subseteq Block
<1>1. TypeInv /\ OnChain \subseteq OnChain' /\ received \subseteq Block
  BY OnChainGrows, DeliveryRefines DEF DeliveryInv, ChainInv
<1>2. ASSUME NEW b \in Block, Deliver(b)
      PROVE  Kept' /\ received' \subseteq Block
  <2>1. /\ received' = received \cup {b}
        /\ dropped' = IF ~MissesParent(b) /\ ~Accepts(b) THEN dropped \cup {b} ELSE dropped \ {b}
    BY <1>2 DEF Deliver
  <2>2. CASE StoreOrphan(b)
    <3>1. orphans \in Seq(Block) /\ orphans' = Store(orphans, b)
      BY <1>1, <2>2 DEF StoreOrphan, TypeInv, TypeOK
    <3>2. Waiting' = Waiting \cup {b}
      <4>1. Waiting' = {Store(orphans, b)[i] : i \in DOMAIN Store(orphans, b)}
        BY <3>1 DEF Waiting
      <4> QED BY <3>1, <4>1, StoreKeeps DEF Waiting
    <3> QED BY <1>1, <2>1, <2>2, <3>2 DEF StoreOrphan, DeliveryInv, Kept
  <2>3. CASE RejectInvalid(b) \/ RejectDoubleSpend(b)
    <3>1. ~MissesParent(b) /\ ~Accepts(b) /\ orphans' = orphans
      BY <2>3 DEF RejectInvalid, RejectDoubleSpend, DoubleSpend, Accepts
    <3> QED BY <1>1, <2>1, <3>1 DEF DeliveryInv, Kept, Waiting
  <2>4. CASE AcceptBlock(b)
    <3>1. orphans' = orphans /\ b \in OnChain'
      BY <1>1, <2>4, OnChainAppend DEF AcceptBlock, AppendBlock
    <3> QED BY <1>1, <2>1, <3>1 DEF DeliveryInv, Kept, Waiting
  <2> QED BY <1>2, <2>2, <2>3, <2>4 DEF Deliver, AddBlock
<1>3. CASE ReturnToPass /\ UNCHANGED <<received, dropped>>
  <2>1. orphans \in Seq(Block) /\ frames \in Seq(Seq(Block)) /\ Len(frames) > 1
    BY <1>1, <1>3 DEF ReturnToPass, TypeInv, TypeOK
  <2>2. PICK k \in DOMAIN orphans : /\ orphans[k].hash = Head(frames[Len(frames) - 1]).hash
                                    /\ orphans' = Delete(orphans, k)
    BY <1>3 DEF ReturnToPass
  <2>3. Len(frames) - 1 \in 1 .. Len(frames) - 1
    BY <2>1
  <2>4. Head(frames[Len(frames) - 1]) \in OnChain
    BY <2>3 DEF DeliveryInv, HeadsAdopted
  <2>5. Head(frames[Len(frames) - 1]) \in Block /\ orphans[k] \in Block
    BY <2>1, <2>4, Heights DEF DeliveryInv
  <2>6. orphans[k] \in OnChain
    BY <2>2, <2>4, <2>5, BlocksAssumption DEF OneChain
  <2>7. Waiting \subseteq Waiting' \cup OnChain
    <3> SUFFICES ASSUME NEW i \in DOMAIN orphans, i # k
                 PROVE  orphans[i] \in Waiting'
      BY <2>6 DEF Waiting
    <3> QED BY <2>1, <2>2, DeleteKeeps DEF Waiting
  <2> QED BY <1>1, <1>3, <2>7 DEF DeliveryInv, Kept
<1>4. CASE UNCHANGED <<orphans, received, dropped>>
  BY <1>1, <1>4 DEF DeliveryInv, Kept, Waiting
<1>5. \/ \E b \in Block : Deliver(b)
      \/ ReturnToPass /\ UNCHANGED <<received, dropped>>
      \/ UNCHANGED <<orphans, received, dropped>>
  BY DEF DeliveryNext, deliveryVars, vars, ProcessOrphans, SkipOrphan, RejectOrphan, AdoptOrphan,
         AppendBlock, ReturnToCaller, HashingFails, StackRunsOut, Unwind, MempoolStep, AddToMempool, ClearMempool
<1> QED BY <1>2, <1>3, <1>4, <1>5

\* DeliveryInv is inductive where there is one chain.
LEMMA DeliveryStep == OneChain /\ DeliveryInv /\ [DeliveryNext]_deliveryVars => DeliveryInv'
BY DeliveryRefines, ChainInvStep, ReadyStep, SpentStep, HeadsStep, KeptStep DEF DeliveryInv, ChainInv

\* The initial states satisfy DeliveryInv.
LEMMA DeliveryInit0 == DeliveryInit => DeliveryInv
<1> SUFFICES ASSUME DeliveryInit PROVE DeliveryInv
  OBVIOUS
<1>1. ChainInv
  BY ChainInvInit DEF DeliveryInit
<1> QED BY <1>1 DEF DeliveryInit, Init, DeliveryInv, ReadyInv, SpentByChain, Kept, HeadsAdopted

\* The blocks of one chain may come in any order and more than once: whenever
\* add_block has returned, every block that was handed over with all below it,
\* none of them forgotten, is on the chain.
THEOREM OrderDoesNotMatter ==
  ASSUME OneChain
  PROVE  DeliverySpec => []CaughtUp
<1>1. DeliveryInv => CaughtUp
  BY NobodyLeftBehind
<1>2. DeliveryInv /\ [DeliveryNext]_deliveryVars => DeliveryInv'
  BY DeliveryStep
<1> QED BY <1>1, <1>2, DeliveryInit0, PTL DEF DeliverySpec

-----------------------------------------------------------------------------
(***************************************************************************)
(* The recursion of _process_orphans, whatever the blocks.  Each call in   *)
(* progress but the innermost waits for the add_block of one block, its    *)
(* head; these heads are on the chain, still among the orphans, and no two *)
(* of them have the same hash, since each was the block above all that was *)
(* on the chain before it.  What the innermost pass has still to look at   *)
(* is among the orphans too: nothing is stored while the recursion runs,   *)
(* and a deletion begins a new pass.                                       *)
(***************************************************************************)

PassWaits == ~Idle => \A i \in DOMAIN Pass : Pass[i] \in Waiting

HeadsWait == \A j \in 1 .. Len(frames) - 1 : Head(frames[j]) \in Waiting

HeadsDiffer ==
  \A i, j \in 1 .. Len(frames) - 1 :
    i # j => Head(frames[i]).hash # Head(frames[j]).hash

KeysInv == ChainInv /\ HeadsAdopted /\ PassWaits /\ HeadsWait /\ HeadsDiffer

\* The blocks of the chain are below the next block.
LEMMA BelowNext ==
  ASSUME ChainInv, NEW b \in OnChain
  PROVE  b \in Block /\ b.height < Len(chain) /\ Tip.height = Len(chain) - 1
<1>1. chain \in Seq(Block) /\ Len(chain) \in Nat \ {0} /\ DOMAIN chain = 1 .. Len(chain)
  BY DEF ChainInv, TypeInv, TypeOK
<1>2. \A i \in DOMAIN chain : chain[i].height = i - 1
  BY <1>1, BlocksAssumption DEF ChainInv, ChainLinked
<1> QED BY <1>1, <1>2 DEF OnChain, Tip

\* A block that joins the chain was not on it, nor was one of its hash.
LEMMA NextIsNew ==
  ASSUME ChainInv, NEW b \in Block, Validate(b, Tip), NEW c \in OnChain
  PROVE  b.hash # c.hash
<1>1. c \in Block /\ c.height < Len(chain) /\ b.height = Len(chain)
  <2>1. b.height = Tip.height + 1 /\ Len(chain) \in Nat
    BY DEF Validate, Linked, ChainInv, TypeInv, TypeOK
  <2> QED BY <2>1, BelowNext
<1>2. b.height # c.height
  BY <1>1, BlockTyping
<1> QED BY <1>1, <1>2, BlocksAssumption

\* The innermost pass goes on with the rest of its snapshot.
LEMMA ContinuePassFrames ==
  ASSUME TypeInv, NEW b \in Block, Candidate(b), ContinuePass
  PROVE  /\ ~Idle' /\ Len(frames') = Len(frames)
         /\ Pass' = Tail(Pass) /\ Len(Pass') = Len(Pass) - 1
         /\ \A i \in DOMAIN Pass' : i + 1 \in DOMAIN Pass /\ Pass'[i] = Pass[i + 1]
         /\ \A j \in 1 .. Len(frames) - 1 : frames'[j] = frames[j]
<1>1. /\ frames \in Seq(Seq(Block)) /\ Len(frames) \in 1 .. Len(frames)
      /\ Pass \in Seq(Block) /\ Pass # <<>>
  BY DEF Candidate, Idle, Pass, TypeInv, TypeOK
<1>2. /\ Len(frames') = Len(frames) /\ frames'[Len(frames)] = Tail(Pass)
      /\ \A j \in 1 .. Len(frames) - 1 : frames'[j] = frames[j]
  BY <1>1 DEF ContinuePass, Pass
<1>3. ~Idle' /\ Pass' = Tail(Pass)
  <2>1. frames' # <<>>
    BY <1>1, <1>2
  <2> QED BY <1>2, <2>1 DEF Idle, Pass
<1>4. /\ Len(Tail(Pass)) = Len(Pass) - 1
      /\ \A i \in DOMAIN Tail(Pass) : i + 1 \in DOMAIN Pass /\ Tail(Pass)[i] = Pass[i + 1]
  BY <1>1
<1> QED BY <1>2, <1>3, <1>4

\* An adopted block was an orphan new to the chain; it stays the head of the
\* call that adopted it, and a pass over all the orphans begins above.
LEMMA AdoptOrphanFrames ==
  ASSUME KeysInv, NEW b \in Block, AdoptOrphan(b)
  PROVE  /\ b \in Waiting \ OnChain /\ OnChain' = OnChain \cup {b}
         /\ Len(frames) \in Nat \ {0} /\ Len(frames') = Len(frames) + 1
         /\ \A j \in 1 .. Len(frames) : frames'[j] = frames[j]
         /\ Head(frames[Len(frames)]) = b
         /\ ~Idle' /\ Pass' = orphans /\ orphans' = orphans
<1>1. /\ TypeInv /\ frames \in Seq(Seq(Block)) /\ orphans \in Seq(Block)
      /\ frames' = Append(frames, orphans) /\ orphans' = orphans
  BY DEF AdoptOrphan, AppendBlock, KeysInv, ChainInv, TypeInv, TypeOK
<1>2. Len(frames) \in Nat \ {0}
  BY <1>1 DEF AdoptOrphan, Candidate, Idle
<1>3. Pass \in Seq(Block) /\ Pass # <<>> /\ b = Head(Pass) /\ ~Idle
  BY <1>1, <1>2 DEF AdoptOrphan, Candidate, Pass
<1>4. b \in Waiting
  <2>1. 1 \in DOMAIN Pass /\ b = Pass[1]
    BY <1>3
  <2> QED BY <1>3, <2>1 DEF KeysInv, PassWaits
<1>5. b \notin OnChain
  BY NextIsNew DEF AdoptOrphan, AppendBlock, Extend, Accepts, KeysInv
<1>6. OnChain' = OnChain \cup {b}
  BY <1>1, OnChainAppend DEF AdoptOrphan, AppendBlock
<1>7. /\ Len(frames') = Len(frames) + 1
      /\ \A j \in 1 .. Len(frames) : frames'[j] = frames[j]
  BY <1>1, <1>2
<1>8. ~Idle' /\ Pass' = orphans
  BY <1>1, LastOfAppend DEF Idle, Pass
<1> QED BY <1>1, <1>2, <1>3, <1>4, <1>5, <1>6, <1>7, <1>8 DEF Pass

\* A nested call that returns finds the key to delete.  The entry deleted is
\* not that of another head.
LEMMA HeadsSurvive ==
  ASSUME KeysInv, ReturnToPass
  PROVE  /\ Len(orphans') = Len(orphans) - 1 /\ Waiting' \subseteq Waiting
         /\ \A j \in 1 .. Len(frames) - 2 : Head(frames[j]) \in Waiting'
<1>1. /\ TypeInv /\ orphans \in Seq(Block) /\ Len(frames) \in Nat /\ Len(frames) > 1
  BY SMTT(60) DEF ReturnToPass, KeysInv, ChainInv, TypeInv, TypeOK
<1>2. PICK k \in DOMAIN orphans : /\ orphans[k].hash = Head(frames[Len(frames) - 1]).hash
                                  /\ orphans' = Delete(orphans, k)
  BY DEF ReturnToPass
<1>3. Len(orphans') = Len(orphans) - 1
  BY <1>1, <1>2, DeleteTyping
<1>4. Waiting' \subseteq Waiting
  BY <1>1, <1>2, DeleteTakes DEF Waiting
<1>5. ASSUME NEW j \in 1 .. Len(frames) - 2
      PROVE  Head(frames[j]) \in Waiting'
  <2>1. /\ j \in 1 .. Len(frames) - 1 /\ Len(frames) - 1 \in 1 .. Len(frames) - 1
        /\ j # Len(frames) - 1
    BY <1>1
  <2>2. Head(frames[j]) \in Waiting /\ Head(frames[j]).hash # orphans[k].hash
    BY <1>2, <2>1 DEF KeysInv, HeadsWait, HeadsDiffer
  <2>3. PICK i \in DOMAIN orphans : orphans[i] = Head(frames[j])
    BY <2>2 DEF Waiting
  <2>4. i # k
    BY <2>2, <2>3
  <2> QED BY <1>1, <1>2, <2>3, <2>4, DeleteKeeps DEF Waiting
<1> QED BY <1>3, <1>4, <1>5

\* KeysInv is inductive.
LEMMA KeysStep == KeysInv /\ [Next]_vars => KeysInv'
<1> SUFFICES ASSUME KeysInv, [Next]_vars PROVE PassWaits' /\ HeadsWait' /\ HeadsDiffer'
  BY ChainInvStep, HeadsStep DEF KeysInv, ChainInv
<1>1. /\ TypeInv /\ frames \in Seq(Seq(Block)) /\ orphans \in Seq(Block)
      /\ Len(frames) \in Nat
  BY DEF KeysInv, ChainInv, TypeInv, TypeOK
<1>2. CASE UNCHANGED <<orphans, frames>>
  BY <1>2 DEF KeysInv, PassWaits, HeadsWait, HeadsDiffer, Idle, Pass, Waiting
<1>3. CASE Idle /\ frames' = frames
  <2>1. Len(frames') = 0 /\ Idle'
    BY <1>3 DEF Idle
  <2> QED BY <2>1 DEF PassWaits, HeadsWait, HeadsDiffer
<1>4. ASSUME Idle, NEW b \in Block, AppendBlock(b)
      PROVE  PassWaits' /\ HeadsWait' /\ HeadsDiffer'
  <2>1. frames' = Append(frames, orphans) /\ orphans' = orphans
    BY <1>4 DEF AppendBlock
  <2>2. Len(frames') = 1 /\ Pass' = orphans
    BY <1>1, <1>4, <2>1, LastOfAppend DEF Idle, Pass
  <2> QED BY <2>1, <2>2 DEF PassWaits, HeadsWait, HeadsDiffer, Waiting
<1>5. ASSUME NEW b \in Block, AdoptOrphan(b)
      PROVE  PassWaits' /\ HeadsWait' /\ HeadsDiffer'
  <2>1. /\ b \in Waiting /\ Waiting' = Waiting /\ Pass' = orphans /\ orphans' = orphans
        /\ Len(frames') - 1 = Len(frames) /\ Len(frames) \in Nat \ {0}
        /\ \A j \in 1 .. Len(frames) : frames'[j] = frames[j]
        /\ Head(frames[Len(frames)]) = b
    BY <1>5, AdoptOrphanFrames DEF Waiting
  <2>2. PassWaits'
    BY <2>1 DEF PassWaits, Waiting
  <2>3. HeadsWait'
    <3>1. \A j \in 1 .. Len(frames) : j = Len(frames) \/ j \in 1 .. Len(frames) - 1
      BY <2>1
    <3> QED BY <2>1, <3>1 DEF KeysInv, HeadsWait
  <2>4. \A j \in 1 .. Len(frames) - 1 : Head(frames[j]).hash # b.hash
    BY <1>5, NextIsNew DEF AdoptOrphan, AppendBlock, Extend, Accepts, KeysInv, HeadsAdopted
  <2>5. HeadsDiffer'
    <3> SUFFICES ASSUME NEW i \in 1 .. Len(frames), NEW j \in 1 .. Len(frames), i # j
                 PROVE  Head(frames[i]).hash # Head(frames[j]).hash
      BY <2>1 DEF HeadsDiffer
    <3>1. i \in 1 .. Len(frames) - 1 \/ i = Len(frames)
      BY <2>1
    <3>2. j \in 1 .. Len(frames) - 1 \/ j = Len(frames)
      BY <2>1
    <3> QED BY <2>1, <2>4, <3>1, <3>2 DEF KeysInv, HeadsDiffer
  <2> QED BY <2>2, <2>3, <2>5
<1>6. ASSUME NEW b \in Block, Candidate(b), ContinuePass, orphans' = orphans
      PROVE  PassWaits' /\ HeadsWait' /\ HeadsDiffer'
  <2>1. /\ Len(frames') = Len(frames)
        /\ \A i \in DOMAIN Pass' : i + 1 \in DOMAIN Pass /\ Pass'[i] = Pass[i + 1]
        /\ \A j \in 1 .. Len(frames) - 1 : frames'[j] = frames[j]
    BY <1>1, <1>6, ContinuePassFrames
  <2>2. ~Idle /\ Waiting' = Waiting
    BY <1>6 DEF Candidate, Waiting
  <2> QED BY <2>1, <2>2 DEF KeysInv, PassWaits, HeadsWait, HeadsDiffer
<1>7. CASE ReturnToCaller \/ Unwind
  <2>1. frames' = <<>> /\ Len(frames') = 0
    BY <1>7 DEF ReturnToCaller, Unwind
  <2> QED BY <2>1 DEF PassWaits, HeadsWait, HeadsDiffer, Idle
<1>8. CASE ReturnToPass
  <2>1. /\ Len(frames') = Len(frames) - 1 /\ frames'[Len(frames) - 1] = orphans'
        /\ \A j \in 1 .. Len(frames) - 2 : frames'[j] = frames[j]
    BY <1>1, <1>8, ReturnToPassFrames
  <2>2. PassWaits'
    BY <2>1 DEF PassWaits, Pass, Waiting
  <2>3. /\ Len(frames') - 1 = Len(frames) - 2
        /\ \A j \in 1 .. Len(frames) - 2 : j \in 1 .. Len(frames) - 1
    BY <1>1, <2>1
  <2>4. HeadsWait'
    BY <1>8, <2>1, <2>3, HeadsSurvive DEF HeadsWait
  <2>5. HeadsDiffer'
    BY <2>1, <2>3 DEF KeysInv, HeadsDiffer
  <2> QED BY <2>2, <2>4, <2>5
<1>9. CASE \E b \in Block : AddBlock(b)
  BY <1>3, <1>4, <1>9 DEF AddBlock, StoreOrphan, RejectInvalid, RejectDoubleSpend, AcceptBlock
<1>10. CASE ProcessOrphans
  BY <1>5, <1>6, <1>7, <1>8, <1>10 DEF ProcessOrphans, SkipOrphan, RejectOrphan,
                                          HashingFails, StackRunsOut
<1>11. CASE MempoolStep \/ UNCHANGED vars
  BY <1>2, <1>11 DEF MempoolStep, AddToMempool, ClearMempool, vars
<1> QED BY <1>9, <1>10, <1>11 DEF Next

\* KeysInv holds in every reachable state.
LEMMA KeysInvariant == Spec => []KeysInv
<1>1. Init => KeysInv
  <2> SUFFICES ASSUME Init PROVE KeysInv
    OBVIOUS
  <2>1. Idle /\ Len(frames) = 0
    BY DEF Init, Idle
  <2> QED BY <2>1, ChainInvInit DEF KeysInv, HeadsAdopted, PassWaits, HeadsWait, HeadsDiffer
<1> QED BY <1>1, KeysStep, PTL DEF Spec

\* When a nested pass has come to its end, the key that the call below it
\* deletes is there.
KeyHeld ==
  ~Idle /\ Pass = <<>> /\ Len(frames) > 1
    => \E k \in DOMAIN orphans : orphans[k].hash = Head(frames[Len(frames) - 1]).hash

\* The del of _process_orphans never misses its key, however deep the
\* recursion went in between and whatever it added and deleted.
THEOREM DeleteFindsItsKey == Spec => []KeyHeld
<1>1. KeysInv => KeyHeld
  <2> SUFFICES ASSUME KeysInv, Len(frames) > 1
               PROVE  \E k \in DOMAIN orphans :
                        orphans[k].hash = Head(frames[Len(frames) - 1]).hash
    BY DEF KeyHeld
  <2>1. Len(frames) - 1 \in 1 .. Len(frames) - 1
    BY DEF KeysInv, ChainInv, TypeInv, TypeOK
  <2>2. Head(frames[Len(frames) - 1]) \in Waiting
    BY <2>1 DEF KeysInv, HeadsWait
  <2> QED BY <2>2 DEF Waiting
<1> QED BY <1>1, KeysInvariant, PTL

\* The numbers from 1 to n are n numbers.
LEMMA UpTo ==
  ASSUME NEW n \in Nat
  PROVE  IsFiniteSet(1 .. n) /\ Cardinality(1 .. n) = n
<1>1. /\ IsFiniteSet(1 .. n)
      /\ Cardinality(1 .. n) = IF 1 <= n THEN n - 1 + 1 ELSE 0
  BY FS_Interval
<1>2. n - 1 + 1 = n /\ (~(1 <= n) => n = 0)
  OBVIOUS
<1> QED BY <1>1, <1>2

\* Calls of _process_orphans in progress, against the blocks that wait.
DepthBounded == Len(frames) <= Len(orphans) + 1

\* add_block and _process_orphans never recurse deeper than there are orphans:
\* each call in progress but the innermost waits for an orphan of its own.
THEOREM DepthIsBounded == Spec => []DepthBounded
<1>1. KeysInv => DepthBounded
  <2> SUFFICES ASSUME KeysInv PROVE Len(frames) <= Len(orphans) + 1
    BY DEF DepthBounded
  <2>1. Len(frames) \in Nat /\ Len(orphans) \in Nat /\ DOMAIN orphans = 1 .. Len(orphans)
    BY DEF KeysInv, ChainInv, TypeInv, TypeOK
  <2> DEFINE S == 1 .. Len(frames) - 1
             T == DOMAIN orphans
             place == [j \in S |-> CHOOSE k \in T : orphans[k] = Head(frames[j])]
  <2>2. \A j \in S : place[j] \in T /\ orphans[place[j]] = Head(frames[j])
    BY DEF KeysInv, HeadsWait, Waiting
  <2>3. \A i, j \in S : i # j => Head(frames[i]) # Head(frames[j])
    BY DEF KeysInv, HeadsDiffer
  <2>4. place \in [S -> T]
    BY <2>2
  <2>5. IsFiniteSet(T) /\ Cardinality(T) = Len(orphans)
    BY <2>1, UpTo
  <2>6. Cardinality(S) = Len(frames) - 1 \/ Len(frames) = 0
    BY <2>1, UpTo
  <2> HIDE DEF place, S, T
  <2>7. place \in Injection(S, T)
    BY <2>2, <2>3, <2>4 DEF Injection, IsInjective
  <2>8. Cardinality(S) <= Cardinality(T)
    BY <2>5, <2>7, FS_Injection
  <2> QED BY <2>1, <2>5, <2>6, <2>8
<1> QED BY <1>1, KeysInvariant, PTL

\* What the recursion has left to do, in the order of its weight: orphans that
\* may still join the chain, orphans that may still be deleted, calls that have
\* to return, blocks that the innermost pass has to look at.
Adoptable == Waiting \ OnChain

LeftToDo ==
  <<Cardinality(Adoptable), Len(orphans), Len(frames), IF Idle THEN 0 ELSE Len(Pass)>>

\* The first of these to change becomes less.
LessLeft == \E n \in 1 .. 4 : /\ LeftToDo'[n] < LeftToDo[n]
                             /\ \A m \in 1 .. n - 1 : LeftToDo'[m] = LeftToDo[m]

\* Every turn of _process_orphans leaves less to do.
TurnsRunOut == [][~Idle => LessLeft]_vars

\* All that is left to do is counted by natural numbers.
LEMMA LeftTyping ==
  ASSUME TypeInv
  PROVE  IsFiniteSet(Adoptable) /\ LeftToDo \in Nat \X Nat \X Nat \X Nat
<1>1. /\ orphans \in Seq(Block) /\ Len(orphans) \in Nat /\ DOMAIN orphans = 1 .. Len(orphans)
      /\ frames \in Seq(Seq(Block)) /\ Len(frames) \in Nat
  BY DEF TypeInv, TypeOK
<1>2. orphans \in Surjection(DOMAIN orphans, Waiting)
  BY <1>1 DEF Surjection, Waiting
<1>3. IsFiniteSet(DOMAIN orphans)
  BY <1>1, UpTo
<1>4. IsFiniteSet(Adoptable)
  BY <1>2, <1>3, FS_Surjection, FS_Subset DEF Adoptable
<1>5. Cardinality(Adoptable) \in Nat
  BY <1>4, FS_CardinalityType
<1>6. (IF Idle THEN 0 ELSE Len(Pass)) \in Nat
  <2>1. ~Idle => Pass \in Seq(Block)
    BY <1>1 DEF Idle, Pass
  <2> QED BY <2>1
<1> QED BY <1>1, <1>4, <1>5, <1>6 DEF LeftToDo

\* A turn that does not adopt does not make more blocks adoptable; if it makes
\* them less, that counts first, and otherwise what comes after.
LEMMA LessOrEqual ==
  ASSUME TypeInv, TypeInv', Adoptable' \subseteq Adoptable,
         \/ Len(orphans') < Len(orphans)
         \/ Len(orphans') = Len(orphans) /\ Len(frames') < Len(frames)
         \/ /\ Len(orphans') = Len(orphans) /\ Len(frames') = Len(frames)
            /\ ~Idle /\ ~Idle' /\ Len(Pass') < Len(Pass)
  PROVE  LessLeft
<1>1. IsFiniteSet(Adoptable)
  BY LeftTyping
<1>2. /\ Cardinality(Adoptable) \in Nat /\ Cardinality(Adoptable') \in Nat
      /\ Cardinality(Adoptable') <= Cardinality(Adoptable)
  BY <1>1, FS_Subset, FS_CardinalityType
<1>3. /\ LeftToDo[1] = Cardinality(Adoptable) /\ LeftToDo'[1] = Cardinality(Adoptable')
      /\ LeftToDo[2] = Len(orphans) /\ LeftToDo'[2] = Len(orphans')
      /\ LeftToDo[3] = Len(frames) /\ LeftToDo'[3] = Len(frames')
      /\ LeftToDo[4] = (IF Idle THEN 0 ELSE Len(Pass))
      /\ LeftToDo'[4] = (IF Idle' THEN 0 ELSE Len(Pass'))
  BY DEF LeftToDo
<1> HIDE DEF LeftToDo
<1>4. CASE LeftToDo'[1] < LeftToDo[1]
  BY <1>4 DEF LessLeft
<1>5. CASE LeftToDo'[1] = LeftToDo[1]
  <2>1. /\ 1 .. 2 - 1 = {1} /\ 1 .. 3 - 1 = {1, 2} /\ 1 .. 4 - 1 = {1, 2, 3}
        /\ 1 .. 4 = {1, 2, 3, 4}
    OBVIOUS
  <2>2. CASE LeftToDo'[2] < LeftToDo[2]
    BY <1>5, <2>1, <2>2 DEF LessLeft
  <2>3. CASE LeftToDo'[2] = LeftToDo[2] /\ LeftToDo'[3] < LeftToDo[3]
    BY <1>5, <2>1, <2>3 DEF LessLeft
  <2>4. CASE LeftToDo'[2] = LeftToDo[2] /\ LeftToDo'[3] = LeftToDo[3] /\ LeftToDo'[4] < LeftToDo[4]
    BY <1>5, <2>1, <2>4 DEF LessLeft
  <2> QED BY <1>3, <2>2, <2>3, <2>4
<1> QED BY <1>2, <1>3, <1>4, <1>5

\* A turn of _process_orphans leaves less to do: a block adopted is no longer
\* adoptable, a call that returns deletes an orphan or ends the recursion, and
\* a block looked at leaves the pass shorter.
LEMMA TurnCounts ==
  ASSUME KeysInv, KeysInv', ProcessOrphans
  PROVE  LessLeft
<1>1. TypeInv /\ TypeInv' /\ frames \in Seq(Seq(Block)) /\ Len(frames) \in Nat
  BY DEF KeysInv, ChainInv, TypeInv, TypeOK
<1>2. ASSUME NEW b \in Block, Candidate(b), ContinuePass, orphans' = orphans, chain' = chain
      PROVE  LessLeft
  <2>1. ~Idle /\ ~Idle' /\ Len(frames') = Len(frames) /\ Len(Pass') = Len(Pass) - 1
    BY <1>1, <1>2, ContinuePassFrames DEF Candidate
  <2>2. Adoptable' = Adoptable
    BY <1>2 DEF Adoptable, Waiting, OnChain
  <2>3. Len(Pass) \in Nat
    BY <1>1, <2>1 DEF Idle, Pass
  <2>4. Len(Pass') < Len(Pass)
    BY <2>1, <2>3
  <2> QED BY <1>1, <1>2, <2>1, <2>2, <2>4, LessOrEqual
<1>3. ASSUME NEW b \in Block, AdoptOrphan(b)
      PROVE  LessLeft
  <2>1. b \in Adoptable /\ Adoptable' = Adoptable \ {b}
    BY <1>3, AdoptOrphanFrames DEF Adoptable, Waiting
  <2>2. IsFiniteSet(Adoptable) /\ Cardinality(Adoptable) \in Nat
    BY <1>1, LeftTyping, FS_CardinalityType
  <2>3. Cardinality(Adoptable') = Cardinality(Adoptable) - 1
    BY <2>1, <2>2, FS_RemoveElement
  <2>4. LeftToDo'[1] < LeftToDo[1]
    BY <2>2, <2>3 DEF LeftToDo
  <2> QED BY <2>4 DEF LessLeft
<1>4. CASE ReturnToCaller
  <2>1. Len(frames) = 1 /\ Len(frames') = 0 /\ orphans' = orphans /\ chain' = chain
    BY <1>4 DEF ReturnToCaller, chainVars
  <2>2. Adoptable' = Adoptable
    BY <2>1 DEF Adoptable, Waiting, OnChain
  <2> QED BY <1>1, <2>1, <2>2, LessOrEqual
<1>5. CASE ReturnToPass
  <2>1. Len(orphans') = Len(orphans) - 1 /\ Waiting' \subseteq Waiting /\ chain' = chain
    BY <1>5, HeadsSurvive DEF ReturnToPass, chainVars
  <2>2. Adoptable' \subseteq Adoptable
    BY <2>1 DEF Adoptable, OnChain
  <2>3. Len(orphans') < Len(orphans)
    BY <1>1, <2>1 DEF TypeInv, TypeOK
  <2> QED BY <1>1, <2>2, <2>3, LessOrEqual
<1>6. CASE ~Idle /\ Unwind
  <2>1. Len(frames) > 0 /\ Len(frames') = 0 /\ orphans' = orphans
    BY <1>1, <1>6 DEF Unwind, Idle
  <2>2. OnChain \subseteq OnChain'
    BY <1>1, OnChainGrows DEF Next
  <2>3. Adoptable' \subseteq Adoptable
    BY <2>1, <2>2 DEF Adoptable, Waiting
  <2> QED BY <1>1, <2>1, <2>3, LessOrEqual
<1>7. StackRunsOut => ~Idle
  BY RecursionAssumption DEF StackRunsOut, Idle
<1> QED BY <1>2, <1>3, <1>4, <1>5, <1>6, <1>7
        DEF ProcessOrphans, SkipOrphan, RejectOrphan, HashingFails, StackRunsOut,
            Candidate, DoubleSpend, chainVars

\* The recursion between add_block and _process_orphans cannot go on for ever:
\* each of its turns leaves less to do, in an order of natural numbers that has
\* no endless descent, be it blocks adopted, keys deleted or snapshots begun
\* anew, or an exception that ends all of it.
THEOREM RecursionRunsOut == Spec => [](LeftToDo \in Nat \X Nat \X Nat \X Nat) /\ TurnsRunOut
<1>1. KeysInv => LeftToDo \in Nat \X Nat \X Nat \X Nat
  BY LeftTyping DEF KeysInv, ChainInv
<1>2. KeysInv /\ KeysInv' /\ [Next]_vars => [~Idle => LessLeft]_vars
  <2> SUFFICES ASSUME KeysInv, KeysInv', Next, ~Idle
               PROVE  LessLeft
    OBVIOUS
  <2>1. ProcessOrphans
    BY DEF Next, AddBlock, MempoolStep, AddToMempool, ClearMempool
  <2> QED BY <2>1, TurnCounts
<1> QED BY <1>1, <1>2, KeysInvariant, PTL DEF Spec, TurnsRunOut

\* No step of a recursion over few enough orphans, all of which can be hashed,
\* raises.
ShallowReturns == [][~Idle /\ Shallow => ~Unwind]_vars

\* What raises in the recursion is an orphan that cannot be hashed or the want
\* of stack, and the second takes as many orphans as the stack has room for
\* calls, less one: with fewer of them add_block returns.
THEOREM RaisesOnlyWhenDeep == Spec => ShallowReturns
<1>1. ASSUME KeysInv, DepthBounded, [Next]_vars, ~Idle, Shallow
      PROVE  ~Unwind \/ UNCHANGED vars
  <2>1. Len(frames) \in Nat /\ Len(orphans) \in Nat /\ frames \in Seq(Seq(Block))
    BY <1>1 DEF KeysInv, ChainInv, TypeInv, TypeOK
  <2>2. ~StackRunsOut
    BY <1>1, <2>1, RecursionAssumption DEF DepthBounded, Shallow, StackRunsOut
  <2>3. ASSUME NEW b \in Block, HashingFails(b)
        PROVE  FALSE
    <3>1. Pass \in Seq(Block) /\ Pass # <<>> /\ b = Pass[1]
      BY <1>1, <2>1, <2>3 DEF HashingFails, Candidate, Pass, Idle
    <3>2. b \in Waiting
      BY <1>1, <3>1 DEF KeysInv, PassWaits
    <3> QED BY <1>1, <2>3, <3>2 DEF Waiting, Shallow, HashingFails, Raises
  <2>4. ASSUME NEW b \in Block, SkipOrphan(b) \/ RejectOrphan(b) \/ AdoptOrphan(b)
        PROVE  ~Idle'
    BY <1>1, <2>4, ContinuePassFrames, AdoptOrphanFrames
       DEF SkipOrphan, RejectOrphan, KeysInv, ChainInv
  <2>5. CASE ReturnToPass
    <3>1. Len(frames') = Len(frames) - 1 /\ Len(frames) > 1
      BY <1>1, <2>5, ReturnToPassFrames DEF ReturnToPass, KeysInv, ChainInv
    <3>2. frames' # <<>>
      BY <2>1, <3>1
    <3> QED BY <3>2 DEF Unwind
  <2>6. ProcessOrphans \/ UNCHANGED vars
    BY <1>1 DEF Next, AddBlock, MempoolStep, AddToMempool, ClearMempool
  <2> QED BY <2>2, <2>3, <2>4, <2>5, <2>6 DEF ProcessOrphans, ReturnToCaller, Unwind, Idle
<1> QED BY <1>1, KeysInvariant, DepthIsBounded, PTL DEF Spec, ShallowReturns

=============================================================================
