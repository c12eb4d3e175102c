------------------------------- MODULE Ledger -------------------------------
(***************************************************************************)
(* The Blockchain class of ledger/__init__.py: the chain and its state,    *)
(* the blocks waiting for their parent, and the mempool.                   *)
(*                                                                         *)
(* add_block is synchronous and recursive: when a block joins the chain,   *)
(* _process_orphans goes over a snapshot of the waiting blocks and calls   *)
(* add_block again on the first that fits, which runs its own              *)
(* _process_orphans before the outer one deletes the block it added and    *)
(* starts over with a new snapshot.  The calls in progress are the stack   *)
(* frames: one entry for each _process_orphans, with what is left of its   *)
(* snapshot; in every entry but the last, the head of the snapshot is the  *)
(* block whose add_block has not returned yet.  Nothing else runs while    *)
(* the stack is not empty.                                                 *)
(*                                                                         *)
(* Every entry costs two frames of the interpreter's stack, which has room *)
(* for RecursionLimit of them; after that a call raises RecursionError.    *)
(* No exception is caught here: one raised anywhere in the recursion ends  *)
(* all the calls in progress, and nothing that they did is undone.         *)
(***************************************************************************)
EXTENDS Blocks, Emission

CONSTANTS
  RecursionLimit, \* the _process_orphans calls the interpreter's stack has room for
  SupplyBound,  \* bound: no block is received once the supply exceeds it
  OrphanBound,  \* bound: blocks waiting for their parent
  MempoolBound, \* bound: length of the mempool
  Offered       \* bound: the transactions handed to add_to_mempool

ASSUME RecursionAssumption == RecursionLimit \in Nat \ {0}

VARIABLES
  chain,     \* chain
  height,    \* state.height
  lastHash,  \* state.last_block_hash
  supply,    \* state.total_supply
  spent,     \* spent_key_images
  utxo,      \* the keys of utxo_set
  orphans,   \* orphan_blocks, in insertion order
  mempool,   \* mempool
  frames,    \* the _process_orphans calls in progress, outermost first
  raised     \* history: an exception ended a recursion, and none ran to its end since

vars == <<chain, height, lastHash, supply, spent, utxo, orphans, mempool, frames, raised>>

chainVars == <<chain, height, lastHash>>
effects == <<supply, spent, utxo>>

TypeOK ==
  /\ chain \in Seq(Block)
  /\ chain # <<>>
  /\ height \in Nat
  /\ lastHash \in Hash
  /\ supply \in Nat
  /\ spent \subseteq KeyImage
  /\ utxo \subseteq TxHash
  /\ orphans \in Seq(Block)
  /\ mempool \in Seq(Tx)
  /\ frames \in Seq(Seq(Block))
  /\ raised \in BOOLEAN

\* A new Blockchain after initialize().
Init ==
  /\ chain = <<Genesis>>
  /\ height = 0
  /\ lastHash = Genesis.hash
  /\ supply = BaseSupply
  /\ spent = {}
  /\ utxo = {}
  /\ orphans = <<>>
  /\ mempool = <<>>
  /\ frames = <<>>
  /\ raised = FALSE

-----------------------------------------------------------------------------

Tip == chain[Len(chain)]

\* A dictionary keyed by block hash: a stored hash keeps its place.
Store(dict, b) ==
  IF \E i \in DOMAIN dict : dict[i].hash = b.hash
  THEN [i \in DOMAIN dict |-> IF dict[i].hash = b.hash THEN b ELSE dict[i]]
  ELSE Append(dict, b)

Delete(dict, k) == SubSeq(dict, 1, k - 1) \o SubSeq(dict, k + 1, Len(dict))

\* Mutant: key images are not looked at.
AcceptsBlindly(b) == Validate(b, Tip)

Accepts(b) == Validate(b, Tip) /\ Conflicts(b, spent) = {}

\* The transaction loop of add_block, up to its end or its early return.
\* The reward is computed once, before the loop.
ProcessTransactions(b) ==
  /\ supply' = supply + BlockReward(supply) * Cardinality(Coinbases(b, spent))
  /\ spent' = spent \cup {Image(b, p) : p \in Marked(b, spent)}
  /\ utxo' = utxo \cup {b.txs[i].id : i \in Completed(b, spent)}

\* add_block finds a key image spent: it returns False where it stands, and
\* what the loop has done so far stays done.
DoubleSpend(b) ==
  /\ Validate(b, Tip) /\ Conflicts(b, spent) # {}
  /\ ProcessTransactions(b)
  /\ UNCHANGED chainVars

\* The block becomes the tip.
Extend(b) ==
  /\ Accepts(b)
  /\ ProcessTransactions(b)
  /\ chain' = Append(chain, b)
  /\ height' = b.height
  /\ lastHash' = b.hash

\* Mutant: the orphans are not gone over.
AppendBlockWithoutPass(b) == Extend(b) /\ UNCHANGED <<orphans, frames>>

\* add_block extends the chain and a pass over a snapshot of the orphans begins.
AppendBlock(b) ==
  /\ Extend(b)
  /\ frames' = Append(frames, orphans)
  /\ UNCHANGED orphans

-----------------------------------------------------------------------------
(***************************************************************************)
(* add_block called from outside.                                          *)
(***************************************************************************)

Idle == frames = <<>>

MissesParent(b) == height > 0 /\ b.prev # Tip.hash

StoreOrphan(b) ==
  /\ MissesParent(b)
  /\ orphans' = Store(orphans, b)
  /\ Len(orphans') <= OrphanBound
  /\ UNCHANGED <<chainVars, effects, frames>>

\* add_block returns False, or raises where the transactions cannot be hashed.
RejectInvalid(b) ==
  /\ ~MissesParent(b) /\ ~Validate(b, Tip)
  /\ UNCHANGED <<chainVars, effects, orphans, frames>>

RejectDoubleSpend(b) ==
  /\ ~MissesParent(b)
  /\ DoubleSpend(b)
  /\ UNCHANGED <<orphans, frames>>

AcceptBlock(b) == ~MissesParent(b) /\ AppendBlock(b)

AddBlock(b) ==
  /\ Idle /\ supply <= SupplyBound
  /\ \/ StoreOrphan(b)
     \/ RejectInvalid(b)
     \/ RejectDoubleSpend(b)
     \/ AcceptBlock(b)
  /\ UNCHANGED <<mempool, raised>>

-----------------------------------------------------------------------------
(***************************************************************************)
(* One step of the innermost _process_orphans.                             *)
(***************************************************************************)

Pass == frames[Len(frames)]

\* Mutant: a block that was not added restarts the pass as well.
ContinuePassAgain == frames' = [frames EXCEPT ![Len(frames)] = orphans]

ContinuePass == frames' = [frames EXCEPT ![Len(frames)] = Tail(@)]

Candidate(b) == ~Idle /\ Pass # <<>> /\ b = Head(Pass)

SkipOrphan(b) ==
  /\ Candidate(b)
  /\ b.prev # lastHash \/ (~Validate(b, Tip) /\ ~Raises(b, Tip))
  /\ ContinuePass
  /\ UNCHANGED <<chainVars, effects, orphans, raised>>

RejectOrphan(b) ==
  /\ Candidate(b)
  /\ b.prev = lastHash
  /\ DoubleSpend(b)
  /\ ContinuePass
  /\ UNCHANGED <<orphans, raised>>

AdoptOrphan(b) ==
  /\ Candidate(b) /\ Len(frames) < RecursionLimit
  /\ b.prev = lastHash
  /\ AppendBlock(b)
  /\ UNCHANGED raised

\* A pass over the whole snapshot added nothing: the call returns.
ReturnToCaller ==
  /\ ~Idle /\ Pass = <<>> /\ Len(frames) = 1
  /\ frames' = <<>>
  /\ raised' = FALSE
  /\ UNCHANGED <<chainVars, effects, orphans>>

\* The same in a nested call: the add_block that made it returns True, and
\* the outer _process_orphans deletes the block and starts over.
ReturnToPass ==
  /\ ~Idle /\ Pass = <<>> /\ Len(frames) > 1
  /\ \E k \in DOMAIN orphans :
       /\ orphans[k].hash = Head(frames[Len(frames) - 1]).hash
       /\ orphans' = Delete(orphans, k)
  /\ frames' = Append(SubSeq(frames, 1, Len(frames) - 2), orphans')
  /\ UNCHANGED <<chainVars, effects, raised>>

\* An exception leaves every call; the blocks being added stay among the orphans.
Unwind == frames' = <<>> /\ raised' = TRUE /\ UNCHANGED orphans

\* The transactions of an orphan cannot be hashed.
HashingFails(b) ==
  /\ Candidate(b)
  /\ b.prev = lastHash /\ Raises(b, Tip)
  /\ Unwind
  /\ UNCHANGED <<chainVars, effects>>

\* RecursionError in the call that needs one frame too many: validating,
\* logging a double spend, going over the orphans, or logging the block added
\* once that is done.
StackRunsOut ==
  /\ Len(frames) = RecursionLimit
  /\ \/ \E b \in Block :
          /\ Candidate(b) /\ b.prev = lastHash
          /\ Extend(b) \/ DoubleSpend(b) \/ UNCHANGED <<chainVars, effects>>
     \/ Pass = <<>> /\ UNCHANGED <<chainVars, effects>>
  /\ Unwind

ProcessOrphans ==
  /\ \/ \E b \in Block : \/ SkipOrphan(b) \/ RejectOrphan(b)
                        \/ AdoptOrphan(b) \/ HashingFails(b)
     \/ ReturnToCaller
     \/ ReturnToPass
     \/ StackRunsOut
  /\ UNCHANGED mempool

-----------------------------------------------------------------------------
(***************************************************************************)
(* The mempool.                                                            *)
(***************************************************************************)

ImagesOf(t) == {t.inputs[i] : i \in DOMAIN t.inputs}

\* Mutant: the mempool itself is not looked at.
MempoolAcceptsUnspent(t) == ValidateBasic(t) /\ ImagesOf(t) \cap spent = {}

MempoolAccepts(t) ==
  /\ ValidateBasic(t)
  /\ ImagesOf(t) \cap spent = {}
  /\ \A i \in DOMAIN mempool : ImagesOf(t) \cap ImagesOf(mempool[i]) = {}

AddToMempool(t) ==
  /\ Idle /\ Len(mempool) < MempoolBound /\ t \in Offered
  /\ MempoolAccepts(t)
  /\ mempool' = Append(mempool, t)
  /\ UNCHANGED <<chainVars, effects, orphans, frames, raised>>

\* The transactions that stay keep their order.  One that cannot be hashed
\* makes the call raise before it has changed anything.
ClearMempool(ids) ==
  /\ Idle /\ \A i \in DOMAIN mempool : mempool[i].packs
  /\ LET kept == {i \in DOMAIN mempool : mempool[i].id \notin ids}
     IN  \E place \in [1 .. Cardinality(kept) -> kept] :
           /\ \A i, j \in DOMAIN place : i < j => place[i] < place[j]
           /\ mempool' = [i \in DOMAIN place |-> mempool[place[i]]]
  /\ UNCHANGED <<chainVars, effects, orphans, frames, raised>>

-----------------------------------------------------------------------------

MempoolStep ==
  \/ \E t \in Tx : AddToMempool(t)
  \/ \E ids \in SUBSET {mempool[i].id : i \in DOMAIN mempool} : ClearMempool(ids)

Next == (\E b \in Block : AddBlock(b)) \/ ProcessOrphans \/ MempoolStep

Spec == Init /\ [][Next]_vars

\* add_block runs to its end without waiting for anything.
FairSpec == Spec /\ WF_vars(ProcessOrphans)

-----------------------------------------------------------------------------
(***************************************************************************)
(* Properties.                                                             *)
(***************************************************************************)

\* The chain starts at the genesis block, every block names the one before it
\* and is one higher, and state.height and state.last_block_hash are those of
\* the tip, in every state of the recursion as well (add_block checks the
\* linkage against the tip, _process_orphans against last_block_hash).
ChainLinked ==
  /\ chain[1] = Genesis
  /\ \A i \in 2 .. Len(chain) : /\ chain[i].prev = chain[i - 1].hash
                                /\ chain[i].height = i - 1
  /\ height = Len(chain) - 1
  /\ lastHash = Tip.hash

\* No key image is spent twice on the chain, be it by two blocks, by two
\* transactions of a block or by two inputs of a transaction, whatever blocks
\* were stored, rejected half-way or adopted in between.
NoDoubleSpend ==
  \A i, j \in DOMAIN chain :
    \A p \in Spends(chain[i]), q \in Spends(chain[j]) :
      Image(chain[i], p) = Image(chain[j], q) => i = j /\ p = q

\* When add_block has returned, no stored block is left behind that the chain
\* could take: every block waiting on the tip is invalid or a double spend.
\* After an exception out of the passes one may be, until a pass is completed.
NoReadyOrphan ==
  Idle /\ ~raised => \A i \in DOMAIN orphans : orphans[i].prev = lastHash => ~Accepts(orphans[i])

\* No two transactions of the mempool spend the same key image.
MempoolDisjoint ==
  \A i, j \in DOMAIN mempool :
    i # j => ImagesOf(mempool[i]) \cap ImagesOf(mempool[j]) = {}

\* The chain is only ever extended, by one block at a time, and what was
\* minted or spent is never taken back: there is no reorganisation.
AppendOnly ==
  [][/\ Len(chain') \in {Len(chain), Len(chain) + 1}
     /\ SubSeq(chain', 1, Len(chain)) = chain
     /\ spent \subseteq spent'
     /\ supply <= supply']_vars

\* No step takes the supply from below the cap to above it, be the block kept
\* or rejected half-way, if no block has two coinbases: the reward is computed
\* once for each block, from the supply before it.
CapNotCrossed == [][supply < MaxSupply => supply' <= MaxSupply]_vars

\* The recursion goes at most one call deeper than there are orphans, so with
\* fewer of them it never meets the limit.
Shallow ==
  /\ Len(orphans) + 1 < RecursionLimit
  /\ \A i \in DOMAIN orphans : Hashable(orphans[i])

\* add_block ends: the passes over the orphans come to an end, and the del of
\* each nested pass finds the key of the block that was added.  It returns
\* rather than raises if the orphans are fewer than the calls the stack has
\* room for and can all be hashed.
AddBlockReturns ==
  /\ ~Idle ~> Idle
  /\ (~Idle /\ Shallow) ~> (Idle /\ ~raised)

\* The blockchain implements the append-only list of AbstractLedger.
Abstract == INSTANCE AbstractLedger WITH blocks <- chain

ImplementsAbstract == Abstract!Spec

-----------------------------------------------------------------------------
(***************************************************************************)
(* Statements of the code and its documents that the code does not meet.   *)
(***************************************************************************)

\* ledger/__init__.py:313 says of total_supply and its neighbours: "Current
\* state of the blockchain"; the supply grows with the blocks of the chain.
MintOnlyWithBlock == [][supply' # supply => Len(chain') = Len(chain) + 1]_vars

=============================================================================
