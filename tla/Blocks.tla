------------------------------- MODULE Blocks -------------------------------
(***************************************************************************)
(* Blocks and transactions as ledger/__init__.py sees them.  A transaction *)
(* keeps what the ledger looks at: its hash (id), whether it is a coinbase,*)
(* the key images of its inputs in order, whether its version, outputs and *)
(* fee are in order (sane), and whether Transaction.hash() can pack its    *)
(* numbers (packs): a negative fee, say, makes it raise struct.error.  A   *)
(* block keeps its hash, the hash of its parent, its height, its           *)
(* transactions, and whether its version is 1 and its Merkle root, where   *)
(* it can be computed, is that of its transactions (sane).                 *)
(*                                                                         *)
(* The hash of a block is computed from its header: equal hashes mean      *)
(* equal parents and heights.  It is not assumed to determine the          *)
(* transactions, which are not hashed themselves.  Blocks whose header     *)
(* cannot be packed have no hash and are left out.                         *)
(***************************************************************************)
EXTENDS Integers, Sequences, FiniteSets

CONSTANTS
  Hash,      \* hashes of blocks
  TxHash,    \* hashes of transactions
  KeyImage,  \* key images
  Tx,        \* the transactions there are
  Block,     \* the blocks a node may be given, the genesis block among them
  Genesis    \* the block initialize() puts on the chain

TxRecord ==
  [id: TxHash, coinbase: BOOLEAN, inputs: Seq(KeyImage), sane: BOOLEAN, packs: BOOLEAN]

BlockRecord ==
  [hash: Hash, prev: Hash, height: Nat, txs: Seq(Tx), sane: BOOLEAN]

ASSUME BlocksAssumption ==
  /\ \A t \in Tx : t \in TxRecord
  /\ \A b \in Block : b \in BlockRecord
  /\ Genesis \in Block /\ Genesis.height = 0
  /\ \A a, b \in Block : a.hash = b.hash => a.prev = b.prev /\ a.height = b.height
  /\ \A i \in DOMAIN Genesis.txs : Genesis.txs[i].coinbase

-----------------------------------------------------------------------------

\* Transaction.validate_basic: only a coinbase may be without inputs.
ValidateBasic(t) == t.sane /\ (t.inputs = <<>> => t.coinbase)

\* Version and linkage to prev: what Block.validate checks before it hashes
\* the transactions for the Merkle root.
Linked(b, prev) == b.sane /\ b.prev = prev.hash /\ b.height = prev.height + 1

Hashable(b) == \A i \in DOMAIN b.txs : b.txs[i].packs

\* Block.validate(prev) raises: neither add_block nor _process_orphans catches it.
Raises(b, prev) == Linked(b, prev) /\ ~Hashable(b)

\* Mutant: any higher block fits.
ValidateUnlinked(b, prev) ==
  /\ b.sane
  /\ b.height > prev.height
  /\ Hashable(b)
  /\ \A i \in DOMAIN b.txs : ValidateBasic(b.txs[i])
  /\ b.txs # <<>> => b.txs[1].coinbase

\* Block.validate(prev) returns True.
Validate(b, prev) ==
  /\ Linked(b, prev) /\ Hashable(b)
  /\ \A i \in DOMAIN b.txs : ValidateBasic(b.txs[i])
  /\ b.txs # <<>> => b.txs[1].coinbase

-----------------------------------------------------------------------------
(***************************************************************************)
(* The transaction loop of add_block visits the inputs of the regular      *)
(* transactions in order and stops at the first key image already spent.   *)
(* An input is named by its position <<transaction, input>>.               *)
(***************************************************************************)

Regular(b) == {i \in DOMAIN b.txs : ~b.txs[i].coinbase}

Spends(b) == UNION {{i} \X DOMAIN b.txs[i].inputs : i \in Regular(b)}

Image(b, p) == b.txs[p[1]].inputs[p[2]]

Images(b) == {Image(b, p) : p \in Spends(b)}

Before(p, q) == p[1] < q[1] \/ (p[1] = q[1] /\ p[2] < q[2])

\* Mutant: spent key images are looked for in the block only.
ConflictsInBlock(b, S) ==
  {p \in Spends(b) : \E q \in Spends(b) : Before(q, p) /\ Image(b, q) = Image(b, p)}

\* Inputs of b that spend a key image of S, or one spent earlier in b itself.
Conflicts(b, S) ==
  {p \in Spends(b) : \/ Image(b, p) \in S
                     \/ \E q \in Spends(b) : Before(q, p) /\ Image(b, q) = Image(b, p)}

\* What the loop has done when it ends or stops: the inputs marked as spent
\* and the transactions gone through to their end.
Marked(b, S) == {p \in Spends(b) : \A c \in Conflicts(b, S) : Before(p, c)}

Completed(b, S) == {i \in DOMAIN b.txs : \A c \in Conflicts(b, S) : i < c[1]}

Coinbases(b, S) == {i \in Completed(b, S) : b.txs[i].coinbase}

=============================================================================
