------------------------------ MODULE MCLedger ------------------------------
(***************************************************************************)
(* A small block tree for TLC, on the genesis block g:                     *)
(*                                                                         *)
(*   g - b1 - b2 - b3 - b4 - d5    b1 spends k1, b2 spends k2              *)
(*          |    \ d3              d3 spends k3, then k1 again: it stops   *)
(*          |                      half-way, its coinbase minted, k3       *)
(*          |                      marked; d5 spends k3 twice              *)
(*          \ c2 - u3              c2 spends k3; u3 cannot be hashed       *)
(*          \ x2                   the header of b2 with other transactions*)
(*                                                                         *)
(* The payment of b1 may be in the mempool.                                *)
(***************************************************************************)
EXTENDS Ledger

CONSTANTS g, b1, b2, b3, b4, c2, u3, d3, d5, k1, k2, k3

MCHash == {g, b1, b2, b3, b4, c2, u3, d3, d5, "none"}
MCKeyImage == {k1, k2, k3}

Coinbase(h) == [id |-> h, coinbase |-> TRUE, inputs |-> <<>>, sane |-> TRUE,
                packs |-> TRUE]
Pay(h, inputs) == [id |-> h, coinbase |-> FALSE, inputs |-> inputs, sane |-> TRUE,
                   packs |-> TRUE]

T1 == Pay("t1", <<k1>>)
T2 == Pay("t2", <<k2>>)
T3 == Pay("t3", <<k3>>)
T31 == Pay("t31", <<k3, k1>>)
T33 == Pay("t33", <<k3, k3>>)

Blk(h, prev, n, txs, sane) ==
  [hash |-> h, prev |-> prev, height |-> n, txs |-> <<Coinbase(h)>> \o txs, sane |-> sane]

MCGenesis == Blk(g, "none", 0, <<>>, TRUE)
B1 == Blk(b1, g, 1, <<T1>>, TRUE)
B2 == Blk(b2, b1, 2, <<T2>>, TRUE)
B3 == Blk(b3, b2, 3, <<>>, TRUE)
B4 == Blk(b4, b3, 4, <<>>, TRUE)
C2 == Blk(c2, b1, 2, <<T3>>, TRUE)
U3 == [Blk(u3, c2, 3, <<>>, TRUE) EXCEPT !.txs[1].packs = FALSE]
D3 == Blk(d3, b2, 3, <<T31>>, TRUE)
D5 == Blk(d5, b4, 5, <<T33>>, TRUE)
X2 == [B2 EXCEPT !.txs = <<Coinbase("x2")>>, !.sane = FALSE]

TreeBlocks == {B1, B2, B3, B4, C2, U3, D3, D5, X2}
MCBlock == TreeBlocks \cup {MCGenesis}
MCTx == {T1, T2, T3, T31, T33} \cup {b.txs[1] : b \in MCBlock}
MCOffered == {T1}
MCTxHash == {t.id : t \in MCTx}

MCMaxSupply == 30
MCBaseSupply == 10
MCInitialReward == 9
MCTailEmission == 2
MCDecay == [r \in 0 .. 20 |-> (r * 9) \div 20]

=============================================================================
