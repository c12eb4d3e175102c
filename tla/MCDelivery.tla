----------------------------- MODULE MCDelivery -----------------------------
(***************************************************************************)
(* A chain of five blocks on the genesis block, two of them with payments, *)
(* and a payment of no block that spends what the first of those spends.   *)
(***************************************************************************)
EXTENDS Delivery

CONSTANTS g, b1, b2, b3, b4, b5, k1, k2

MCHash == {g, b1, b2, b3, b4, b5, "none"}
MCKeyImage == {k1, k2}

Coinbase(h) == [id |-> h, coinbase |-> TRUE, inputs |-> <<>>, sane |-> TRUE,
                packs |-> TRUE]
Pay(h, inputs) == [id |-> h, coinbase |-> FALSE, inputs |-> inputs, sane |-> TRUE,
                   packs |-> TRUE]

Blk(h, prev, n, txs) ==
  [hash |-> h, prev |-> prev, height |-> n, txs |-> <<Coinbase(h)>> \o txs, sane |-> TRUE]

MCGenesis == Blk(g, "none", 0, <<>>)
MCBlock == {MCGenesis,
            Blk(b1, g, 1, <<Pay("t1", <<k1>>)>>),
            Blk(b2, b1, 2, <<>>),
            Blk(b3, b2, 3, <<Pay("t3", <<k2>>)>>),
            Blk(b4, b3, 4, <<>>),
            Blk(b5, b4, 5, <<>>)}
MCTx == UNION {{b.txs[i] : i \in DOMAIN b.txs} : b \in MCBlock} \cup {Pay("t9", <<k1>>)}
MCTxHash == {t.id : t \in MCTx}

MCMaxSupply == 60
MCBaseSupply == 10
MCInitialReward == 6
MCTailEmission == 2
MCDecay == [r \in 0 .. 50 |-> (r * 6) \div 50]

ASSUME OneChain

=============================================================================
