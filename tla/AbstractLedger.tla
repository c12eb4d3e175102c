--------------------------- MODULE AbstractLedger ---------------------------
(***************************************************************************)
(* What the blockchain promises: an append-only list of blocks, each valid *)
(* on top of the one before it and spending only key images that no block  *)
(* of the list, and no earlier input of its own, has spent.                *)
(***************************************************************************)
EXTENDS Blocks

VARIABLE blocks

Init == blocks = <<Genesis>>

SpentIn(seq) == UNION {Images(seq[i]) : i \in DOMAIN seq}

Extend(b) ==
  /\ Validate(b, blocks[Len(blocks)])
  /\ Conflicts(b, SpentIn(blocks)) = {}
  /\ blocks' = Append(blocks, b)

Next == \E b \in Block : Extend(b)

Spec == Init /\ [][Next]_blocks

=============================================================================
