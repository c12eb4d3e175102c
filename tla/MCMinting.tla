----------------------------- MODULE MCMinting -----------------------------
(***************************************************************************)
(* A scaled-down monetary policy for TLC: 297 units to mine after a base   *)
(* supply of 100, an initial reward of 12 and a tail of 3.  For these      *)
(* numbers int(r * (12 / 297)) computed in floating point is the exact     *)
(* quotient, the last reward under the cap is smaller than the tail, and   *)
(* the cap is reached at block 62.                                         *)
(***************************************************************************)
EXTENDS Minting

MCMaxSupply == 397
MCBaseSupply == 100
MCInitialReward == 12
MCTailEmission == 3
MCDecay == [r \in 0 .. 297 |-> (r * MCInitialReward) \div 297]

=============================================================================
