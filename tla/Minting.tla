------------------------------ MODULE Minting ------------------------------
(***************************************************************************)
(* The supply of a chain whose every block has one coinbase and pays the   *)
(* reward of the curve, as Blockchain.add_block does with each block that  *)
(* it is given: the reward is computed from the supply before the block    *)
(* and minted by the coinbase.  The queries of the curve are compared with *)
(* what the blocks really mint.  Nothing here says that blocks do come: in *)
(* this program Miner._mining_loop gets none from mine_block (Engine).     *)
(***************************************************************************)
EXTENDS Emission

CONSTANT MaxHeight  \* bound on the number of blocks added

ASSUME MaxHeightAssumption == MaxHeight \in Nat

VARIABLES
  height,  \* state.height
  supply   \* state.total_supply

mintVars == <<height, supply>>

MintTypeOK == height \in Nat /\ supply \in Nat

MintInit == height = 0 /\ supply = BaseSupply

\* Mutant: only the decay term is paid.
MintBlockDecayOnly ==
  /\ height < MaxHeight
  /\ height' = height + 1
  /\ supply' = supply + AtMost(Decay[Remaining(supply)], Remaining(supply))

MintBlock ==
  /\ height < MaxHeight
  /\ height' = height + 1
  /\ supply' = SupplyAfterBlock(supply)

MintNext == MintBlock

MintSpec == MintInit /\ [][MintNext]_mintVars

-----------------------------------------------------------------------------

\* There is room under the cap for one more full tail reward.
RoomForTail == supply + TailEmission <= MaxSupply

\* The reward never takes the supply across the cap: a chain below the cap
\* lands at or under it, never over it (the last clamp of block_reward).
NoOvershoot == [][supply < MaxSupply => supply' <= MaxSupply]_mintVars

\* Rewards decrease smoothly: while a full tail reward fits under the cap, no
\* block pays more than the one before it, and none pays less than the tail
\* (the order of the clamps of block_reward).
SmoothDecay ==
  [][RoomForTail' => /\ BlockReward(supply') <= BlockReward(supply)
                     /\ BlockReward(supply') >= TailEmission]_mintVars

\* The projections agree with mining block by block for as long as a full
\* tail reward fits under the cap, where the shortcut both loops take at the
\* first tail reward is exact; and blocks_until_tail_emission is the exact
\* height at which the tail phase begins: every earlier block pays more.
ProjectionsExact ==
  /\ RoomForTail => /\ SupplyAtBlockHeight(height) = supply
                    /\ RewardAtBlockHeight(height) = BlockReward(supply)
  /\ height < BlocksUntilTailEmission(MaxHeight) <=> BlockReward(supply) > TailEmission

\* A chain below the cap has been paid a full tail reward for every block: a
\* reward is cut below the tail only where it lands on the cap.  The cap is
\* thus no more blocks away than tail rewards fit under it (the floor and the
\* last clamp of block_reward).
TailPaid == supply < MaxSupply => height * TailEmission <= supply - BaseSupply

=============================================================================
