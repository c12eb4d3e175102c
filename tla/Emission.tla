------------------------------ MODULE Emission ------------------------------
(***************************************************************************)
(* The emission curve of core/emission.py: the reward of the next block as *)
(* a function of the circulating supply, and the queries that project the  *)
(* supply some blocks ahead.  Amounts are in atomic units.                 *)
(*                                                                         *)
(* The decay term of the code, int(remaining * decay_factor), is computed  *)
(* in floating point.  It is the constant Decay here: any natural number   *)
(* valued, non-decreasing function of what remains to be mined (converting *)
(* an int to a float, multiplying by a positive float and truncating are   *)
(* each non-decreasing, whatever they round to).                           *)
(***************************************************************************)
EXTENDS Integers

CONSTANTS
  MaxSupply,      \* max_supply_atomic
  BaseSupply,     \* base_supply_atomic: what exists before mining begins
  InitialReward,  \* initial_reward_atomic
  TailEmission,   \* tail_emission_atomic
  Decay           \* Decay[r] = int(r * decay_factor)

ToMine == 0 .. (MaxSupply - BaseSupply)

ASSUME EmissionAssumption ==
  /\ MaxSupply \in Nat /\ BaseSupply \in Nat /\ BaseSupply < MaxSupply
  /\ InitialReward \in Nat /\ TailEmission \in Nat
  /\ 0 < TailEmission /\ TailEmission <= InitialReward
  /\ DOMAIN Decay = ToMine
  /\ \A r \in ToMine : Decay[r] \in Nat
  /\ \A r, s \in ToMine : r <= s => Decay[r] <= Decay[s]

AtMost(a, b) == IF a <= b THEN a ELSE b
AtLeast(a, b) == IF a <= b THEN b ELSE a

-----------------------------------------------------------------------------

Remaining(supply) == MaxSupply - supply

\* Mutant: the tail floor is applied last.
BelowCapRewardFloorLast(supply) ==
  AtLeast(TailEmission, AtMost(AtMost(Decay[Remaining(supply)], InitialReward), Remaining(supply)))

\* Mutant: no tail floor.
BelowCapRewardNoFloor(supply) ==
  AtMost(AtMost(Decay[Remaining(supply)], InitialReward), Remaining(supply))

\* The clamps of block_reward below the cap, in the order of the code: the
\* tail floor, then the initial reward, then what is left under the cap.
BelowCapReward(supply) ==
  AtMost(AtMost(AtLeast(TailEmission, Decay[Remaining(supply)]), InitialReward),
         Remaining(supply))

BlockReward(supply) ==
  IF supply >= MaxSupply THEN TailEmission ELSE BelowCapReward(supply)

SupplyAfterBlock(supply) == supply + BlockReward(supply)

\* Mining n blocks one after the other: what the queries below estimate.
MinedSupply(supply, n) ==
  LET after[k \in 0 .. n] ==
        IF k = 0 THEN supply ELSE SupplyAfterBlock(after[k - 1])
  IN  after[n]

\* Mutant: the block at which the loop stops is not counted.
SupplyAfterBlocksOffByOne(supply, n) ==
  LET go[left \in 0 .. n] ==
        LET s == MinedSupply(supply, n - left)
        IN  IF left = 0 THEN s
            ELSE IF BlockReward(s) <= TailEmission
                 THEN s + BlockReward(s) * (left - 1)
                 ELSE go[left - 1]
  IN  go[n]

\* supply_after_blocks: iterate until a reward is at most the tail, then take
\* all the remaining blocks to pay that same reward.
SupplyAfterBlocks(supply, n) ==
  LET go[left \in 0 .. n] ==
        LET s == MinedSupply(supply, n - left)
        IN  IF left = 0 THEN s
            ELSE IF BlockReward(s) <= TailEmission
                 THEN s + BlockReward(s) * left
                 ELSE go[left - 1]
  IN  go[n]

SupplyAtBlockHeight(height) == SupplyAfterBlocks(BaseSupply, height)

\* reward_at_block_height: the reward of the first block that pays at most
\* the tail is returned for every later height.
RewardAtBlockHeight(height) ==
  LET go[h \in 0 .. height] ==
        LET s == MinedSupply(BaseSupply, h)
        IN  IF h < height /\ BlockReward(s) > TailEmission
            THEN go[h + 1]
            ELSE BlockReward(s)
  IN  go[0]

\* blocks_until_tail_emission, up to the safety limit of the loop.
BlocksUntilTailEmission(limit) ==
  LET go[h \in 0 .. (limit + 1)] ==
        IF \/ BlockReward(MinedSupply(BaseSupply, h)) <= TailEmission
           \/ h > limit
        THEN h
        ELSE go[h + 1]
  IN  go[0]

=============================================================================
