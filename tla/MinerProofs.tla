---------------------------- MODULE MinerProofs ----------------------------
(***************************************************************************)
(* What a miner mints and when it mines.  For every monetary policy that   *)
(* meets the assumptions of Emission: the clamps of the reward, the cap,   *)
(* and the projections of the curve.  For any number of calls of start and *)
(* stop: the types, the status, and the ownership of the mining loop.      *)
(***************************************************************************)
EXTENDS Minting, MinerLifecycle, Numbers

\* The reward of a supply that is at least the base supply is a natural
\* number, positive, and below the cap it fits under the cap (the clamps of block_reward).
LEMMA RewardBounds ==
  ASSUME NEW s \in Nat, s >= BaseSupply
  PROVE  /\ BlockReward(s) \in Nat \ {0}
         /\ s < MaxSupply => s + BlockReward(s) <= MaxSupply
<1>1. CASE s >= MaxSupply
  BY <1>1, EmissionAssumption DEF BlockReward
<1>2. CASE s < MaxSupply
  <2>1. Remaining(s) \in ToMine /\ Remaining(s) = MaxSupply - s
    BY <1>2, EmissionAssumption DEF Remaining, ToMine
  <2>2. Decay[Remaining(s)] \in Nat
    BY <2>1, EmissionAssumption
  <2>3. BelowCapReward(s) \in Nat \ {0} /\ BelowCapReward(s) <= MaxSupply - s
    BY <1>2, <2>1, <2>2, EmissionAssumption DEF BelowCapReward, AtMost, AtLeast
  <2>4. QED
    BY <1>2, <2>3, EmissionAssumption DEF BlockReward
<1>3. QED
  BY <1>1, <1>2, EmissionAssumption

\* While a full tail reward fits under the cap, the reward is at least the tail
\* (the order of the clamps: the floor, then the ceilings).
LEMMA RewardFloor ==
  ASSUME NEW s \in Nat, s >= BaseSupply, s + TailEmission <= MaxSupply
  PROVE  BlockReward(s) >= TailEmission
<1>1. s < MaxSupply /\ Remaining(s) \in ToMine /\ Remaining(s) = MaxSupply - s
  BY EmissionAssumption DEF Remaining, ToMine
<1>2. Decay[Remaining(s)] \in Nat
  BY <1>1, EmissionAssumption
<1>3. QED
  BY <1>1, <1>2, EmissionAssumption DEF BlockReward, BelowCapReward, AtMost, AtLeast

\* A larger supply below the cap earns no larger a reward: the curve decreases.
LEMMA RewardDecreases ==
  ASSUME NEW s \in Nat, NEW t \in Nat, BaseSupply <= s, s <= t, t < MaxSupply
  PROVE  BlockReward(t) <= BlockReward(s)
<1>1. /\ Remaining(s) \in ToMine /\ Remaining(s) = MaxSupply - s
      /\ Remaining(t) \in ToMine /\ Remaining(t) = MaxSupply - t
  BY EmissionAssumption DEF Remaining, ToMine
<1>2. /\ Decay[Remaining(s)] \in Nat /\ Decay[Remaining(t)] \in Nat
      /\ Decay[Remaining(t)] <= Decay[Remaining(s)]
  <2>1. Remaining(t) <= Remaining(s)
    BY <1>1, EmissionAssumption
  <2>2. QED
    BY <1>1, <2>1, EmissionAssumption
<1>3. QED
  BY <1>1, <1>2, EmissionAssumption DEF BlockReward, BelowCapReward, AtMost, AtLeast

-----------------------------------------------------------------------------

SupplyInv == MintTypeOK /\ supply >= BaseSupply

\* SupplyInv holds in every state.
LEMMA SupplyInvariant == MintSpec => []SupplyInv
<1>1. MintInit => SupplyInv
  BY EmissionAssumption DEF MintInit, SupplyInv, MintTypeOK
<1>2. SupplyInv /\ [MintNext]_mintVars => SupplyInv'
  <2> SUFFICES ASSUME SupplyInv, [MintNext]_mintVars
               PROVE  SupplyInv'
    OBVIOUS
  <2>1. CASE MintBlock
    <3>1. BlockReward(supply) \in Nat
      BY RewardBounds DEF SupplyInv, MintTypeOK
    <3>2. QED
      BY <2>1, <3>1, EmissionAssumption DEF MintBlock, SupplyAfterBlock, SupplyInv, MintTypeOK
  <2>2. CASE UNCHANGED mintVars
    BY <2>2 DEF mintVars, SupplyInv, MintTypeOK
  <2>3. QED
    BY <2>1, <2>2 DEF MintNext
<1>3. QED
  BY <1>1, <1>2, PTL DEF MintSpec

\* Mining from below the cap never takes the supply over it.
THEOREM CapNotOvershot == MintSpec => NoOvershoot
<1>1. ASSUME SupplyInv, [MintNext]_mintVars
      PROVE  [supply < MaxSupply => supply' <= MaxSupply]_mintVars
  <2>1. CASE MintBlock
    <3>1. supply < MaxSupply => supply + BlockReward(supply) <= MaxSupply
      BY <1>1, RewardBounds DEF SupplyInv, MintTypeOK
    <3>2. QED
      BY <2>1, <3>1 DEF MintBlock, SupplyAfterBlock
  <2>2. QED
    BY <1>1, <2>1 DEF MintNext
<1>2. QED
  BY <1>1, SupplyInvariant, PTL DEF MintSpec, NoOvershoot

\* The cap is never more blocks away than tail rewards fit under it: however
\* the curve decays, a chain that is still below it has been paid the tail at
\* least for each of its blocks, since a reward cut down to less lands on the
\* cap (the clamps of block_reward).
THEOREM CapInSight == MintSpec => []TailPaid
<1>1. MintInit => TailPaid
  BY EmissionAssumption DEF MintInit, TailPaid
<1>2. ASSUME SupplyInv, SupplyInv', TailPaid, [MintNext]_mintVars
      PROVE  TailPaid'
  <2>1. CASE MintBlock
    <3> SUFFICES ASSUME supply' < MaxSupply
                 PROVE  height' * TailEmission <= supply' - BaseSupply
      BY DEF TailPaid
    <3>1. /\ height \in Nat /\ supply \in Nat /\ supply >= BaseSupply
          /\ BlockReward(supply) \in Nat
      BY <1>2, RewardBounds DEF SupplyInv, MintTypeOK
    <3>2. height' = height + 1 /\ supply' = supply + BlockReward(supply)
      BY <2>1 DEF MintBlock, SupplyAfterBlock
    <3>3. supply < MaxSupply /\ BlockReward(supply) < MaxSupply - supply
      BY <3>1, <3>2, EmissionAssumption
    <3>4. BlockReward(supply) >= TailEmission
      <4>1. Remaining(supply) \in ToMine /\ Remaining(supply) = MaxSupply - supply
        BY <3>1, <3>3, EmissionAssumption DEF Remaining, ToMine
      <4>2. Decay[Remaining(supply)] \in Nat
        BY <4>1, EmissionAssumption
      <4> QED BY <3>1, <3>3, <4>1, <4>2, EmissionAssumption
              DEF BlockReward, BelowCapReward, AtMost, AtLeast
    <3>5. height * TailEmission <= supply - BaseSupply
      BY <1>2, <3>3 DEF TailPaid
    <3>6. /\ (height + 1) * TailEmission = height * TailEmission + TailEmission
          /\ height * TailEmission \in Nat
      BY <3>1, EmissionAssumption
    <3> QED BY <3>1, <3>2, <3>4, <3>5, <3>6, EmissionAssumption
  <2>2. CASE UNCHANGED mintVars
    BY <1>2, <2>2 DEF mintVars, TailPaid
  <2> QED BY <1>2, <2>1, <2>2 DEF MintNext
<1> QED BY <1>1, <1>2, SupplyInvariant, PTL DEF MintSpec

\* While a full tail reward fits under the cap, rewards do not rise and do not
\* fall below the tail.
THEOREM RewardsDecaySmoothly == MintSpec => SmoothDecay
<1>1. ASSUME SupplyInv, [MintNext]_mintVars
      PROVE  [RoomForTail' => /\ BlockReward(supply') <= BlockReward(supply)
                              /\ BlockReward(supply') >= TailEmission]_mintVars
  <2> SUFFICES ASSUME MintBlock, supply' + TailEmission <= MaxSupply
               PROVE  /\ BlockReward(supply') <= BlockReward(supply)
                      /\ BlockReward(supply') >= TailEmission
    BY <1>1 DEF MintNext, RoomForTail
  <2>1. BlockReward(supply) \in Nat /\ supply \in Nat /\ supply >= BaseSupply
    BY <1>1, RewardBounds DEF SupplyInv, MintTypeOK
  <2>2. supply' = supply + BlockReward(supply)
    BY DEF MintBlock, SupplyAfterBlock
  <2>3. /\ supply' \in Nat /\ supply' >= BaseSupply
        /\ supply <= supply' /\ supply' < MaxSupply
    BY <2>1, <2>2, EmissionAssumption
  <2>4. QED
    BY <2>1, <2>3, RewardDecreases, RewardFloor
<1>2. QED
  BY <1>1, SupplyInvariant, PTL DEF MintSpec, SmoothDecay

-----------------------------------------------------------------------------
(***************************************************************************)
(* The projections.  SupplyAt[k] is the supply once k blocks are mined.    *)
(***************************************************************************)

FromBase == {s \in Nat : s >= BaseSupply}

IsMining(f) ==
  /\ f \in [Nat -> FromBase]
  /\ f[0] = BaseSupply
  /\ \A k \in Nat : f[k + 1] = SupplyAfterBlock(f[k])

SupplyAt == CHOOSE f : IsMining(f)

\* Mining one block after the other defines the supply at every height.
LEMMA SupplyAtEachHeight == IsMining(SupplyAt)
<1> DEFINE g == [p \in Nat \X FromBase |-> SupplyAfterBlock(p[2])]
<1>1. ASSUME NEW s \in FromBase
      PROVE  SupplyAfterBlock(s) \in FromBase
  <2>1. s \in Nat /\ s >= BaseSupply
    BY DEF FromBase
  <2>2. BlockReward(s) \in Nat
    BY <2>1, RewardBounds
  <2>3. QED
    BY <2>1, <2>2, EmissionAssumption DEF SupplyAfterBlock, FromBase
<1>2. g \in [Nat \X FromBase -> FromBase]
  BY <1>1
<1>3. BaseSupply \in FromBase
  BY EmissionAssumption DEF FromBase
<1> HIDE DEF g
<1>4. PICK f : Iterates(f, FromBase, BaseSupply, g)
  BY <1>2, <1>3, Iteration
<1>5. ASSUME NEW k \in Nat
      PROVE  f[k + 1] = SupplyAfterBlock(f[k])
  <2>1. f[k] \in FromBase /\ f[k + 1] = g[<<k, f[k]>>]
    BY <1>4 DEF Iterates
  <2>2. QED
    BY <2>1 DEF g
<1>6. IsMining(f)
  BY <1>4, <1>5 DEF IsMining, Iterates
<1> QED BY <1>6 DEF SupplyAt

\* The supply never falls, and each block adds its reward to it.
LEMMA SupplyGrows ==
  /\ \A k \in Nat : /\ SupplyAt[k] \in Nat /\ SupplyAt[k] >= BaseSupply
                    /\ BlockReward(SupplyAt[k]) \in Nat
                    /\ SupplyAt[k + 1] = SupplyAt[k] + BlockReward(SupplyAt[k])
  /\ \A j, k \in Nat : j <= k => SupplyAt[j] <= SupplyAt[k]
<1>1. ASSUME NEW k \in Nat
      PROVE  /\ SupplyAt[k] \in Nat /\ SupplyAt[k] >= BaseSupply
             /\ BlockReward(SupplyAt[k]) \in Nat
             /\ SupplyAt[k + 1] = SupplyAt[k] + BlockReward(SupplyAt[k])
  <2>1. SupplyAt[k] \in FromBase /\ SupplyAt[k + 1] = SupplyAfterBlock(SupplyAt[k])
    BY SupplyAtEachHeight DEF IsMining
  <2>2. QED
    BY <2>1, RewardBounds DEF FromBase, SupplyAfterBlock
<1>2. ASSUME NEW j \in Nat
      PROVE  \A k \in Nat : j <= k => SupplyAt[j] <= SupplyAt[k]
  <2> DEFINE S == {d \in Nat : SupplyAt[j] <= SupplyAt[j + d]}
  <2>1. 0 \in S
    BY <1>1
  <2>2. ASSUME NEW d \in Nat, d \in S
        PROVE  d + 1 \in S
    <3>1. j + d \in Nat /\ (j + d) + 1 = j + (d + 1)
      OBVIOUS
    <3>2. SupplyAt[j + (d + 1)] >= SupplyAt[j + d]
      BY <1>1, <3>1
    <3>3. SupplyAt[j + d] \in Nat /\ SupplyAt[j + (d + 1)] \in Nat /\ SupplyAt[j] \in Nat
      BY <1>1, <3>1
    <3>4. QED
      BY <2>2, <3>2, <3>3
  <2> HIDE DEF S
  <2>3. Nat \subseteq S
    BY <2>1, <2>2, NaturalInduction
  <2>4. ASSUME NEW k \in Nat, j <= k
        PROVE  SupplyAt[j] <= SupplyAt[k]
    <3>1. k - j \in Nat /\ j + (k - j) = k
      BY <2>4
    <3>2. k - j \in S
      BY <2>3, <3>1
    <3>3. QED
      BY <3>1, <3>2 DEF S
  <2>5. QED
    BY <2>4
<1> QED BY <1>1, <1>2

\* Mining n blocks one after the other gives the supply at height n.
LEMMA MinedFromBase ==
  ASSUME NEW n \in Nat
  PROVE  MinedSupply(BaseSupply, n) = SupplyAt[n]
<1> DEFINE G == CHOOSE after : after = [k \in 0 .. n |-> IF k = 0 THEN BaseSupply
                                                        ELSE SupplyAfterBlock(after[k - 1])]
           F == [k \in 0 .. n |-> SupplyAt[k]]
           S == {k \in Nat : k <= n => G[k] = SupplyAt[k]}
<1>1. MinedSupply(BaseSupply, n) = G[n]
  BY DEF MinedSupply
<1>2. SupplyAt[0] = BaseSupply /\ \A k \in Nat : SupplyAt[k + 1] = SupplyAfterBlock(SupplyAt[k])
  BY SupplyAtEachHeight DEF IsMining
<1>3. G = [k \in 0 .. n |-> IF k = 0 THEN BaseSupply ELSE SupplyAfterBlock(G[k - 1])]
  <2>1. ASSUME NEW k \in 0 .. n
        PROVE  F[k] = IF k = 0 THEN BaseSupply ELSE SupplyAfterBlock(F[k - 1])
    <3>1. CASE k = 0
      BY <1>2, <3>1
    <3>2. CASE k # 0
      <4>1. k - 1 \in 0 .. n /\ k - 1 \in Nat /\ (k - 1) + 1 = k
        BY <3>2
      <4>2. SupplyAt[k] = SupplyAfterBlock(SupplyAt[k - 1])
        BY <1>2, <4>1
      <4>3. QED
        BY <3>2, <4>1, <4>2
    <3>3. QED
      BY <3>1, <3>2
  <2>2. F = [k \in 0 .. n |-> IF k = 0 THEN BaseSupply ELSE SupplyAfterBlock(F[k - 1])]
    BY <2>1
  <2> HIDE DEF F
  <2>3. \E after : after = [k \in 0 .. n |-> IF k = 0 THEN BaseSupply
                                            ELSE SupplyAfterBlock(after[k - 1])]
    BY <2>2
  <2>4. QED
    BY <2>3
<1> HIDE DEF G
<1>4. 0 \in S
  BY <1>2, <1>3, SMTT(60)
<1>5. ASSUME NEW k \in Nat, k \in S
      PROVE  k + 1 \in S
  <2> SUFFICES ASSUME k + 1 <= n PROVE G[k + 1] = SupplyAt[k + 1]
    OBVIOUS
  <2>1. G[k] = SupplyAt[k]
    BY <1>5
  <2>2. k + 1 \in 0 .. n /\ k + 1 # 0 /\ (k + 1) - 1 = k
    OBVIOUS
  <2>3. G[k + 1] = SupplyAfterBlock(G[k])
    BY <1>3, <2>2
  <2>4. QED
    BY <1>2, <2>1, <2>3
<1> HIDE DEF S
<1>6. n \in S
  BY <1>4, <1>5, NaturalInduction
<1> QED BY <1>1, <1>6 DEF S

InTail(k) == BlockReward(SupplyAt[k]) <= TailEmission

\* Once a block pays no more than the tail, no later block does.
LEMMA TailLasts ==
  ASSUME NEW j \in Nat, NEW k \in Nat, j <= k, InTail(j)
  PROVE  InTail(k)
<1>1. /\ SupplyAt[j] \in Nat /\ SupplyAt[j] >= BaseSupply /\ SupplyAt[j] <= SupplyAt[k]
      /\ SupplyAt[k] \in Nat
      /\ BlockReward(SupplyAt[j]) \in Nat /\ BlockReward(SupplyAt[k]) \in Nat
  BY SupplyGrows
<1>2. CASE SupplyAt[k] >= MaxSupply
  BY <1>2, EmissionAssumption DEF InTail, BlockReward
<1>3. CASE SupplyAt[k] < MaxSupply
  BY <1>1, <1>3, RewardDecreases, EmissionAssumption DEF InTail
<1> QED BY <1>1, <1>2, <1>3, EmissionAssumption

\* A loop over 0 .. n that stops at the first member of P, where it returns v.
IsLoop(go, n, P, v) == go = [h \in 0 .. n |-> IF h \in P THEN v[h] ELSE go[h + 1]]

\* Such a loop exists, and it returns v at the first member of P.
LEMMA FirstStop ==
  ASSUME NEW n \in Nat, NEW P \in SUBSET (0 .. n), n \in P, NEW v
  PROVE  \E t \in P :
           /\ \A i \in 0 .. n : i < t => i \notin P
           /\ \E go : IsLoop(go, n, P, v)
           /\ \A go : IsLoop(go, n, P, v) => go[0] = v[t]
<1> DEFINE next == [h \in 0 .. n |-> CHOOSE m \in P : h <= m /\ \A i \in P : h <= i => m <= i]
           F == [h \in 0 .. n |-> v[next[h]]]
<1>0. P \subseteq Nat /\ 0 .. n \subseteq Nat
  OBVIOUS
<1>1. ASSUME NEW h \in 0 .. n
      PROVE  \E m \in P : h <= m /\ \A i \in P : h <= i => m <= i
  <2> DEFINE Q == {m \in P : h <= m}
  <2>1. Q \in SUBSET Nat
    BY <1>0
  <2>1a. n \in Q
    OBVIOUS
  <2>2. PICK m \in Q : \A i \in Q : m <= i
    <3> HIDE DEF Q
    <3>1. QED
      BY <2>1, <2>1a, LeastNatural
  <2>3. QED
    BY <2>2
<1>2. ASSUME NEW h \in 0 .. n
      PROVE  next[h] \in P /\ h <= next[h] /\ \A i \in P : h <= i => next[h] <= i
  BY <1>1
<1> HIDE DEF next
<1>3. \E go : IsLoop(go, n, P, v)
  <2>1. ASSUME NEW h \in 0 .. n
        PROVE  F[h] = IF h \in P THEN v[h] ELSE F[h + 1]
    <3>1. CASE h \in P
      <4>0. next[h] \in P /\ h <= next[h] /\ next[h] <= h
        BY <1>2, <3>1
      <4>1. next[h] \in Nat /\ h \in Nat /\ h <= next[h] /\ next[h] <= h
        BY <1>0, <4>0
      <4>2. next[h] = h
        BY <4>1
      <4>3. QED
        BY <3>1, <4>2
    <3>2. CASE h \notin P
      <4>1. h + 1 \in 0 .. n
        BY <3>2
      <4>2. /\ next[h] \in P /\ h <= next[h] /\ \A i \in P : h <= i => next[h] <= i
            /\ next[h + 1] \in P /\ h + 1 <= next[h + 1]
            /\ \A i \in P : h + 1 <= i => next[h + 1] <= i
        BY <1>2, <4>1
      <4>2a. /\ next[h] \in Nat
            /\ next[h + 1] \in Nat
            /\ h \in Nat
        BY <1>0, <4>2, Zenon
      <4>3. h + 1 <= next[h]
        <5>1. next[h] # h
          BY <3>2, <4>2
        <5>2. QED
          BY <4>2, <4>2a, <5>1
      <4>4. next[h] <= next[h + 1] /\ next[h + 1] <= next[h]
        BY <4>2, <4>2a, <4>3
      <4>5. next[h] = next[h + 1]
        BY <4>2a, <4>4
      <4>6. QED
        BY <3>2, <4>1, <4>5
    <3>3. QED
      BY <3>1, <3>2
  <2>2. F = [h \in 0 .. n |-> IF h \in P THEN v[h] ELSE F[h + 1]]
    BY <2>1
  <2> HIDE DEF F
  <2>3. QED
    BY <2>2 DEF IsLoop
<1>4. PICK t \in P : \A i \in P : t <= i
  BY LeastNatural
<1>5. ASSUME NEW G, IsLoop(G, n, P, v)
      PROVE  G[0] = v[t]
  <2>0. G = [h \in 0 .. n |-> IF h \in P THEN v[h] ELSE G[h + 1]]
    BY <1>5 DEF IsLoop
  <2> DEFINE S == {h \in Nat : h <= t => G[0] = G[h]}
  <2>1. ASSUME NEW h \in Nat, h \in S
        PROVE  h + 1 \in S
    <3> SUFFICES ASSUME h + 1 <= t PROVE G[0] = G[h + 1]
      OBVIOUS
    <3>1. h \in 0 .. n /\ h \notin P /\ G[0] = G[h]
      BY <1>4, <2>1
    <3>2. QED
      BY <2>0, <3>1
  <2>2. 0 \in S
    OBVIOUS
  <2> HIDE DEF S
  <2>3. t \in S
    BY <2>1, <2>2, NaturalInduction
  <2>4. G[0] = G[t]
    BY <2>3 DEF S
  <2>5. G[t] = v[t]
    BY <2>0
  <2>6. QED
    BY <2>4, <2>5
<1>6. \A i \in 0 .. n : i < t => i \notin P
  BY <1>4
<1> QED BY <1>3, <1>5, <1>6

\* A loop that counts down from n and stops at the first member of P.
IsCountdown(go, n, P, v) == go = [left \in 0 .. n |-> IF left \in P THEN v[left] ELSE go[left - 1]]

\* Such a countdown exists, and it returns v at the member of P where it stops.
LEMMA FirstStopDown ==
  ASSUME NEW n \in Nat, NEW P \in SUBSET (0 .. n), 0 \in P, NEW v
  PROVE  \E t \in P :
           /\ \E go : IsCountdown(go, n, P, v)
           /\ \A go : IsCountdown(go, n, P, v) => go[n] = v[t]
<1> DEFINE Q == {h \in 0 .. n : n - h \in P}
           w == [h \in 0 .. n |-> v[n - h]]
<1>1. Q \in SUBSET (0 .. n) /\ n \in Q
  OBVIOUS
<1>2. PICK t \in Q : /\ \A i \in 0 .. n : i < t => i \notin Q
                     /\ \E go : IsLoop(go, n, Q, w)
                     /\ \A go : IsLoop(go, n, Q, w) => go[0] = w[t]
  <2> HIDE DEF Q, w
  <2>1. QED
    BY <1>1, FirstStop, ZenonT(60)
<1>3. \E go : IsCountdown(go, n, P, v)
  <2>1. PICK up : IsLoop(up, n, Q, w)
    BY <1>2
  <2> DEFINE down == [left \in 0 .. n |-> up[n - left]]
  <2>2. ASSUME NEW left \in 0 .. n
        PROVE  down[left] = IF left \in P THEN v[left] ELSE down[left - 1]
    <3>1. n - left \in 0 .. n /\ n - (n - left) = left
      OBVIOUS
    <3>2. up[n - left] = IF left \in P THEN v[left] ELSE up[(n - left) + 1]
      BY <2>1, <3>1 DEF IsLoop
    <3>3. left \notin P => left - 1 \in 0 .. n /\ n - (left - 1) = (n - left) + 1
      OBVIOUS
    <3>4. QED
      BY <3>2, <3>3
  <2>3. IsCountdown(down, n, P, v)
    <3> HIDE DEF down
    <3>1. down = [left \in 0 .. n |-> down[left]]
      BY DEF down
    <3>2. QED
      BY <2>2, <3>1 DEF IsCountdown
  <2>4. QED
    BY <2>3
<1>4. ASSUME NEW down, IsCountdown(down, n, P, v)
      PROVE  down[n] = v[n - t]
  <2> DEFINE up == [h \in 0 .. n |-> down[n - h]]
  <2>1. ASSUME NEW h \in 0 .. n
        PROVE  up[h] = IF h \in Q THEN w[h] ELSE up[h + 1]
    <3>1. n - h \in 0 .. n
      OBVIOUS
    <3>2. down[n - h] = IF n - h \in P THEN v[n - h] ELSE down[(n - h) - 1]
      BY <1>4, <3>1 DEF IsCountdown
    <3>3. h \notin Q => h + 1 \in 0 .. n /\ n - (h + 1) = (n - h) - 1
      OBVIOUS
    <3>4. QED
      BY <3>2, <3>3
  <2>2. IsLoop(up, n, Q, w)
    <3> HIDE DEF Q, w
    <3>1. up = [h \in 0 .. n |-> up[h]]
      OBVIOUS
    <3> HIDE DEF up
    <3>2. QED
      BY <2>1, <3>1 DEF IsLoop
  <2>3. up[0] = w[t]
    <3> HIDE DEF Q, w, up
    <3>1. QED
      BY <1>2, <2>2
  <2>4. QED
    BY <2>3
<1>5. n - t \in P
  OBVIOUS
<1> QED BY <1>3, <1>4, <1>5

\* reward_at_block_height returns the reward at the first height, at most the
\* one asked for, that is in the tail, or at the height asked for.
LEMMA RewardQuery ==
  ASSUME NEW n \in Nat
  PROVE  \E t \in 0 .. n :
           /\ t = n \/ InTail(t)
           /\ RewardAtBlockHeight(n) = BlockReward(SupplyAt[t])
<1> DEFINE P == {h \in 0 .. n : h = n \/ InTail(h)}
           v == [h \in 0 .. n |-> BlockReward(SupplyAt[h])]
           Body(go) == [h \in 0 .. n |->
                          LET s == MinedSupply(BaseSupply, h)
                          IN  IF h < n /\ BlockReward(s) > TailEmission
                              THEN go[h + 1]
                              ELSE BlockReward(s)]
<1>1. RewardAtBlockHeight(n) = (CHOOSE go : go = Body(go))[0]
  BY DEF RewardAtBlockHeight
<1>2. ASSUME NEW go
      PROVE  Body(go) = [h \in 0 .. n |-> IF h \in P THEN v[h] ELSE go[h + 1]]
  <2>1. ASSUME NEW h \in 0 .. n
        PROVE  /\ MinedSupply(BaseSupply, h) = SupplyAt[h]
               /\ h < n /\ BlockReward(SupplyAt[h]) > TailEmission <=> h \notin P
    <3>1. h \in Nat /\ BlockReward(SupplyAt[h]) \in Nat
      BY SupplyGrows
    <3>2. QED
      BY <3>1, MinedFromBase, EmissionAssumption DEF InTail
  <2> HIDE DEF P
  <2>2. QED
    BY <2>1
<1> HIDE DEF Body
<1>3. ASSUME NEW go
      PROVE  go = Body(go) <=> IsLoop(go, n, P, v)
  BY <1>2 DEF IsLoop
<1>4. P \in SUBSET (0 .. n) /\ n \in P
  OBVIOUS
<1> HIDE DEF v
<1>5. PICK t \in P :
        /\ \A i \in 0 .. n : i < t => i \notin P
        /\ \E go : IsLoop(go, n, P, v)
        /\ \A go : IsLoop(go, n, P, v) => go[0] = v[t]
  <2> HIDE DEF P
  <2>1. QED
    BY <1>4, FirstStop, ZenonT(60)
<1>6. RewardAtBlockHeight(n) = v[t]
  <2> HIDE DEF P
  <2>1. QED
    BY <1>1, <1>3, <1>5
<1> QED BY <1>6 DEF v

\* blocks_until_tail_emission returns the first height in the tail, or the
\* height after the limit of its loop.
LEMMA TailQuery ==
  ASSUME NEW n \in Nat
  PROVE  \E t \in 0 .. n + 1 :
           /\ t = n + 1 \/ InTail(t)
           /\ \A i \in 0 .. n : i < t => ~InTail(i)
           /\ BlocksUntilTailEmission(n) = t
<1> DEFINE P == {h \in 0 .. n + 1 : h = n + 1 \/ InTail(h)}
           v == [h \in 0 .. n + 1 |-> h]
           Body(go) == [h \in 0 .. (n + 1) |->
                          IF \/ BlockReward(MinedSupply(BaseSupply, h)) <= TailEmission
                             \/ h > n
                          THEN h
                          ELSE go[h + 1]]
<1>1. BlocksUntilTailEmission(n) = (CHOOSE go : go = Body(go))[0]
  BY DEF BlocksUntilTailEmission
<1>2. ASSUME NEW go
      PROVE  go = Body(go) <=> IsLoop(go, n + 1, P, v)
  <2>1. ASSUME NEW h \in 0 .. n + 1
        PROVE  /\ BlockReward(MinedSupply(BaseSupply, h)) <= TailEmission \/ h > n <=> h \in P
               /\ v[h] = h
    <3>1. h \in Nat
      OBVIOUS
    <3>2. MinedSupply(BaseSupply, h) = SupplyAt[h]
      BY <3>1, MinedFromBase
    <3>3. QED
      BY <3>1, <3>2 DEF InTail
  <2> HIDE DEF P, v
  <2>2. Body(go) = [h \in 0 .. n + 1 |-> IF h \in P THEN v[h] ELSE go[h + 1]]
    BY <2>1
  <2>3. QED
    BY <2>2 DEF IsLoop
<1> HIDE DEF Body
<1>3. P \in SUBSET (0 .. n + 1) /\ n + 1 \in P /\ n + 1 \in Nat
  OBVIOUS
<1> HIDE DEF v
<1>4. PICK t \in P :
        /\ \A i \in 0 .. n + 1 : i < t => i \notin P
        /\ \E go : IsLoop(go, n + 1, P, v)
        /\ \A go : IsLoop(go, n + 1, P, v) => go[0] = v[t]
  <2> HIDE DEF P
  <2>1. QED
    BY <1>3, FirstStop, ZenonT(60)
<1>5. BlocksUntilTailEmission(n) = v[t]
  <2> HIDE DEF P
  <2>1. QED
    BY <1>1, <1>2, <1>4
<1>6. \A i \in 0 .. n : i < t => ~InTail(i)
  BY <1>4
<1> QED BY <1>5, <1>6 DEF v

\* supply_after_blocks returns the supply at the first height at most n in the
\* tail, or at n, and the reward there for each block that is left.
LEMMA SupplyQuery ==
  ASSUME NEW n \in Nat
  PROVE  \E t \in 0 .. n :
           /\ t = n \/ InTail(t)
           /\ SupplyAtBlockHeight(n) = SupplyAt[t] + BlockReward(SupplyAt[t]) * (n - t)
<1> DEFINE P == {left \in 0 .. n : left = 0 \/ InTail(n - left)}
           v == [left \in 0 .. n |-> SupplyAt[n - left] + BlockReward(SupplyAt[n - left]) * left]
           Body(go) == [left \in 0 .. n |->
                          LET s == MinedSupply(BaseSupply, n - left)
                          IN  IF left = 0 THEN s
                              ELSE IF BlockReward(s) <= TailEmission
                                   THEN s + BlockReward(s) * left
                                   ELSE go[left - 1]]
<1>1. SupplyAtBlockHeight(n) = (CHOOSE go : go = Body(go))[n]
  BY DEF SupplyAtBlockHeight, SupplyAfterBlocks
<1>2. ASSUME NEW go
      PROVE  go = Body(go) <=> IsCountdown(go, n, P, v)
  <2>1. ASSUME NEW left \in 0 .. n
        PROVE  Body(go)[left] = IF left \in P THEN v[left] ELSE go[left - 1]
    <3>1. n - left \in Nat
      OBVIOUS
    <3>2. MinedSupply(BaseSupply, n - left) = SupplyAt[n - left]
      BY <3>1, MinedFromBase
    <3>3. SupplyAt[n - left] \in Nat /\ BlockReward(SupplyAt[n - left]) \in Nat
      BY <3>1, SupplyGrows
    <3>4. CASE left = 0
      BY <3>2, <3>3, <3>4
    <3>5. CASE left # 0
      BY <3>2, <3>5 DEF InTail
    <3>6. QED
      BY <3>4, <3>5
  <2>2. Body(go) = [left \in 0 .. n |-> Body(go)[left]]
    OBVIOUS
  <2> HIDE DEF P, v, Body
  <2>3. Body(go) = [left \in 0 .. n |-> IF left \in P THEN v[left] ELSE go[left - 1]]
    BY <2>1, <2>2
  <2>4. QED
    BY <2>3 DEF IsCountdown
<1> HIDE DEF Body
<1>3. P \in SUBSET (0 .. n) /\ 0 \in P
  OBVIOUS
<1> HIDE DEF v
<1>4. PICK t \in P :
        /\ \E go : IsCountdown(go, n, P, v)
        /\ \A go : IsCountdown(go, n, P, v) => go[n] = v[t]
  <2> HIDE DEF P
  <2>1. QED
    BY <1>3, FirstStopDown
<1>5. SupplyAtBlockHeight(n) = v[t]
  <2> HIDE DEF P
  <2>1. QED
    BY <1>1, <1>2, <1>4
<1>6. /\ n - t \in 0 .. n /\ n - (n - t) = t
      /\ n - t = n \/ InTail(n - t)
  OBVIOUS
<1>7. SupplyAtBlockHeight(n)
        = SupplyAt[n - t] + BlockReward(SupplyAt[n - t]) * (n - (n - t))
  BY <1>5, <1>6 DEF v
<1> QED BY <1>6, <1>7

\* While a full tail reward fits under the cap at height n, every reward from
\* a height in the tail up to n is the tail, and the supply grows by it.
LEMMA TailPays ==
  ASSUME NEW n \in Nat, NEW t \in 0 .. n, t = n \/ InTail(t),
         SupplyAt[n] + TailEmission <= MaxSupply
  PROVE  /\ BlockReward(SupplyAt[t]) = BlockReward(SupplyAt[n])
         /\ SupplyAt[n] = SupplyAt[t] + BlockReward(SupplyAt[t]) * (n - t)
<1>1. SupplyAt[n] \in Nat /\ BlockReward(SupplyAt[n]) \in Nat
  BY SupplyGrows
<1>2. CASE t = n
  BY <1>1, <1>2
<1>3. CASE InTail(t)
  <2>1. ASSUME NEW k \in Nat, t <= k, k <= n
        PROVE  BlockReward(SupplyAt[k]) = TailEmission
    <3>1. /\ SupplyAt[k] \in Nat /\ SupplyAt[k] >= BaseSupply /\ SupplyAt[k] <= SupplyAt[n]
          /\ BlockReward(SupplyAt[k]) \in Nat
      BY <2>1, SupplyGrows
    <3>2. InTail(k)
      BY <1>3, <2>1, TailLasts
    <3>3. SupplyAt[k] + TailEmission <= MaxSupply
      BY <1>1, <3>1, EmissionAssumption
    <3>4. BlockReward(SupplyAt[k]) >= TailEmission
      BY <3>1, <3>3, RewardFloor
    <3>5. QED
      BY <3>1, <3>2, <3>4, EmissionAssumption DEF InTail
  <2> DEFINE S == {d \in Nat : t + d <= n => SupplyAt[t + d] = SupplyAt[t] + TailEmission * d}
  <2>2. t \in Nat
    OBVIOUS
  <2>3. SupplyAt[t] \in Nat
    BY <2>2, SupplyGrows
  <2>4. 0 \in S
    BY <2>2, <2>3, EmissionAssumption
  <2>5. ASSUME NEW d \in Nat, d \in S
        PROVE  d + 1 \in S
    <3> SUFFICES ASSUME t + (d + 1) <= n
                 PROVE  SupplyAt[t + (d + 1)] = SupplyAt[t] + TailEmission * (d + 1)
      OBVIOUS
    <3>1. t + d \in Nat /\ t <= t + d /\ t + d <= n /\ (t + d) + 1 = t + (d + 1)
      OBVIOUS
    <3>2. SupplyAt[t + d] = SupplyAt[t] + TailEmission * d
      BY <2>5, <3>1
    <3>3. SupplyAt[(t + d) + 1] = SupplyAt[t + d] + BlockReward(SupplyAt[t + d])
      BY <3>1, SupplyGrows
    <3>4. BlockReward(SupplyAt[t + d]) = TailEmission
      BY <2>1, <3>1
    <3>5. SupplyAt[t + (d + 1)] = SupplyAt[t] + TailEmission * d + TailEmission
      BY <3>1, <3>2, <3>3, <3>4
    <3>6. TailEmission * (d + 1) = TailEmission * d + TailEmission /\ TailEmission * d \in Nat
      BY EmissionAssumption
    <3>7. QED
      BY <2>3, <3>5, <3>6, EmissionAssumption
  <2> HIDE DEF S
  <2>6. n - t \in S /\ t \in Nat /\ n - t \in Nat
    BY <2>4, <2>5, NaturalInduction
  <2>7. t + (n - t) = n /\ t <= n
    BY <2>6
  <2>8. SupplyAt[n] = SupplyAt[t] + TailEmission * (n - t)
    BY <2>6, <2>7 DEF S
  <2>9. BlockReward(SupplyAt[t]) = TailEmission /\ BlockReward(SupplyAt[n]) = TailEmission
    BY <2>1, <2>6, <2>7
  <2>10. QED
    BY <2>8, <2>9
<1> QED BY <1>2, <1>3

\* The supply that mining has reached is the supply at its height.
MintedInv ==
  /\ height \in Nat
  /\ height <= MaxHeight
  /\ supply = SupplyAt[height]

\* Blocks that pay the reward of the curve keep the supply at that of the height.
LEMMA MintedInvariant == MintSpec => []MintedInv
<1>1. MintInit => MintedInv
  BY SupplyAtEachHeight, MaxHeightAssumption DEF MintInit, MintedInv, IsMining
<1>2. MintedInv /\ [MintNext]_mintVars => MintedInv'
  <2> SUFFICES ASSUME MintedInv, [MintNext]_mintVars
               PROVE  MintedInv'
    OBVIOUS
  <2>1. CASE MintBlock
    <3>1. height \in Nat /\ height + 1 <= MaxHeight
      BY <2>1, MaxHeightAssumption DEF MintBlock, MintedInv
    <3>2. SupplyAt[height + 1] = SupplyAfterBlock(SupplyAt[height])
      BY <3>1, SupplyAtEachHeight DEF IsMining
    <3>3. QED
      BY <2>1, <3>1, <3>2 DEF MintBlock, MintedInv
  <2>2. CASE UNCHANGED mintVars
    BY <2>2 DEF mintVars, MintedInv
  <2>3. QED
    BY <2>1, <2>2 DEF MintNext
<1>3. QED
  BY <1>1, <1>2, PTL DEF MintSpec

\* The projections of the curve agree with mining block by block while a full
\* tail reward fits under the cap, and the height at which the tail phase is
\* announced is the one at which it begins.
THEOREM ProjectionsAreExact == MintSpec => []ProjectionsExact
<1>1. ASSUME MintedInv
      PROVE  ProjectionsExact
  <2>1. height \in Nat /\ supply = SupplyAt[height] /\ height <= MaxHeight
    BY <1>1 DEF MintedInv
  <2>2. ASSUME RoomForTail
        PROVE  SupplyAtBlockHeight(height) = supply
    <3>1. PICK t \in 0 .. height :
            /\ t = height \/ InTail(t)
            /\ SupplyAtBlockHeight(height)
                 = SupplyAt[t] + BlockReward(SupplyAt[t]) * (height - t)
      BY <2>1, SupplyQuery
    <3>2. QED
      BY <2>1, <2>2, <3>1, TailPays DEF RoomForTail
  <2>3. ASSUME RoomForTail
        PROVE  RewardAtBlockHeight(height) = BlockReward(supply)
    <3>1. PICK t \in 0 .. height :
            /\ t = height \/ InTail(t)
            /\ RewardAtBlockHeight(height) = BlockReward(SupplyAt[t])
      BY <2>1, RewardQuery
    <3>2. QED
      BY <2>1, <2>3, <3>1, TailPays DEF RoomForTail
  <2>4. height < BlocksUntilTailEmission(MaxHeight) <=> BlockReward(supply) > TailEmission
    <3>1. PICK t \in 0 .. MaxHeight + 1 :
            /\ t = MaxHeight + 1 \/ InTail(t)
            /\ \A i \in 0 .. MaxHeight : i < t => ~InTail(i)
            /\ BlocksUntilTailEmission(MaxHeight) = t
      BY MaxHeightAssumption, TailQuery
    <3>2. BlockReward(supply) \in Nat
      BY <2>1, SupplyGrows
    <3>3. CASE height < t
      <4>1. ~InTail(height)
        BY <2>1, <3>1, <3>3, MaxHeightAssumption
      <4>2. QED
        BY <2>1, <3>1, <3>2, <3>3, <4>1, EmissionAssumption DEF InTail
    <3>4. CASE ~(height < t)
      <4>1. t \in Nat /\ t <= height /\ t # MaxHeight + 1
        BY <2>1, <3>4, MaxHeightAssumption
      <4>2. InTail(height)
        BY <2>1, <3>1, <4>1, TailLasts
      <4>3. QED
        BY <2>1, <3>1, <3>2, <3>4, <4>2, EmissionAssumption DEF InTail
    <3>5. QED
      BY <3>3, <3>4
  <2>5. QED
    BY <2>2, <2>3, <2>4 DEF ProjectionsExact
<1>2. QED
  BY <1>1, MintedInvariant, PTL

-----------------------------------------------------------------------------

Stopping == \E c \in Stop : stopping[c] # None

InProgress(k) == starting[k] \in Waiting

\* A miner that has lost its loop while RUNNING waits for a process in a stop,
\* and no stop that fails can be the last: it fails only without a process.
LostLoop == status = "RUNNING" /\ task = None => Stopping /\ server # None

\* Calls that have not overlapped come one at a time, and while one is in
\* progress there is no loop.
OneCall ==
  /\ \A k, l \in Start : InProgress(k) /\ InProgress(l) => k = l
  /\ \A k \in Start, c \in Stop : ~(InProgress(k) /\ stopping[c] # None)
  /\ \A c, d \in Stop : stopping[c] # None /\ stopping[d] # None => c = d

Owned(k) ==
  /\ k = task /\ status = "RUNNING" /\ mining /\ running /\ active
  /\ Idle

LifecycleInv ==
  /\ TypeOK
  /\ LostLoop
  /\ status = "STARTING" => abandoned \/ \E k \in Start : InProgress(k)
  /\ ~overlapped => OneCall
  /\ ~overlapped => \A k \in Start : Live(k) => Owned(k)

\* The initial states satisfy LifecycleInv.
LEMMA InitInv == Init => LifecycleInv
  BY LifecycleAssumption
  DEF Init, LifecycleInv, TypeOK, LostLoop, OneCall, InProgress, Owned, Live,
      Waiting, Turning, Checking, Stopping

\* LifecycleInv implies what is checked.
LEMMA InvImplies == LifecycleInv => TypeOK /\ LoopOwned /\ StatusHonest
  BY DEF LifecycleInv, LostLoop, Stopping, LoopOwned, StatusHonest, Owned, InProgress

\* What a start does between two awaits, first by itself, then at its end.
LEMMA StartTypes ==
  ASSUME LifecycleInv, NEW k \in Start, BeginStart(k) \/ RefuseStart(k) \/ StartStep(k)
  PROVE  TypeOK'
<1> USE LifecycleAssumption DEF LifecycleInv, TypeOK, Live, Turning, Waiting, Checking
<1>1. CASE BeginStart(k)
  BY <1>1 DEF BeginStart, Called, Await, engine, tasks, Idle
<1>2. CASE RefuseStart(k)
  BY <1>2 DEF RefuseStart, Called, Fails, Await, engine, manager, Idle
<1>3. CASE FindDaemon(k)
  BY <1>3 DEF FindDaemon, StartHealthLoop, Await, engine, history
<1>4. CASE SpawnDaemon(k)
  BY <1>4 DEF SpawnDaemon, StartHealthLoop, Await, engine, history
<1>5. CASE BootDaemon(k)
  BY <1>5 DEF BootDaemon, StartHealthLoop, Await, engine, history
<1>6. ASSUME Succeeds(k), UNCHANGED <<manager, health, stopping, overlapped>> PROVE TypeOK'
  BY <1>6 DEF Succeeds, Await, manager
<1>7. ASSUME Fails(k), UNCHANGED <<manager, health, stopping, overlapped>> PROVE TypeOK'
  BY <1>7 DEF Fails, Await, engine, manager
<1>8. ASSUME Await(k, "pull"), UNCHANGED <<status, task, engine, loop, abandoned>>,
             UNCHANGED <<manager, health, stopping, overlapped>>
      PROVE  TypeOK'
  BY <1>8 DEF Await, engine, manager
<1>9. ASSUME Abandons(k), UNCHANGED <<manager, health, stopping, overlapped>> PROVE TypeOK'
  BY <1>9 DEF Abandons, Await, engine, manager
<1>10. CASE ListModels(k) \/ PullModel(k)
  BY <1>6, <1>7, <1>8, <1>9, <1>10 DEF ListModels, PullModel, SelectInstance
<1> QED BY <1>1, <1>2, <1>3, <1>4, <1>5, <1>10 DEF StartStep

\* The same of a stop.
LEMMA StopTypes ==
  ASSUME LifecycleInv, NEW c \in Stop, BeginStop(c) \/ StopStep(c)
  PROVE  TypeOK'
<1> USE LifecycleAssumption DEF LifecycleInv, TypeOK, Live, Turning, Waiting, Checking
<1>1. CASE BeginStop(c)
  BY <1>1, ZenonT(60) DEF BeginStop, Called, CancelLoop, CancelHealth, ClearFlags, EndStop, Idle
<1>2. CASE EndDaemon(c)
  BY <1>2 DEF EndDaemon, EndStop, tasks, history
<1>3. CASE KillDaemon(c)
  BY <1>3 DEF KillDaemon, EndStop, tasks, history
<1>4. CASE FailStop(c)
  BY <1>4 DEF FailStop, engine, manager, tasks, history
<1> QED BY <1>1, <1>2, <1>3, <1>4 DEF StopStep

\* The same of the two tasks and the daemon.
LEMMA TaskTypes ==
  ASSUME LifecycleInv, NEW k \in Start, LoopStep(k) \/ HealthStep(k) \/ ExitDaemon(k)
  PROVE  TypeOK'
<1> USE LifecycleAssumption DEF LifecycleInv, TypeOK, Live, Turning, Waiting, Checking
<1>1. CASE LoopStep(k)
  BY <1>1 DEF LoopStep, MineBlock, EndInference, Rested, Turn, engine, manager, calls, history
<1>2. CASE HealthStep(k)
  BY <1>2 DEF HealthStep, BeginCheck, EndCheck, Check, engine, manager, calls, history
<1>3. CASE ExitDaemon(k)
  BY <1>3 DEF ExitDaemon, engine, tasks, calls, history
<1> QED BY <1>1, <1>2, <1>3

\* The status and the loop it speaks of.
HonestInv == LostLoop /\ (status = "STARTING" => abandoned \/ \E k \in Start : InProgress(k))

\* A start keeps the status honest.
LEMMA StartHonest ==
  ASSUME LifecycleInv, NEW k \in Start, BeginStart(k) \/ RefuseStart(k) \/ StartStep(k)
  PROVE  HonestInv'
<1> USE LifecycleAssumption
    DEF LifecycleInv, TypeOK, HonestInv, LostLoop, Stopping, InProgress, Waiting
<1>1. CASE BeginStart(k)
  BY <1>1 DEF BeginStart, Await
<1>2. CASE RefuseStart(k)
  BY <1>2 DEF RefuseStart, Fails, Await
<1>3. CASE FindDaemon(k)
  BY <1>3 DEF FindDaemon, StartHealthLoop, Await, history
<1>4. CASE SpawnDaemon(k)
  BY <1>4 DEF SpawnDaemon, StartHealthLoop, Await, history
<1>5. CASE BootDaemon(k)
  BY <1>5 DEF BootDaemon, StartHealthLoop, Await, history
<1>6. CASE ListModels(k)
  BY <1>6 DEF ListModels, SelectInstance, Succeeds, Fails, Abandons, Await, manager
<1>7. CASE PullModel(k)
  BY <1>7 DEF PullModel, SelectInstance, Succeeds, Fails, Abandons, Await, manager
<1> QED BY <1>1, <1>2, <1>3, <1>4, <1>5, <1>6, <1>7 DEF StartStep

\* So does a stop.
LEMMA StopHonest ==
  ASSUME LifecycleInv, NEW c \in Stop, BeginStop(c) \/ StopStep(c)
  PROVE  HonestInv'
<1> USE LifecycleAssumption
    DEF LifecycleInv, TypeOK, HonestInv, LostLoop, Stopping, InProgress
<1>1. CASE BeginStop(c)
  BY <1>1 DEF BeginStop, CancelLoop, EndStop
<1>2. CASE EndDaemon(c)
  BY <1>2 DEF EndDaemon, EndStop, history
<1>3. CASE KillDaemon(c)
  BY <1>3 DEF KillDaemon, EndStop, history
<1>4. CASE FailStop(c)
  BY <1>4 DEF FailStop, manager, history
<1> QED BY <1>1, <1>2, <1>3, <1>4 DEF StopStep

\* So do the tasks and the daemon.
LEMMA TaskHonest ==
  ASSUME LifecycleInv, NEW k \in Start, LoopStep(k) \/ HealthStep(k) \/ ExitDaemon(k)
  PROVE  HonestInv'
  BY DEF LifecycleInv, HonestInv, LostLoop, Stopping, InProgress, LoopStep, HealthStep,
         ExitDaemon, MineBlock, EndInference, Rested, BeginCheck, EndCheck, engine, manager,
         tasks, calls, history

\* Calls that do not overlap.
OwnedInv == ~overlapped => OneCall /\ \A k \in Start : Live(k) => Owned(k)

\* A start leaves every live loop its own, unless calls overlapped.
LEMMA StartOwned ==
  ASSUME LifecycleInv, NEW k \in Start, BeginStart(k) \/ RefuseStart(k) \/ StartStep(k)
  PROVE  OwnedInv'
<1> USE LifecycleAssumption
    DEF LifecycleInv, TypeOK, OwnedInv, OneCall, Owned, InProgress, Idle, Live, Waiting, Turning
<1>1. CASE BeginStart(k)
  BY <1>1, ZenonT(60) DEF BeginStart, MayStart, Called, Await, tasks
<1>2. CASE RefuseStart(k)
  BY <1>2 DEF RefuseStart, MayStart, Called, Fails, Await
<1>3. CASE FindDaemon(k)
  BY <1>3 DEF FindDaemon, StartHealthLoop, Await, engine, history
<1>4. CASE SpawnDaemon(k)
  BY <1>4 DEF SpawnDaemon, StartHealthLoop, Await, engine, history
<1>5. CASE BootDaemon(k)
  BY <1>5 DEF BootDaemon, StartHealthLoop, Await, engine, history
<1>6. CASE ListModels(k)
  BY <1>6 DEF ListModels, SelectInstance, Succeeds, Fails, Abandons, Await, engine
<1>7. CASE PullModel(k)
  BY <1>7 DEF PullModel, SelectInstance, Succeeds, Fails, Abandons, Await, engine
<1> QED BY <1>1, <1>2, <1>3, <1>4, <1>5, <1>6, <1>7 DEF StartStep

\* So does a stop.
LEMMA StopOwned ==
  ASSUME LifecycleInv, NEW c \in Stop, BeginStop(c) \/ StopStep(c)
  PROVE  OwnedInv'
<1> USE LifecycleAssumption
    DEF LifecycleInv, TypeOK, OwnedInv, OneCall, Owned, InProgress, Idle, Live, Waiting, Turning
<1>1. CASE BeginStop(c)
  BY <1>1, ZenonT(60) DEF BeginStop, Called, CancelLoop
<1>2. CASE EndDaemon(c)
  BY <1>2 DEF EndDaemon, tasks, history
<1>3. CASE KillDaemon(c)
  BY <1>3 DEF KillDaemon, tasks, history
<1>4. CASE FailStop(c)
  BY <1>4 DEF FailStop, tasks, history
<1> QED BY <1>1, <1>2, <1>3, <1>4 DEF StopStep

\* So do the tasks and the daemon.
LEMMA TaskOwned ==
  ASSUME LifecycleInv, NEW k \in Start, LoopStep(k) \/ HealthStep(k) \/ ExitDaemon(k)
  PROVE  OwnedInv'
<1> USE DEF LifecycleInv, TypeOK, OwnedInv, OneCall, Owned, InProgress, Idle, Live, Turning
<1>1. CASE LoopStep(k)
  BY <1>1 DEF LoopStep, MineBlock, EndInference, Rested, Turn, engine, calls, history
<1>2. CASE HealthStep(k)
  BY <1>2 DEF HealthStep, BeginCheck, EndCheck, engine, calls, history
<1>3. CASE ExitDaemon(k)
  BY <1>3 DEF ExitDaemon, engine, tasks, calls, history
<1> QED BY <1>1, <1>2, <1>3

\* LifecycleInv is inductive.
LEMMA NextInv == LifecycleInv /\ [Next]_vars => LifecycleInv'
<1> SUFFICES ASSUME LifecycleInv, [Next]_vars PROVE LifecycleInv'
  OBVIOUS
<1>1. ASSUME TypeOK', HonestInv', OwnedInv' PROVE LifecycleInv'
  BY <1>1 DEF LifecycleInv, HonestInv, OwnedInv
<1>2. ASSUME NEW k \in Start, BeginStart(k) \/ RefuseStart(k) \/ StartStep(k) PROVE LifecycleInv'
  BY <1>1, <1>2, StartTypes, StartHonest, StartOwned
<1>3. ASSUME NEW k \in Start, LoopStep(k) \/ HealthStep(k) \/ ExitDaemon(k) PROVE LifecycleInv'
  BY <1>1, <1>3, TaskTypes, TaskHonest, TaskOwned
<1>4. ASSUME NEW c \in Stop, BeginStop(c) \/ StopStep(c) PROVE LifecycleInv'
  BY <1>1, <1>4, StopTypes, StopHonest, StopOwned
<1>5. CASE UNCHANGED vars
  BY <1>5 DEF vars, engine, manager, tasks, calls, history, LifecycleInv, TypeOK, LostLoop, Stopping,
              OneCall, InProgress, Owned, Idle, Live
<1>6. ASSUME NEW k \in Start, NEW c \in Stop, Toggle(k, c) PROVE LifecycleInv'
  BY <1>2, <1>4, <1>6 DEF Toggle
<1> QED BY <1>2, <1>3, <1>4, <1>5, <1>6 DEF Next

\* LifecycleInv holds in every state.
LEMMA InvHolds == Spec => []LifecycleInv
  BY InitInv, NextInv, PTL DEF Spec

\* The types of the variables; a task that is kept has not ended.
THEOREM LifecycleTypes == Spec => []TypeOK
  BY InvHolds, InvImplies, PTL

\* Miner.start and stop, called one after the other, leave one mining loop at
\* most, which runs with everything it needs.
THEOREM SingleLoop == Spec => []LoopOwned
  BY InvHolds, InvImplies, PTL

\* stats.status tells the truth however start and stop overlap.
THEOREM StatusIsHonest == Spec => []StatusHonest
  BY InvHolds, InvImplies, PTL

=============================================================================
