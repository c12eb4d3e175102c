----------------------------- MODULE NodeProofs -----------------------------
(***************************************************************************)
(* Theorems about the parts of one node that keep their own books: the     *)
(* routing table (Peers), the engine (Engine) and the registry of miners   *)
(* (Registry), for any values of their constants.                          *)
(***************************************************************************)
EXTENDS Peers, Engine, Registry, FiniteSetTheorems, SequenceTheorems, TLAPS

-----------------------------------------------------------------------------
(***************************************************************************)
(* The routing table.  BooksAgree bounds a bucket by its cardinality,      *)
(* which says nothing of an infinite set: the inductive invariant adds     *)
(* that buckets are finite.                                                *)
(***************************************************************************)

FiniteBuckets == \A i \in Index : IsFiniteSet(buckets[i])

TableInv == PeersTypeOK /\ BooksAgree /\ FiniteBuckets

\* DHT.add_peer keeps the books, whether the bucket takes the peer or not.
LEMMA AddKeeps ==
  ASSUME TableInv, NEW m \in Peer, add_peer(m)
  PROVE  /\ buckets' \in [Index -> SUBSET Peer]
         /\ lastSeen' \in [Peer -> 0 .. DeadTime + 1 \cup {Unlisted}]
         /\ scored' \subseteq Peer
         /\ BooksAgree'
         /\ FiniteBuckets'
<1> USE PeersAssumption
<1>1. CASE ~Accepts(m)
  BY <1>1 DEF add_peer, table, TableInv, PeersTypeOK, BooksAgree, FiniteBuckets
<1>2. CASE Accepts(m)
  <2> DEFINE i == BucketOf[m]
  <2>1. /\ buckets' = [buckets EXCEPT ![i] = @ \cup {m}]
        /\ lastSeen' = [lastSeen EXCEPT ![m] = 0]
        /\ scored' = scored \cup {m}
    BY <1>2 DEF add_peer
  <2>2. i \in Index /\ \A n \in Peer : BucketOf[n] \in Index
    BY DEF Index
  <2>3. /\ buckets' \in [Index -> SUBSET Peer]
        /\ lastSeen' \in [Peer -> 0 .. DeadTime + 1 \cup {Unlisted}]
        /\ scored' \subseteq Peer
    BY <2>1, <2>2 DEF TableInv, PeersTypeOK
  <2>4. IsFiniteSet(buckets[i]) /\ Cardinality(buckets[i]) \in Nat
    BY <2>2, FS_CardinalityType DEF TableInv, FiniteBuckets
  <2>5. IsFiniteSet(buckets[i] \cup {m}) /\ Cardinality(buckets[i] \cup {m}) <= K
    <3>1. Cardinality(buckets[i]) <= K
      BY DEF TableInv, BooksAgree
    <3>2. m \in buckets[i] \/ Cardinality(buckets[i]) < K
      BY <1>2 DEF Accepts
    <3>3. /\ IsFiniteSet(buckets[i] \cup {m})
          /\ Cardinality(buckets[i] \cup {m})
               = IF m \in buckets[i] THEN Cardinality(buckets[i]) ELSE Cardinality(buckets[i]) + 1
      BY <2>4, FS_AddElement
    <3> QED BY <2>4, <3>1, <3>2, <3>3
  <2>6. \A k \in Index : buckets'[k] = IF k = i THEN buckets[i] \cup {m} ELSE buckets[k]
    BY <2>1, <2>2 DEF TableInv, PeersTypeOK
  <2>7. FiniteBuckets'
    BY <2>5, <2>6 DEF TableInv, FiniteBuckets
  <2>8. BooksAgree'
    <3> SUFFICES ASSUME NEW n \in Peer
                 PROVE  /\ lastSeen'[n] # Unlisted <=> n \in buckets'[BucketOf[n]]
                        /\ lastSeen'[n] # Unlisted <=> n \in scored'
                        /\ Cardinality(buckets'[BucketOf[n]]) <= K
      BY DEF BooksAgree
    <3>1. lastSeen'[n] = IF n = m THEN 0 ELSE lastSeen[n]
      BY <2>1 DEF TableInv, PeersTypeOK
    <3>2. Cardinality(buckets'[BucketOf[n]]) <= K
      BY <2>2, <2>5, <2>6 DEF TableInv, BooksAgree
    <3> QED BY <2>1, <2>2, <2>6, <3>1, <3>2 DEF TableInv, BooksAgree
  <2> QED BY <2>3, <2>7, <2>8
<1> QED BY <1>1, <1>2

\* So does DHT.remove_peer, for any peers that the discovery loop prunes.
LEMMA RemoveKeeps ==
  ASSUME TableInv, NEW gone \in SUBSET Peer, remove_peers(gone)
  PROVE  /\ buckets' \in [Index -> SUBSET Peer]
         /\ lastSeen' \in [Peer -> 0 .. DeadTime + 1 \cup {Unlisted}]
         /\ scored' \subseteq Peer
         /\ BooksAgree'
         /\ FiniteBuckets'
<1> USE PeersAssumption
<1>1. \A n \in Peer : BucketOf[n] \in Index
  BY DEF Index
<1>2. /\ \A i \in Index : buckets'[i] = buckets[i] \ gone
      /\ \A n \in Peer : lastSeen'[n] = IF n \in gone THEN Unlisted ELSE lastSeen[n]
      /\ scored' = scored \ gone
  BY DEF remove_peers
<1>3. /\ buckets' \in [Index -> SUBSET Peer]
      /\ lastSeen' \in [Peer -> 0 .. DeadTime + 1 \cup {Unlisted}]
      /\ scored' \subseteq Peer
  BY DEF remove_peers, TableInv, PeersTypeOK
<1>4. \A i \in Index : /\ IsFiniteSet(buckets[i]) /\ Cardinality(buckets[i]) \in Nat
                       /\ IsFiniteSet(buckets'[i]) /\ Cardinality(buckets'[i]) \in Nat
                       /\ Cardinality(buckets'[i]) <= Cardinality(buckets[i])
  <2> TAKE i \in Index
  <2>1. IsFiniteSet(buckets[i]) /\ buckets'[i] \in SUBSET buckets[i]
    BY <1>2 DEF TableInv, FiniteBuckets
  <2> QED BY <2>1, FS_Subset, FS_CardinalityType
<1>5. BooksAgree'
  <2> SUFFICES ASSUME NEW n \in Peer
               PROVE  /\ lastSeen'[n] # Unlisted <=> n \in buckets'[BucketOf[n]]
                      /\ lastSeen'[n] # Unlisted <=> n \in scored'
                      /\ Cardinality(buckets'[BucketOf[n]]) <= K
    BY DEF BooksAgree
  <2>1. Cardinality(buckets'[BucketOf[n]]) <= K
    BY <1>1, <1>4 DEF TableInv, BooksAgree
  <2> QED BY <1>1, <1>2, <2>1 DEF TableInv, BooksAgree
<1> QED BY <1>3, <1>4, <1>5 DEF FiniteBuckets

\* Every step of the node, its peers and time keeps the books.
LEMMA TableStep == TableInv /\ [PeersNext]_peersVars => TableInv'
<1> SUFFICES ASSUME TableInv, [PeersNext]_peersVars PROVE TableInv'
  OBVIOUS
<1> USE PeersAssumption
<1>1. CASE UNCHANGED peersVars
  BY <1>1 DEF peersVars, table, links, discovery, TableInv, PeersTypeOK, BooksAgree, FiniteBuckets
<1>2. CASE PeersTick
  <2>1. \A n \in Peer : lastSeen'[n] # Unlisted <=> lastSeen[n] # Unlisted
    BY <1>2 DEF PeersTick, TableInv, PeersTypeOK
  <2>2. lastSeen' \in [Peer -> 0 .. DeadTime + 1 \cup {Unlisted}]
    BY <1>2 DEF PeersTick, TableInv, PeersTypeOK
  <2> QED BY <1>2, <2>1, <2>2 DEF PeersTick, links, discovery, TableInv, PeersTypeOK, BooksAgree, FiniteBuckets
<1>3. ASSUME NEW m \in Peer, Ends(m) \/ Returns(m) \/ Reconnect(m)
      PROVE  TableInv'
  BY <1>3 DEF Ends, Returns, Reconnect, connect, table, links, discovery,
              TableInv, PeersTypeOK, BooksAgree, FiniteBuckets
<1>4. ASSUME NEW m \in Peer, connect_to_peer(m)
      PROVE  TableInv'
  BY <1>4, AddKeeps DEF connect_to_peer, connect, links, discovery, TableInv, PeersTypeOK
<1>5. ASSUME NEW m \in Peer, Pong(m)
      PROVE  TableInv'
  <2>1. \A n \in Peer : lastSeen'[n] # Unlisted <=> lastSeen[n] # Unlisted
    BY <1>5 DEF Pong, TableInv, PeersTypeOK
  <2> QED BY <1>5, <2>1 DEF Pong, links, discovery, TableInv, PeersTypeOK, BooksAgree, FiniteBuckets
<1>6. ASSUME NEW m \in Peer, PeerList(m)
      PROVE  TableInv'
  BY <1>6, AddKeeps DEF PeerList, links, discovery, TableInv, PeersTypeOK
<1>7. CASE BeginRound \/ Ask
  BY <1>7 DEF BeginRound, Ask, table, links, TableInv, PeersTypeOK, BooksAgree, FiniteBuckets
<1>8. CASE Prune
  <2>1. {m \in Peer : lastSeen[m] # Unlisted /\ lastSeen[m] > DeadTime} \in SUBSET Peer
    OBVIOUS
  <2> QED BY <1>8, <2>1, RemoveKeeps DEF Prune, links, TableInv, PeersTypeOK
<1> QED BY <1>1, <1>2, <1>3, <1>4, <1>5, <1>6, <1>7, <1>8 DEF PeersNext

\* The initial states satisfy TableInv.
LEMMA TableInit == PeersInit => TableInv
BY PeersAssumption, FS_EmptySet
DEF PeersInit, Index, TableInv, PeersTypeOK, BooksAgree, FiniteBuckets

\* The buckets, _known_peers and the scores name the same peers, and no bucket
\* holds more than K, however peers are refused, replaced, pruned and added
\* again (DHT and KBucket).
THEOREM TableBooksAgree == PeersSpec => []BooksAgree
<1>1. TableInv => BooksAgree
  BY DEF TableInv
<1> QED BY <1>1, TableInit, TableStep, PTL DEF PeersSpec

\* The node is connected only with peers among the addresses that the program
\* gave to connect_to_peer: neither a list of peers nor the discovery loop
\* adds another connection.
THEOREM ConnectedByAddress == PeersSpec => [](conn \cup todo \subseteq addresses)
<1> DEFINE Inv == conn \cup todo \subseteq addresses
<1>1. PeersInit => Inv
  BY DEF PeersInit
<1>2. PeersTypeOK /\ Inv /\ [PeersNext]_peersVars => Inv'
  BY DEF PeersTypeOK, PeersNext, peersVars, table, links, discovery, PeersTick, Ends, Returns,
         connect_to_peer, connect, Pong, PeerList, BeginRound, Reconnect, Ask, Prune
<1>3. TableInv => PeersTypeOK
  BY DEF TableInv
<1> QED BY <1>1, <1>2, <1>3, TableInit, TableStep, PTL DEF PeersSpec

-----------------------------------------------------------------------------
(***************************************************************************)
(* The engine and its own results, for any jobs, outputs and times.        *)
(***************************************************************************)

\* No result passes: what submit_job commits to is never what
\* verify_tensor_commitment expects.
LEMMA NeverVerified ==
  ASSUME NEW output, NEW duration
  PROVE  Verification(output, duration) = "violation"
<1>1. Committed(output)[1] # Expected[1]
  BY DEF Committed, Expected
<1> QED BY <1>1 DEF Verification, verify_tensor_commitment

\* SlashedForWork with the moment of the last violation.
SlashInv ==
  /\ worked \in Nat /\ now \in Nat
  /\ violations = worked /\ slashedAt = lastWork
  /\ outcome # "raised"

\* SlashInv is inductive.
LEMMA SlashStep == SlashInv /\ [EngineNext]_engineVars => SlashInv'
<1> SUFFICES ASSUME SlashInv, [EngineNext]_engineVars PROVE SlashInv'
  OBVIOUS
<1>1. ASSUME NEW output \in Output, NEW duration \in Duration, Result(output, duration)
      PROVE  SlashInv'
  BY <1>1, NeverVerified DEF Result, record_violation, SlashInv
<1>2. CASE TimePasses
  BY <1>2 DEF TimePasses, mineVars, slashVars, SlashInv
<1>3. CASE clear_violations
  BY <1>3 DEF clear_violations, mineVars, SlashInv
<1>4. CASE NoResult
  BY <1>4 DEF NoResult, slashVars, SlashInv
<1>5. CASE Toggle \/ UNCHANGED engineVars
  BY <1>5 DEF Toggle, engineVars, mineVars, slashVars, SlashInv
<1>6. ASSUME NEW j \in Job, Announced(j) \/ Claimed(j) \/ Left(j) \/ TakeSubnetJob(j) \/ TakeOwnJob(j)
      PROVE  SlashInv'
  BY <1>6 DEF Announced, Claimed, Left, TakeSubnetJob, TakeOwnJob, slashVars, SlashInv
<1>7. ASSUME NEW header \in Header, ReceiveBlock(header)
      PROVE  SlashInv'
  BY <1>7 DEF ReceiveBlock, mineVars, slashVars, SlashInv
<1> QED BY <1>1, <1>2, <1>3, <1>4, <1>5, <1>6, <1>7 DEF EngineNext

\* A miner is slashed for exactly the results it computed: record_violation is
\* called for each of them by its own mine_block, and is_slashed holds for a
\* SlashPeriod after the last one.
THEOREM WorkIsSlashed == EngineSpec => []SlashedForWork
<1>1. EngineInit => SlashInv
  BY DEF EngineInit, SlashInv
<1>2. SlashInv => SlashedForWork
  BY DEF SlashInv, SlashedForWork, is_slashed
<1> QED BY <1>1, <1>2, SlashStep, PTL DEF EngineSpec

\* A quarter up or down of a natural number, cut off to a whole one.
LEMMA Quarters ==
  ASSUME NEW d \in Nat
  PROVE  /\ (5 * d) \div 4 \in Nat /\ (5 * d) \div 4 >= d
         /\ (5 * d) \div 4 > d <=> d >= 4
         /\ (3 * d) \div 4 \in Nat /\ (3 * d) \div 4 <= d
OBVIOUS

\* The quotient by a positive number.
LEMMA Division ==
  ASSUME NEW n \in Nat, NEW a \in Nat \ {0}
  PROVE  /\ n \div a \in Nat
         /\ a * (n \div a) <= n /\ n < a * (n \div a) + a
         /\ n % a = 0 => a * (n \div a) = n
OBVIOUS

\* Multiplication by a positive number keeps the order, both ways.
LEMMA Monotone ==
  ASSUME NEW x \in Int, NEW y \in Int, NEW a \in Nat \ {0}
  PROVE  /\ a * x <= a * y => x <= y
         /\ a * x < a * y => x < y
         /\ x < y => a * x < a * y
OBVIOUS

\* What the ratio makes of a difficulty is no smaller when the blocks came
\* faster than wanted, and no greater when they came slower, also when the
\* rounding of the product takes one off.
LEMMA ScaledFollows ==
  ASSUME ActualTime \in Nat \ {0}, WantedTime \in Nat \ {0},
         NEW d \in Nat \ {0}, NEW p \in Scaled(d)
  PROVE  /\ p \in Int
         /\ ActualTime < WantedTime => p >= d
         /\ ActualTime > WantedTime => p <= d
         /\ 5 * ActualTime <= 4 * WantedTime => (p > d <=> d >= 4) /\ p >= d
<1> DEFINE A == ActualTime
           W == WantedTime
           q == (d * W) \div A
<1>1. CASE 4 * W >= 5 * A
  <2>1. p = (5 * d) \div 4
    BY <1>1 DEF Scaled
  <2> QED BY <1>1, <2>1, Quarters
<1>2. CASE ~(4 * W >= 5 * A) /\ 4 * W <= 3 * A
  <2>1. p = (3 * d) \div 4
    BY <1>2 DEF Scaled
  <2> QED BY <1>2, <2>1, Quarters
<1>3. CASE ~(4 * W >= 5 * A) /\ ~(4 * W <= 3 * A)
  <2>1. p = q \/ (p = q - 1 /\ (d * W) % A = 0 /\ W # A)
    BY <1>3 DEF Scaled
  <2> HIDE DEF q
  <2>2. d * W \in Nat /\ d * A \in Nat /\ A * d = d * A
    OBVIOUS
  <2>3. q \in Nat /\ A * q <= d * W /\ d * W < A * q + A /\ ((d * W) % A = 0 => A * q = d * W)
    BY <2>2, Division DEF q
  <2>4. ASSUME A < W PROVE p >= d
    <3>1. A * d < d * W
      BY <2>4, <2>2, Monotone
    <3>2. A * d < A * q + A /\ A * q + A = A * (q + 1)
      BY <2>2, <2>3, <3>1
    <3>3. d < q + 1
      BY <2>3, <3>2, Monotone
    <3>4. (d * W) % A = 0 => d < q
      BY <2>3, <3>1, Monotone
    <3> QED BY <2>1, <2>3, <3>3, <3>4
  <2>5. ASSUME A > W PROVE p <= d
    <3>1. d * W < A * d
      BY <2>5, <2>2, Monotone
    <3>2. A * q < A * d
      BY <2>2, <2>3, <3>1
    <3>3. q < d
      BY <2>3, <3>2, Monotone
    <3> QED BY <2>1, <2>3, <3>3
  <2>6. p \in Int
    BY <2>1, <2>3
  <2> QED BY <1>3, <2>4, <2>5, <2>6
<1> QED BY <1>1, <1>2, <1>3

ChainTyped == chain \in Seq(Header) /\ Len(chain) >= 1

\* ChainTyped is inductive.
LEMMA ChainStep == ChainTyped /\ [EngineNext]_engineVars => ChainTyped'
<1> SUFFICES ASSUME ChainTyped, [EngineNext]_engineVars PROVE ChainTyped'
  OBVIOUS
<1>1. ASSUME NEW header \in Header, ReceiveBlock(header)
      PROVE  ChainTyped'
  BY <1>1 DEF ReceiveBlock, ChainTyped
<1>2. CASE UNCHANGED chain
  BY <1>2 DEF ChainTyped
<1>3. UNCHANGED chain \/ \E header \in Header : ReceiveBlock(header)
  BY DEF EngineNext, engineVars, TimePasses, Toggle, Announced, Claimed, Left, clear_violations,
         TakeSubnetJob, TakeOwnJob, NoResult, Result
<1> QED BY <1>1, <1>2, <1>3

\* The window of calculate_difficulty is not empty from the second block on.
LEMMA WindowTyping ==
  ASSUME ChainTyped, Len(chain) > 1
  PROVE  /\ Tip.difficulty \in MinDifficulty .. MaxDifficulty
         /\ ActualTime \in Int /\ WantedTime \in Nat \ {0}
<1>1. First \in 1 .. Len(chain) - 1
  BY EngineAssumption DEF First, Higher, ChainTyped
<1>2. chain[First] \in Header /\ Tip \in Header
  BY <1>1 DEF Tip, ChainTyped
<1>3. Tip.difficulty \in MinDifficulty .. MaxDifficulty /\ ActualTime \in Int
  <2>1. \A h \in Header : h.time \in Nat /\ h.difficulty \in MinDifficulty .. MaxDifficulty
    BY EngineAssumption DEF Header
  <2> QED BY <1>2, <2>1 DEF ActualTime
<1>4. WantedTime \in Nat \ {0}
  <2>1. Len(chain) - First \in Nat \ {0}
    BY <1>1 DEF ChainTyped
  <2> QED BY <2>1, EngineAssumption DEF WantedTime
<1> QED BY <1>3, <1>4

\* calculate_difficulty follows the pace of the blocks in its window, for any
\* timestamps and difficulties of the blocks of other nodes, up to the
\* rounding that keeps a difficulty under four from rising.
THEOREM PaceIsFollowed == EngineSpec => []DifficultyFollowsPace
<1>1. EngineInit => ChainTyped
  BY EngineAssumption DEF EngineInit, ChainTyped, Header
<1>2. ChainTyped => DifficultyFollowsPace
  <2> SUFFICES ASSUME ChainTyped, Len(chain) > 1, ActualTime > 0, NEW d \in calculate_difficulty
               PROVE  /\ ActualTime < WantedTime => d >= Lower(MaxDifficulty, Tip.difficulty)
                      /\ ActualTime > WantedTime => d <= Tip.difficulty
                      /\ 5 * ActualTime <= 4 * WantedTime /\ Tip.difficulty < MaxDifficulty
                           => (d > Tip.difficulty <=> Tip.difficulty >= 4)
    BY DEF DifficultyFollowsPace
  <2>1. /\ Tip.difficulty \in MinDifficulty .. MaxDifficulty
        /\ ActualTime \in Nat \ {0} /\ WantedTime \in Nat \ {0}
    BY WindowTyping
  <2>2. Tip.difficulty \in Nat \ {0} /\ MinDifficulty \in Nat /\ MaxDifficulty \in Nat
    BY <2>1, EngineAssumption
  <2>3. PICK p \in Scaled(Tip.difficulty) : d = Higher(MinDifficulty, Lower(MaxDifficulty, p))
    BY <2>1 DEF calculate_difficulty, ChainTyped
  <2>4. /\ p \in Int
        /\ ActualTime < WantedTime => p >= Tip.difficulty
        /\ ActualTime > WantedTime => p <= Tip.difficulty
        /\ 5 * ActualTime <= 4 * WantedTime
             => (p > Tip.difficulty <=> Tip.difficulty >= 4) /\ p >= Tip.difficulty
    BY <2>1, <2>2, ScaledFollows
  <2> QED BY <2>1, <2>2, <2>3, <2>4 DEF Higher, Lower
<1> QED BY <1>1, <1>2, ChainStep, PTL DEF EngineSpec

-----------------------------------------------------------------------------
(***************************************************************************)
(* The registry of miners and the instances.  NobodyExcluded needs that    *)
(* the score in a record, which was copied when the miner announced itself *)
(* or was rewarded, is no lower than a newcomer's either;                  *)
(* InferenceStaysHome that every record names the host which               *)
(* orchestrator.start gives, from which the addresses in the table come.   *)
(***************************************************************************)

ScoresUp ==
  /\ \A m \in Remote : scores[m] >= StartScore
  /\ \A m \in Remote : known[m] # Absent => known[m].score >= StartScore

HomeAddresses ==
  /\ \A m \in Remote : known[m] # Absent => known[m].host = Loopback
  /\ \A a \in Address : instances[a] # Absent => a[1] = Loopback

RegistryInv == TypeOK /\ ScoresUp /\ HomeAddresses

\* The initial states satisfy RegistryInv.
LEMMA RegistryInit == Init => RegistryInv
<1> SUFFICES ASSUME Init PROVE RegistryInv
  OBVIOUS
<1>1. Local \in Address /\ Local[1] = Loopback /\ "UNKNOWN" \in Status /\ Absent \notin Status
  BY RegistryAssumption DEF Local, Address, Host, Status
<1>2. /\ instances \in [Address -> Status \cup {Absent}] /\ instances[Local] # Absent
      /\ \A a \in Address : instances[a] # Absent => a[1] = Loopback
  BY <1>1 DEF Init
<1>3. loop \in [Loop -> [at: {"none", "sleep", "send", "stray"}, time: 0 .. EvictTime + 1]]
  BY RegistryAssumption DEF Init, Ended
<1>4. /\ scores \in [Remote -> 0 .. MaxScore] /\ ScoresUp
      /\ known \in [Remote -> Record \cup {Absent}]
      /\ \A m \in Remote : known[m] = Absent
  BY RegistryAssumption DEF Init, ScoresUp
<1> QED BY <1>1, <1>2, <1>3, <1>4 DEF Init, RegistryInv, TypeOK, HomeAddresses

\* A score that a reward raises stays a score, and is not lower than before.
LEMMA Raised ==
  ASSUME NEW s \in 0 .. MaxScore, NEW step \in Nat
  PROVE  AtMost(MaxScore, s + step) \in 0 .. MaxScore /\ AtMost(MaxScore, s + step) >= s
BY RegistryAssumption DEF AtMost

\* The age of a record and the time of a loop are cut off where nothing
\* depends on them any more.
LEMMA OlderTyping ==
  ASSUME NEW age \in 0 .. EvictTime + 1
  PROVE  Older(age) \in 0 .. EvictTime + 1
BY RegistryAssumption DEF Older

\* A record that handle_miner_register or a reward writes.
LEMMA RecordFields ==
  ASSUME TypeOK, NEW m \in Remote, known[m] # Absent
  PROVE  /\ known[m] \in Record
         /\ known[m].host \in Host /\ known[m].port \in Port
         /\ known[m].fresh \in BOOLEAN /\ known[m].score \in 0 .. MaxScore
         /\ AddressOf(m) \in Address
<1>1. known[m] \in Record
  BY DEF TypeOK
<1> QED BY <1>1 DEF Record, AddressOf, Address

\* The announce loops, the sweep and the steps of start and stop keep the
\* types of what they change.
LEMMA LoopsTyped ==
  ASSUME TypeOK, [Next]_vars
  PROVE  /\ running' \in BOOLEAN /\ starting' \in BOOLEAN
         /\ loop' \in [Loop -> [at: {"none", "sleep", "send", "stray"}, time: 0 .. EvictTime + 1]]
         /\ own' \in 0 .. EvictTime + 1 \cup {Absent}
         /\ registered' \in BOOLEAN /\ stalled' \in BOOLEAN
<1> DEFINE Cell == [at: {"none", "sleep", "send", "stray"}, time: 0 .. EvictTime + 1]
           Good == /\ running' \in BOOLEAN /\ starting' \in BOOLEAN
                   /\ loop' \in [Loop -> Cell]
                   /\ own' \in 0 .. EvictTime + 1 \cup {Absent}
                   /\ registered' \in BOOLEAN /\ stalled' \in BOOLEAN
<1>1. /\ running \in BOOLEAN /\ starting \in BOOLEAN
      /\ loop \in [Loop -> Cell] /\ own \in 0 .. EvictTime + 1 \cup {Absent}
      /\ registered \in BOOLEAN /\ stalled \in BOOLEAN
  BY DEF TypeOK
<1>2. Ended \in Cell /\ Asleep \in Cell /\ AfterIteration \in Cell
  BY RegistryAssumption DEF Ended, Asleep, AfterIteration
<1>3. Astray(loop) \in [Loop -> Cell]
  BY <1>1 DEF Astray
<1>4. CASE UNCHANGED loopVars
  BY <1>1, <1>4 DEF loopVars
<1>5. CASE Tick
  <2>1. own' \in 0 .. EvictTime + 1 \cup {Absent}
    BY <1>1, <1>5, OlderTyping DEF Tick
  <2>2. ASSUME NEW l \in Loop
        PROVE  (CASE loop[l].at = "none" -> Ended
                  [] loop[l].at = "sleep" -> [loop[l] EXCEPT !.time = @ - 1]
                  [] OTHER -> [loop[l] EXCEPT !.time = Older(@)]) \in Cell
    <3>1. loop[l] \in Cell /\ loop[l].time \in 0 .. EvictTime + 1
      BY <1>1
    <3>2. CASE loop[l].at = "none"
      BY <3>2, <1>2
    <3>3. CASE loop[l].at = "sleep"
      <4>1. loop[l].time - 1 \in 0 .. EvictTime + 1
        BY <3>1, <3>3, <1>5, RegistryAssumption DEF Tick
      <4> QED BY <3>1, <3>3, <4>1
    <3>4. CASE loop[l].at \notin {"none", "sleep"}
      BY <3>1, <3>4, OlderTyping
    <3> QED BY <3>2, <3>3, <3>4
  <2>3. loop' \in [Loop -> Cell]
    BY <1>5, <2>2 DEF Tick
  <2> QED BY <1>1, <1>5, <2>1, <2>3 DEF Tick
<1>6. ASSUME NEW l \in Loop, Wake(l) \/ Sent(l)
      PROVE  Good
  <2>1. [at |-> "send", time |-> 0] \in Cell
    BY RegistryAssumption
  <2>2. loop' \in [Loop -> Cell]
    BY <1>1, <1>2, <1>6, <2>1 DEF Wake, Sent
  <2>3. own' \in 0 .. EvictTime + 1 \cup {Absent}
    BY <1>1, <1>6, RegistryAssumption DEF Wake, Sent, Refreshed
  <2> QED BY <1>1, <1>6, <2>2, <2>3 DEF Wake, Sent
<1>7. ASSUME NEW dead \in SUBSET Remote, Sweep(dead)
      PROVE  Good
  BY <1>1, <1>3, <1>7 DEF Sweep
<1>8. CASE Start
  <2>1. loop' \in [Loop -> Cell]
    BY <1>1, <1>2, <1>8 DEF Start, Loop
  <2> QED BY <1>1, <1>8, <2>1 DEF Start
<1>9. CASE StartFails \/ Registers \/ Stop
  <2>1. loop' \in [Loop -> Cell]
    BY <1>1, <1>2, <1>3, <1>9 DEF StartFails, Registers, Stop
  <2>2. own' \in 0 .. EvictTime + 1 \cup {Absent}
    BY <1>1, <1>9, RegistryAssumption DEF StartFails, Registers, Stop
  <2> QED BY <1>1, <1>9, <2>1, <2>2 DEF StartFails, Registers, Stop
<1>10. UNCHANGED loopVars \/ Tick \/ (\E l \in Loop : Wake(l) \/ Sent(l))
       \/ (\E dead \in SUBSET Remote : Sweep(dead)) \/ Start \/ StartFails \/ Registers \/ Stop
  BY DEF Next, vars, ReceiveRegister, Reward, GrowStale, check_instance_health, InferenceFails
<1> QED BY <1>4, <1>5, <1>6, <1>7, <1>8, <1>9, <1>10

\* The steps that change the records and the scores, or leave them alone.
MinerBooks ==
  /\ known \in [Remote -> Record \cup {Absent}]
  /\ scores \in [Remote -> 0 .. MaxScore]
  /\ ScoresUp
  /\ \A m \in Remote : known[m] # Absent => known[m].host = Loopback

\* A step keeps the books on miners.
LEMMA MinersKept ==
  ASSUME RegistryInv, [Next]_vars
  PROVE  MinerBooks'
<1>1. MinerBooks
  BY DEF RegistryInv, TypeOK, HomeAddresses, MinerBooks
<1>2. Absent \notin Record
  BY RegistryAssumption
<1>3. CASE UNCHANGED minerVars
  BY <1>1, <1>3 DEF minerVars, MinerBooks, ScoresUp
<1>4. ASSUME NEW m \in Remote, NEW port \in Port, handle_miner_register(m, "object", port)
      PROVE  MinerBooks'
  <2>1. scores[m] \in 0 .. MaxScore /\ scores[m] >= StartScore
    BY <1>1 DEF MinerBooks, ScoresUp
  <2>2. /\ Listed(m, port) \in Record
        /\ Listed(m, port).host = Loopback /\ Listed(m, port).score = scores[m]
    BY <2>1 DEF Listed, Record, Host, AnnouncedHost
  <2>3. /\ AtMost(MaxScore, scores[m] + RegisterStep) \in 0 .. MaxScore
        /\ AtMost(MaxScore, scores[m] + RegisterStep) >= StartScore
    BY <2>1, Raised, RegistryAssumption
  <2> QED BY <1>1, <1>4, <2>1, <2>2, <2>3 DEF handle_miner_register, MinerBooks, ScoresUp
<1>5. ASSUME NEW m \in Remote, Reward(m)
      PROVE  MinerBooks'
  <2> DEFINE s == AtMost(MaxScore, scores[m] + ResultStep)
  <2>1. s \in 0 .. MaxScore /\ s >= StartScore
    BY <1>1, Raised, RegistryAssumption DEF MinerBooks, ScoresUp
  <2>2. scores' = [scores EXCEPT ![m] = s]
    BY <1>5 DEF Reward
  <2>3. known' = IF known[m] = Absent THEN known ELSE [known EXCEPT ![m].score = s]
    BY <1>5 DEF Reward
  <2> HIDE DEF s
  <2>4. CASE known[m] = Absent
    BY <1>1, <2>1, <2>2, <2>3, <2>4 DEF MinerBooks, ScoresUp
  <2>5. CASE known[m] # Absent
    <3>1. known[m] \in Record /\ known[m].host = Loopback
      BY <1>1, <2>5 DEF MinerBooks
    <3>2. /\ [known[m] EXCEPT !.score = s] \in Record
          /\ [known[m] EXCEPT !.score = s].host = Loopback
          /\ [known[m] EXCEPT !.score = s].score = s
      BY <2>1, <3>1 DEF Record
    <3>3. known' = [known EXCEPT ![m] = [known[m] EXCEPT !.score = s]]
      BY <2>3, <2>5
    <3> QED BY <1>1, <2>1, <2>2, <3>2, <3>3 DEF MinerBooks, ScoresUp
  <2> QED BY <2>4, <2>5
<1>6. ASSUME NEW m \in Remote, GrowStale(m)
      PROVE  MinerBooks'
  <2>1. known[m] \in Record /\ known[m].host = Loopback /\ known[m].score >= StartScore
    BY <1>1, <1>6 DEF GrowStale, MinerBooks, ScoresUp
  <2>2. /\ [known[m] EXCEPT !.fresh = FALSE] \in Record
        /\ [known[m] EXCEPT !.fresh = FALSE].host = Loopback
        /\ [known[m] EXCEPT !.fresh = FALSE].score = known[m].score
    BY <2>1 DEF Record
  <2>3. known' = [known EXCEPT ![m] = [known[m] EXCEPT !.fresh = FALSE]] /\ scores' = scores
    BY <1>6 DEF GrowStale
  <2> QED BY <1>1, <2>1, <2>2, <2>3 DEF MinerBooks, ScoresUp
<1>7. ASSUME NEW dead \in SUBSET Remote, Sweep(dead)
      PROVE  MinerBooks'
  BY <1>1, <1>7 DEF Sweep, MinerBooks, ScoresUp
<1>8. \/ UNCHANGED minerVars
      \/ \E m \in Remote, port \in Port : handle_miner_register(m, "object", port)
      \/ \E m \in Remote : Reward(m) \/ GrowStale(m)
      \/ \E dead \in SUBSET Remote : Sweep(dead)
  BY DEF Next, vars, minerVars, Tick, Wake, Sent, ReceiveRegister, check_instance_health,
         InferenceFails, Start, StartFails, Registers, Stop
<1> QED BY <1>3, <1>4, <1>5, <1>6, <1>7, <1>8

\* The table of instances only gets addresses of records.
InstanceBooks ==
  /\ instances \in [Address -> Status \cup {Absent}] /\ instances[Local] # Absent
  /\ active \in Address \cup {Absent}
  /\ active # Absent => instances[active] # Absent
  /\ \A a \in Address : instances[a] # Absent => a[1] = Loopback

\* A step keeps the books on instances.
LEMMA InstancesKept ==
  ASSUME RegistryInv, [Next]_vars
  PROVE  InstanceBooks'
<1>1. InstanceBooks
  BY DEF RegistryInv, TypeOK, HomeAddresses, InstanceBooks
<1>2. Absent \notin Status /\ Absent \notin Address /\ Local \in Address /\ Local[1] = Loopback
  BY RegistryAssumption DEF Local, Address, Host
<1>3. CASE UNCHANGED <<instances, active>>
  BY <1>1, <1>3 DEF InstanceBooks
<1>4. ASSUME NEW a \in Address, NEW status \in Status, instances[a] # Absent,
             instances' = [instances EXCEPT ![a] = status], active' = active
      PROVE  InstanceBooks'
  BY <1>1, <1>2, <1>4 DEF InstanceBooks
<1>5. ASSUME NEW a \in Address, check_instance_health(a)
      PROVE  InstanceBooks'
  BY <1>4, <1>5 DEF check_instance_health, Status
<1>6. CASE InferenceFails
  BY <1>1, <1>4, <1>6 DEF InferenceFails, InstanceBooks, Status
<1>7. CASE Registers
  <2>1. CASE active' \in Best /\ UNCHANGED instances
    <3>1. Best \subseteq Healthy
      BY DEF Best
    <3> QED BY <1>1, <1>2, <2>1, <3>1 DEF Healthy, Status, InstanceBooks
  <2>2. ASSUME NEW m \in Unconnected,
               instances' = [instances EXCEPT ![AddressOf(m)] = "UNKNOWN"], active' = AddressOf(m)
        PROVE  InstanceBooks'
    <3>1. m \in Remote /\ known[m] # Absent
      BY DEF Unconnected, Available
    <3>2. AddressOf(m) \in Address /\ AddressOf(m)[1] = Loopback
      BY <3>1, RecordFields DEF RegistryInv, HomeAddresses, AddressOf
    <3>3. "UNKNOWN" \in Status
      BY DEF Status
    <3> QED BY <1>1, <1>2, <2>2, <3>2, <3>3 DEF InstanceBooks
  <2> QED BY <1>3, <1>7, <2>1, <2>2 DEF Registers
<1>8. CASE Stop
  <2>1. "UNREACHABLE" \in Status
    BY DEF Status
  <2> QED BY <1>1, <1>2, <1>8, <2>1 DEF Stop, InstanceBooks
<1>9. \/ UNCHANGED <<instances, active>> \/ InferenceFails \/ Registers \/ Stop
      \/ \E a \in Address : check_instance_health(a)
  BY DEF Next, vars, Tick, Wake, Sent, ReceiveRegister, Reward, GrowStale, Sweep, Start, StartFails
<1> QED BY <1>3, <1>5, <1>6, <1>7, <1>8, <1>9

\* RegistryInv is inductive.
LEMMA RegistryStep == RegistryInv /\ [Next]_vars => RegistryInv'
BY LoopsTyped, MinersKept, InstancesKept
DEF RegistryInv, TypeOK, ScoresUp, HomeAddresses, MinerBooks, InstanceBooks

\* RegistryInv holds in every state.
LEMMA RegistryInvariant == Spec => []RegistryInv
BY RegistryInit, RegistryStep, PTL DEF Spec

\* The books of the registry keep their types, and the active instance is one
\* of the table.
THEOREM RegistryTypes == Spec => []TypeOK
<1>1. RegistryInv => TypeOK
  BY DEF RegistryInv
<1> QED BY <1>1, RegistryInvariant, PTL

\* No score falls under a newcomer's, so a minimum score up to that one takes
\* no fresh record out of get_available_miners: the branch of
\* handle_miner_register that lowers a score is never taken.
THEOREM NobodyIsExcluded == Spec => []NobodyExcluded
<1>1. RegistryInv => NobodyExcluded
  <2> SUFFICES ASSUME RegistryInv PROVE NobodyExcluded
    OBVIOUS
  <2>1. ASSUME NEW m \in Remote, known[m] # Absent, MinScore <= StartScore
        PROVE  known[m].score >= MinScore
    BY <2>1, RecordFields, RegistryAssumption DEF RegistryInv, ScoresUp
  <2> QED BY <2>1 DEF RegistryInv, ScoresUp, NobodyExcluded, Available
<1> QED BY <1>1, RegistryInvariant, PTL

\* Every address that check_instance_health, get_best_instance or
\* _get_best_p2p_instance can choose is one of this machine, whatever other
\* miners announce.
THEOREM InferenceIsLocal == Spec => []InferenceStaysHome
<1>1. RegistryInv => InferenceStaysHome
  <2> SUFFICES ASSUME RegistryInv PROVE InferenceStaysHome
    OBVIOUS
  <2>1. ASSUME NEW a \in Address, instances[a] # Absent
        PROVE  Machine(a[1]) = Self
    BY <2>1 DEF RegistryInv, HomeAddresses, Machine
  <2>2. ASSUME NEW m \in Remote, known[m] # Absent, known[m].port = LocalPort
        PROVE  m \notin Unconnected
    BY <2>2 DEF RegistryInv, HomeAddresses, TypeOK, Unconnected, AddressOf, Local
  <2> QED BY <2>1, <2>2 DEF InferenceStaysHome
<1> QED BY <1>1, RegistryInvariant, PTL

=============================================================================
