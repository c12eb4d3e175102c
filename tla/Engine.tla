------------------------------- MODULE Engine -------------------------------
(***************************************************************************)
(* The consensus engine of one miner (consensus/__init__.py): mine_block   *)
(* from the choice of a job to the verification of its result, the record  *)
(* of violations, and the difficulty that calculate_difficulty finds for   *)
(* the chain.                                                              *)
(*                                                                         *)
(* What mine_block does with the subnet's books is in MiningSubnet, how    *)
(* the engine is started and stopped in MinerLifecycle; here other nodes   *)
(* announce and finish jobs, and the engine starts and stops, at any time. *)
(* A hash is the tuple of what is hashed.  Blocks come from other nodes:   *)
(* none of the checks of a block is about its timestamp or its difficulty. *)
(***************************************************************************)
EXTENDS Integers, Sequences

CONSTANTS
  Job,            \* jobs of the subnet
  Fitting,        \* those for the active model
  Output,         \* outputs of the model
  Duration,       \* processing times
  ExpectedTime,   \* the time verify_inference_time expects of the model
  SlashPeriod,    \* how long a violation counts: 24 hours
  TargetTime,     \* target_block_time
  Window,         \* difficulty_window
  MinDifficulty, MaxDifficulty,
  Stamp,          \* timestamps of blocks
  Difficulty,     \* difficulties in the headers of blocks
  Never,          \* no time
  ChainBound,     \* bound: length of the chain
  TimeBound,      \* bound: the time
  WorkBound       \* bound: results since the last clear_violations

VARIABLES
  chain,       \* timestamp and difficulty of the blocks of the chain
  mining,      \* the engine mines and its orchestrator runs
  stage,       \* where mine_block is: "idle", "subnet", "own"
  current,     \* the subnet job it works on
  pending,     \* _pending_jobs of the subnet
  claimed,     \* the keys of _claimed_jobs
  violations,  \* violation_count of the miner
  slashedAt,   \* slashed_miners of the miner
  outcome,     \* how the last call of mine_block ended
  now,         \* the time
  worked,      \* history: results since the last clear_violations
  lastWork     \* history: when the last of them came

mineVars == <<mining, stage, current, pending, claimed, outcome>>
slashVars == <<violations, slashedAt, worked, lastWork>>
engineVars == <<chain, mineVars, slashVars, now>>

Header == [time: Stamp, difficulty: Difficulty]

ASSUME EngineAssumption ==
  /\ Fitting \subseteq Job
  /\ Duration \subseteq Nat /\ ExpectedTime \in Nat
  /\ SlashPeriod \in Nat \ {0}
  /\ TargetTime \in Nat \ {0} /\ Window \in Nat \ {0}
  /\ MinDifficulty \in Nat \ {0} /\ MaxDifficulty \in Nat
  /\ Stamp \subseteq Nat /\ 0 \in Stamp
  /\ Difficulty \subseteq MinDifficulty .. MaxDifficulty /\ MinDifficulty \in Difficulty
  /\ ChainBound \in Nat /\ TimeBound \in Nat /\ WorkBound \in Nat
  /\ Never \notin Nat

EngineTypeOK ==
  /\ chain \in Seq(Header) /\ Len(chain) >= 1
  /\ mining \in BOOLEAN
  /\ stage \in {"idle", "subnet", "own"}
  /\ current \in Job \cup {Never}
  /\ pending \subseteq Job /\ claimed \subseteq Job
  /\ violations \in Nat
  /\ slashedAt \in Nat \cup {Never}
  /\ outcome \in {"none", "violation", "time", "raised"}
  /\ now \in Nat
  /\ worked \in Nat
  /\ lastWork \in Nat \cup {Never}

EngineInit ==
  /\ chain = <<[time |-> 0, difficulty |-> MinDifficulty]>>
  /\ mining = FALSE
  /\ stage = "idle" /\ current = Never
  /\ pending = {} /\ claimed = {}
  /\ violations = 0 /\ slashedAt = Never
  /\ outcome = "none" /\ now = 0
  /\ worked = 0 /\ lastWork = Never

-----------------------------------------------------------------------------
(***************************************************************************)
(* The surroundings: time, the callers of the engine, the subnet, the      *)
(* chain.                                                                  *)
(***************************************************************************)

TimePasses ==
  /\ now < TimeBound /\ now' = now + 1
  /\ UNCHANGED <<chain, mineVars, slashVars>>

Toggle ==
  /\ mining' = ~mining
  /\ UNCHANGED <<chain, stage, current, pending, claimed, outcome, slashVars, now>>

\* Another node announces a job, or claims one; a job leaves when its result
\* comes or it is swept.
Announced(j) ==
  /\ j \notin pending /\ pending' = pending \cup {j}
  /\ UNCHANGED <<chain, mining, stage, current, claimed, outcome, slashVars, now>>

Claimed(j) ==
  /\ j \in pending \ claimed /\ claimed' = claimed \cup {j}
  /\ UNCHANGED <<chain, mining, stage, current, pending, outcome, slashVars, now>>

Left(j) ==
  /\ j \in pending
  /\ pending' = pending \ {j} /\ claimed' = claimed \ {j}
  /\ UNCHANGED <<chain, mining, stage, current, outcome, slashVars, now>>

\* A block of another node joins the chain.
ReceiveBlock(header) ==
  /\ Len(chain) < ChainBound
  /\ chain' = Append(chain, header)
  /\ UNCHANGED <<mineVars, slashVars, now>>

-----------------------------------------------------------------------------
(***************************************************************************)
(* The verification of a result and the record of violations.              *)
(***************************************************************************)

\* What submit_job commits to, and what verify_tensor_commitment expects.  99
\* hundredths of the bytes of the two hashes must agree: all of them.
Committed(output) == <<"tensor:", output, "seed", "eval_count">>
Expected == <<"tensor_commit:", "seed", "input", "model">>

verify_tensor_commitment(output) == Committed(output) = Expected

verify_inference_time(duration) ==
  3 * ExpectedTime <= 10 * duration /\ duration <= 3 * ExpectedTime

\* Mutant: the commitment is taken on trust.
VerificationTrusting(output, duration) ==
  IF ~verify_inference_time(duration) THEN "time" ELSE "raised"

\* How mine_block ends with a result.  Only a wrong commitment is a violation.
\* With a result that passes create_work_block raises: it reads settings of
\* the monetary policy that do not exist.
Verification(output, duration) ==
  IF ~verify_tensor_commitment(output) THEN "violation"
  ELSE IF ~verify_inference_time(duration) THEN "time"
  ELSE "raised"

record_violation == violations' = violations + 1 /\ slashedAt' = now

is_slashed == slashedAt # Never /\ now - slashedAt < SlashPeriod

clear_violations ==
  /\ violations' = 0 /\ slashedAt' = Never
  /\ worked' = 0 /\ lastWork' = Never
  /\ UNCHANGED <<chain, mineVars, now>>

-----------------------------------------------------------------------------
(***************************************************************************)
(* mine_block.                                                             *)
(***************************************************************************)

FreeJobs == (pending \cap Fitting) \ claimed

TakeSubnetJob(j) ==
  /\ mining /\ stage = "idle" /\ j \in FreeJobs
  /\ stage' = "subnet" /\ current' = j
  /\ claimed' = claimed \cup {j}
  /\ UNCHANGED <<chain, mining, pending, outcome, slashVars, now>>

\* A job of its own, which it announces to the subnet: it is pending in its
\* own books as well, and nobody claims it there.
TakeOwnJob(j) ==
  /\ mining /\ stage = "idle" /\ FreeJobs = {}
  /\ j \in Fitting \ pending
  /\ stage' = "own" /\ current' = j
  /\ pending' = pending \cup {j}
  /\ UNCHANGED <<chain, mining, claimed, outcome, slashVars, now>>

\* No result: the inference failed, or the engine was stopped before it or
\* during it.  A subnet job stays claimed.
NoResult ==
  /\ stage # "idle"
  /\ stage' = "idle" /\ current' = Never /\ outcome' = "none"
  /\ UNCHANGED <<chain, mining, pending, claimed, slashVars, now>>

\* A result is submitted to the subnet, if the job was taken from there, and
\* then verified.
Result(output, duration) ==
  /\ mining /\ stage # "idle" /\ worked < WorkBound
  /\ IF stage = "subnet"
     THEN pending' = pending \ {current} /\ claimed' = claimed \ {current}
     ELSE UNCHANGED <<pending, claimed>>
  /\ outcome' = Verification(output, duration)
  /\ IF outcome' = "violation" THEN record_violation ELSE UNCHANGED <<violations, slashedAt>>
  /\ worked' = worked + 1 /\ lastWork' = now
  /\ stage' = "idle" /\ current' = Never
  /\ UNCHANGED <<chain, mining, now>>

-----------------------------------------------------------------------------
(***************************************************************************)
(* The difficulty after the blocks of the chain.                           *)
(***************************************************************************)

Tip == chain[Len(chain)]

Higher(a, b) == IF a < b THEN b ELSE a
Lower(a, b) == IF a > b THEN b ELSE a

First == Higher(1, Len(chain) - Window)
ActualTime == Tip.time - chain[First].time
WantedTime == TargetTime * (Len(chain) - First)

\* Mutant: the ratio is the wrong way round.
ScaledInverted(d) ==
  IF 4 * ActualTime >= 5 * WantedTime THEN {(5 * d) \div 4} ELSE {(3 * d) \div 4}

\* The ratio of the wanted to the actual time, a quarter up or down at most,
\* times the difficulty.  The product is a float: where it would be whole,
\* rounding may leave it under it.
Scaled(d) ==
  IF 4 * WantedTime >= 5 * ActualTime THEN {(5 * d) \div 4}
  ELSE IF 4 * WantedTime <= 3 * ActualTime THEN {(3 * d) \div 4}
  ELSE LET product == (d * WantedTime) \div ActualTime
       IN  IF (d * WantedTime) % ActualTime = 0 /\ WantedTime # ActualTime
           THEN {product, product - 1} ELSE {product}

calculate_difficulty ==
  IF Len(chain) < 2 THEN {MinDifficulty}
  ELSE IF ActualTime <= 0 THEN {Tip.difficulty}
  ELSE {Higher(MinDifficulty, Lower(MaxDifficulty, d)) : d \in Scaled(Tip.difficulty)}

-----------------------------------------------------------------------------

EngineNext ==
  \/ TimePasses
  \/ Toggle
  \/ \E j \in Job : Announced(j) \/ Claimed(j) \/ Left(j)
  \/ \E header \in Header : ReceiveBlock(header)
  \/ clear_violations
  \/ \E j \in Job : TakeSubnetJob(j) \/ TakeOwnJob(j)
  \/ NoResult
  \/ \E output \in Output, duration \in Duration : Result(output, duration)

EngineSpec == EngineInit /\ [][EngineNext]_engineVars

-----------------------------------------------------------------------------
(***************************************************************************)
(* Properties.                                                             *)
(***************************************************************************)

\* A miner is slashed for all the work it does: each result that it delivers,
\* for a job of the subnet or one of its own, is a violation of its own, and
\* for a day after the last of them it counts as slashed.
SlashedForWork ==
  /\ violations = worked
  /\ is_slashed <=> lastWork # Never /\ now - lastWork < SlashPeriod
  /\ outcome # "raised"

\* The next difficulty follows the pace of the blocks in the window: it does
\* not fall when they came faster than wanted, nor rise when they came slower;
\* but however fast they came, a difficulty under four never rises, since a
\* quarter of it is cut off.
DifficultyFollowsPace ==
  Len(chain) > 1 /\ ActualTime > 0 =>
    \A d \in calculate_difficulty :
      /\ ActualTime < WantedTime => d >= Lower(MaxDifficulty, Tip.difficulty)
      /\ ActualTime > WantedTime => d <= Tip.difficulty
      /\ 5 * ActualTime <= 4 * WantedTime /\ Tip.difficulty < MaxDifficulty
           => (d > Tip.difficulty <=> Tip.difficulty >= 4)

=============================================================================
