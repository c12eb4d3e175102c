------------------------ MODULE JobDistributorProofs ------------------------
(***************************************************************************)
(* Safety of the JobDistributor for any number of requests and miners.     *)
(* The inductive invariant says, for every job, what its status, its claim *)
(* and its result can be at each stage of its local attempt and of its     *)
(* answer: a job can be claimed by a miner only if the local attempt       *)
(* declined it, while a report may arrive for any job.                     *)
(***************************************************************************)
EXTENDS JobDistributor, TLAPS

JobInv(j) ==
  /\ local[j] \in {"none", "scheduled"} => status[j] = "PENDING"
  /\ local[j] = "running" => claimedBy[j] = Local
  /\ status[j] = "PENDING" => claimedBy[j] = Nobody /\ result[j] = "none"
  /\ status[j] = "COMPLETED" => result[j] # "none"
  /\ result[j] = "local" => claimedBy[j] = Local
  /\ result[j] \in {"remote", "empty"} /\ j \notin foreign => claimedBy[j] # Local
  /\ granted[j] \subseteq {claimedBy[j]}
  /\ handler[j] \in Unsubmitted <=> local[j] = "none"
  /\ handler[j] = "polling" => local[j] \in Over
  /\ answer[j] # "none" => status[j] \in Final /\ local[j] \in Over

Inv == TypeOK /\ \A j \in Job : JobInv(j)

-----------------------------------------------------------------------------

\* The initial states satisfy Inv.
LEMMA InitInv == Init => Inv
  BY JobDistributorAssumption DEF Init, Inv, TypeOK, JobInv, Final, Unsubmitted, Closed, Over

\* What a handler does to its stream stays within the bound.
LEMMA ReplyTypes ==
  ASSUME TypeOK, NEW j \in Job, Reply(j)
  PROVE  /\ handler' \in [Job -> Unsubmitted \cup Closed
                                 \cup {"broadcasting", "local", "polling", "writing"}]
         /\ answer' \in [Job -> {"none", "result", "error", "unavailable", "malformed"}]
         /\ unsent' \in [Job -> 0 .. Length]
<1>1. CASE Respond(j)
  <2>1. Answer(j)' \in {"result", "error", "unavailable"}
    BY DEF Answer
  <2>2. PICK n \in 0 .. Length : unsent' = [unsent EXCEPT ![j] = n]
    BY <1>1 DEF Respond
  <2>3. QED
    BY <1>1, <2>1, <2>2 DEF Respond, TypeOK, Closed
<1>2. CASE BreakOff(j)
  BY <1>2 DEF BreakOff, TypeOK, Closed
<1>3. QED
  BY <1>1, <1>2 DEF Reply

\* What a handler sees when it looks stays within the bound.
LEMMA LookTypes ==
  ASSUME TypeOK, NEW j \in Job, Look(j)
  PROVE  /\ handler' \in [Job -> Unsubmitted \cup Closed
                                 \cup {"broadcasting", "local", "polling", "writing"}]
         /\ answer' \in [Job -> {"none", "result", "error", "unavailable", "malformed"}]
         /\ unsent' \in [Job -> 0 .. Length]
<1>1. CASE status[j] \in Final
  BY <1>1, ReplyTypes DEF Look
<1>2. CASE status[j] \notin Final
  BY <1>2 DEF Look, TypeOK
<1>3. QED
  BY <1>1, <1>2

\* A step keeps the types.
LEMMA TypeStep ==
  ASSUME Inv, [Next]_vars
  PROVE  TypeOK'
<1> USE JobDistributorAssumption DEF Inv, TypeOK, output, miners, Over
<1>1. ASSUME NEW j \in Job, Request(j) \/ Broadcast(j) \/ BroadcastFails(j) \/ ClientLeaves(j)
      PROVE  TypeOK'
  <2>1. CASE SubmitJob(j)
    BY <2>1 DEF SubmitJob
  <2>2. CASE \E h \in {"refused", "preparing", "local", "crashed", "left"} :
                /\ handler' = [handler EXCEPT ![j] = h]
                /\ UNCHANGED <<record, status, output, local, miners, sweeping>>
    BY <2>2 DEF record, Unsubmitted, Closed
  <2>3. CASE Request(j)
    <3>1. CASE HandleChatCompletions(j)
      BY <2>1, <3>1 DEF HandleChatCompletions, record, Unsubmitted
    <3>2. QED
      BY <2>1, <2>2, <2>3, <3>1 DEF Request, Refuse, HandleEmbeddings, HandleStreamingChat
  <2>4. CASE Broadcast(j) \/ BroadcastFails(j) \/ ClientLeaves(j)
    BY <2>2, <2>4 DEF Broadcast, BroadcastFails, ClientLeaves
  <2>5. QED
    BY <1>1, <2>3, <2>4
<1>2. ASSUME NEW j \in Job, LocalStep(j)
      PROVE  TypeOK'
  <2>1. CASE SkipLocal(j)
    BY <2>1 DEF SkipLocal, record
  <2>2. CASE BeginLocal(j)
    BY <2>2 DEF BeginLocal
  <2>3. CASE LocalSucceeds(j)
    BY <2>3 DEF LocalSucceeds, Final
  <2>4. CASE LocalFails(j)
    BY <2>4 DEF LocalFails, Final
  <2>5. QED
    BY <1>2, <2>1, <2>2, <2>3, <2>4 DEF LocalStep
<1>3. ASSUME NEW j \in Job, HandlerStep(j)
      PROVE  TypeOK'
  <2>1. CASE LocalReturns(j)
    BY <2>1, LookTypes DEF LocalReturns, record
  <2>2. CASE LocalTimesOut(j)
    BY <2>2, LookTypes DEF LocalTimesOut, record
  <2>3. CASE Poll(j)
    BY <2>3, LookTypes DEF Poll, record
  <2>4. CASE Expire(j)
    BY <2>4, ReplyTypes DEF Expire, record, Final
  <2>5. CASE WriteChunk(j)
    BY <2>5 DEF WriteChunk, record
  <2>6. CASE EndStream(j)
    BY <2>6 DEF EndStream, record, Closed
  <2>7. QED
    BY <1>3, <2>1, <2>2, <2>3, <2>4, <2>5, <2>6 DEF HandlerStep
<1>4. ASSUME NEW j \in Job, NEW m \in Miner, HandleJobClaim(j, m)
      PROVE  TypeOK'
  BY <1>4 DEF HandleJobClaim, ClaimJob
<1>5. ASSUME NEW j \in Job, NEW m \in Miner, HandleJobComplete(j, m)
      PROVE  TypeOK'
  BY <1>5 DEF HandleJobComplete, CompleteJob, Final
<1>6. ASSUME NEW j \in Job, HandleJobFail(j)
      PROVE  TypeOK'
  BY <1>6 DEF HandleJobFail, FailJob, Final
<1>7. CASE Cleanup
  BY <1>7 DEF Cleanup
<1>8. CASE Stop
  BY <1>8 DEF Stop, record
<1>9. CASE UNCHANGED vars
  BY <1>9 DEF vars
<1>10. QED
  BY <1>1, <1>2, <1>3, <1>4, <1>5, <1>6, <1>7, <1>8, <1>9 DEF Next

\* A step keeps what JobInv says of each job.
LEMMA JobStep ==
  ASSUME Inv, [Next]_vars, NEW i \in Job
  PROVE  JobInv(i)'
<1>0. JobInv(i)
  BY DEF Inv
<1> USE <1>0, JobDistributorAssumption DEF Inv, TypeOK, JobInv, Final, Unsubmitted, Closed, Over, output, miners
<1>1. ASSUME NEW j \in Job, Request(j) \/ Broadcast(j) \/ BroadcastFails(j) \/ ClientLeaves(j)
      PROVE  JobInv(i)'
  <2>1. ASSUME handler[j] \in Unsubmitted, SubmitJob(j)
        PROVE  JobInv(i)'
    BY <2>1 DEF SubmitJob
  <2>2. ASSUME handler[j] \in Unsubmitted, NEW h \in Unsubmitted,
               handler' = [handler EXCEPT ![j] = h],
               UNCHANGED <<record, status, answer, local, miners>>
        PROVE  JobInv(i)'
    BY <2>2 DEF record
  <2>3. CASE Request(j)
    BY <2>1, <2>2, <2>3 DEF Request, Refuse, HandleChatCompletions, HandleEmbeddings,
         HandleStreamingChat
  <2>4. CASE Broadcast(j) \/ BroadcastFails(j) \/ ClientLeaves(j)
    BY <2>4 DEF Broadcast, BroadcastFails, ClientLeaves, record
  <2>5. QED
    BY <1>1, <2>3, <2>4
<1>2. ASSUME NEW j \in Job, LocalStep(j)
      PROVE  JobInv(i)'
  <2>0. JobInv(j)
    OBVIOUS
  <2>1. CASE SkipLocal(j)
    BY <2>0, <2>1 DEF SkipLocal, record
  <2>2. CASE BeginLocal(j)
    BY <2>0, <2>2 DEF BeginLocal
  <2>3. CASE LocalSucceeds(j)
    BY <2>0, <2>3 DEF LocalSucceeds
  <2>4. CASE LocalFails(j)
    BY <2>0, <2>4 DEF LocalFails
  <2>5. QED
    BY <1>2, <2>1, <2>2, <2>3, <2>4 DEF LocalStep
<1>3. ASSUME NEW j \in Job, HandlerStep(j)
      PROVE  JobInv(i)'
  <2>0. JobInv(j)
    OBVIOUS
  <2>1. CASE LocalReturns(j)
    BY <2>0, <2>1 DEF LocalReturns, Look, Reply, Respond, BreakOff, record
  <2>2. CASE LocalTimesOut(j)
    BY <2>0, <2>2 DEF LocalTimesOut, Look, Reply, Respond, BreakOff, record
  <2>3. CASE Poll(j)
    BY <2>0, <2>3 DEF Poll, Look, Reply, Respond, BreakOff, record
  <2>4. CASE Expire(j)
    BY <2>0, <2>4 DEF Expire, Reply, Respond, BreakOff, record
  <2>5. CASE WriteChunk(j)
    BY <2>0, <2>5 DEF WriteChunk, record
  <2>6. CASE EndStream(j)
    BY <2>0, <2>6 DEF EndStream, record
  <2>7. QED
    BY <1>3, <2>1, <2>2, <2>3, <2>4, <2>5, <2>6 DEF HandlerStep
<1>4. ASSUME NEW j \in Job, NEW m \in Miner, HandleJobClaim(j, m)
      PROVE  JobInv(i)'
  <2>1. JobInv(j) /\ claimedBy[j] = Nobody /\ local[j] \notin {"none", "scheduled", "running"}
    BY <1>4 DEF HandleJobClaim, ClaimJob, Known
  <2>2. granted[j] = {}
    BY <2>1
  <2>3. granted[j]' = {m} /\ claimedBy[j]' = m /\ status[j]' = "CLAIMED"
    BY <1>4, <2>2 DEF HandleJobClaim, ClaimJob
  <2>4. CASE i = j
    BY <1>4, <2>1, <2>3, <2>4 DEF HandleJobClaim, ClaimJob
  <2>5. CASE i # j
    BY <1>4, <2>5 DEF HandleJobClaim, ClaimJob
  <2>6. QED
    BY <2>4, <2>5
<1>5. ASSUME NEW j \in Job, NEW m \in Miner, HandleJobComplete(j, m)
      PROVE  JobInv(i)'
  <2>1. JobInv(j) /\ local[j] \notin {"none", "scheduled"}
    BY <1>5 DEF HandleJobComplete, Known
  <2>2. m \in granted[j] => claimedBy[j] # Local
    BY <2>1
  <2>3. m \notin granted[j] => j \in foreign'
    BY <1>5 DEF HandleJobComplete
  <2>4. i \in foreign => i \in foreign'
    BY <1>5 DEF HandleJobComplete
  <2>5. CASE i = j
    BY <1>5, <2>1, <2>2, <2>3, <2>4, <2>5 DEF HandleJobComplete, CompleteJob
  <2>6. CASE i # j
    BY <1>5, <2>4, <2>6 DEF HandleJobComplete, CompleteJob
  <2>7. QED
    BY <2>5, <2>6
<1>6. ASSUME NEW j \in Job, HandleJobFail(j)
      PROVE  JobInv(i)'
  <2>1. JobInv(j) /\ local[j] \notin {"none", "scheduled"}
    BY <1>6 DEF HandleJobFail, Known
  <2>2. QED
    BY <1>6, <2>1 DEF HandleJobFail, FailJob
<1>7. CASE Cleanup
  BY <1>7 DEF Cleanup
<1>8. CASE Stop
  BY <1>8 DEF Stop, record
<1>9. CASE UNCHANGED vars
  BY <1>9 DEF vars
<1>10. QED
  BY <1>1, <1>2, <1>3, <1>4, <1>5, <1>6, <1>7, <1>8, <1>9 DEF Next

\* Inv is inductive.
LEMMA InvStep == Inv /\ [Next]_vars => Inv'
  BY TypeStep, JobStep DEF Inv

-----------------------------------------------------------------------------

\* No two parties work on one job, however claims, timeouts and reports
\* interleave (claim_job and _try_local_mining).
THEOREM SingleWorker == Spec => []OneWorker
<1>1. ASSUME Inv, NEW j \in Job, local[j] = "running"
      PROVE  granted[j] = {}
  <2>1. granted[j] \subseteq {Local} /\ granted[j] \subseteq Miner
    BY <1>1 DEF Inv, TypeOK, JobInv
  <2>2. QED
    BY <2>1, JobDistributorAssumption
<1>2. Inv => OneWorker
  BY <1>1 DEF Inv, JobInv, OneWorker
<1>3. QED
  BY <1>2, InitInv, InvStep, PTL DEF Spec

\* A completed job has a result, a local one only if the server claimed it, and
\* a job of the server's no other one unless it was reported by somebody who
\* did not have the job (complete_job and _try_local_mining).
THEOREM ResultIsClaimants == Spec => []ResultFromClaimant
<1>1. Inv => ResultFromClaimant
  BY DEF Inv, TypeOK, JobInv, ResultFromClaimant
<1>2. QED
  BY <1>1, InitInv, InvStep, PTL DEF Spec

\* An answered request leaves a final job and no local attempt
\* (wait_for_result and submit_job).
THEOREM AnswerIsFinal == Spec => []AnsweredIsFinal
<1>1. Inv => AnsweredIsFinal
  BY DEF Inv, JobInv, AnsweredIsFinal, Over
<1>2. QED
  BY <1>1, InitInv, InvStep, PTL DEF Spec

=============================================================================
