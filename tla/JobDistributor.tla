--------------------------- MODULE JobDistributor ---------------------------
(***************************************************************************)
(* The JobDistributor of api/__init__.py and the HTTP handlers around it.  *)
(* A request creates a job, starts a local attempt as a task, announces    *)
(* the job to the network, waits for the local attempt with a timeout and  *)
(* then polls the job until its status is final or a deadline passes.  The *)
(* answer is one response, or a stream that is written in chunks.  Miners  *)
(* claim, complete and fail jobs through /internal/jobs/*, whose handlers  *)
(* run in the same event loop: a step here is what runs between two        *)
(* awaits.  These handlers ask neither who sends a report nor whether the  *)
(* sender has the job: any miner may report on any job it knows of.        *)
(*                                                                         *)
(* The deadlines are not timed: a timeout may strike whenever its wait is  *)
(* in progress.  One relation between them is kept: a job is swept after   *)
(* 3600 s, when its request, which waits at most 120 s and then 240 s, has *)
(* been answered.                                                          *)
(***************************************************************************)
EXTENDS Naturals

CONSTANTS
  Job,    \* requests, each with a job id of its own
  Miner,  \* remote miners
  P2P,    \* whether the server was given a p2p node
  Length, \* bound: characters of a streamed answer
  Local,  \* "local", the name under which the server claims a job
  Nobody  \* no claim

ASSUME JobDistributorAssumption ==
  /\ P2P \in BOOLEAN /\ Length \in Nat
  /\ Local \notin Miner /\ Nobody \notin Miner /\ Local # Nobody

VARIABLES
  jobs,       \* the keys of self.jobs
  status,     \* job.status
  claimedBy,  \* job.claimed_by
  result,     \* who wrote job.result ("none", "empty": a false result)
  error,      \* whether job.error is a non-empty string
  handler,    \* where the request's handler is
  streams,    \* the requests that ask for a stream
  answer,     \* what it answers
  unsent,     \* of a stream: the characters that are still to be written
  local,      \* where the task _try_local_mining is
  granted,    \* the miners that were told they have the job
  foreign,    \* history: the jobs with a result of somebody who did not have them
  sweeping    \* _running: the cleanup task is alive

miners == <<granted, foreign>>
output == <<streams, answer, unsent>>
vars == <<jobs, status, claimedBy, result, error, handler, output, local, miners, sweeping>>

record == <<jobs, claimedBy, result, error>>

Final == {"COMPLETED", "FAILED", "TIMEOUT"}

\* Before submit_job; and when the handler has ended: with its answer, with an
\* exception, or because the client has left in the middle of its stream.  A
\* job that is over has been answered, also if the answer could not be sent.
Unsubmitted == {"new", "refused", "preparing"}
Closed == {"answered", "crashed", "left"}
Over == {"ended", "cancelled"}

TypeOK ==
  /\ jobs \subseteq Job
  /\ status \in [Job -> Final \cup {"PENDING", "CLAIMED", "PROCESSING"}]
  /\ claimedBy \in [Job -> Miner \cup {Local, Nobody}]
  /\ result \in [Job -> {"none", "empty", "local", "remote"}]
  /\ error \in [Job -> BOOLEAN]
  /\ handler \in [Job -> Unsubmitted \cup Closed
                         \cup {"broadcasting", "local", "polling", "writing"}]
  /\ streams \subseteq Job
  /\ answer \in [Job -> {"none", "result", "error", "unavailable", "malformed"}]
  /\ unsent \in [Job -> 0 .. Length]
  /\ local \in [Job -> {"none", "scheduled", "running"} \cup Over]
  /\ granted \in [Job -> SUBSET Miner] /\ foreign \subseteq Job
  /\ sweeping \in BOOLEAN

\* The server has started: an APIJob is PENDING from its creation on.
Init ==
  /\ jobs = {}
  /\ status = [j \in Job |-> "PENDING"]
  /\ claimedBy = [j \in Job |-> Nobody]
  /\ result = [j \in Job |-> "none"]
  /\ error = [j \in Job |-> FALSE]
  /\ handler = [j \in Job |-> "new"]
  /\ streams = {}
  /\ answer = [j \in Job |-> "none"]
  /\ unsent = [j \in Job |-> 0]
  /\ local = [j \in Job |-> "none"]
  /\ granted = [j \in Job |-> {}] /\ foreign = {}
  /\ sweeping = TRUE

-----------------------------------------------------------------------------
(***************************************************************************)
(* The local attempt.                                                      *)
(***************************************************************************)

\* can_run_model says no: the job is left as it is for the network.
SkipLocal(j) ==
  /\ local[j] = "scheduled"
  /\ local' = [local EXCEPT ![j] = "ended"]
  /\ UNCHANGED <<record, status, handler, output, miners, sweeping>>

\* Mutant: the local attempt does not claim the job.
BeginLocalUnclaimed(j) ==
  /\ local[j] = "scheduled"
  /\ local' = [local EXCEPT ![j] = "running"]
  /\ status' = [status EXCEPT ![j] = "PROCESSING"]
  /\ UNCHANGED <<jobs, claimedBy, result, error, handler, output, miners, sweeping>>

BeginLocal(j) ==
  /\ local[j] = "scheduled"
  /\ local' = [local EXCEPT ![j] = "running"]
  /\ status' = [status EXCEPT ![j] = "PROCESSING"]
  /\ claimedBy' = [claimedBy EXCEPT ![j] = Local]
  /\ UNCHANGED <<jobs, result, error, handler, output, miners, sweeping>>

LocalSucceeds(j) ==
  /\ local[j] = "running"
  /\ local' = [local EXCEPT ![j] = "ended"]
  /\ status' = [status EXCEPT ![j] = "COMPLETED"]
  /\ result' = [result EXCEPT ![j] = "local"]
  /\ UNCHANGED <<jobs, claimedBy, error, handler, output, miners, sweeping>>

\* No result, or an exception, which alone leaves an error message.
LocalFails(j) ==
  /\ local[j] = "running"
  /\ local' = [local EXCEPT ![j] = "ended"]
  /\ status' = [status EXCEPT ![j] = "FAILED"]
  /\ \E raised \in BOOLEAN : error' = [error EXCEPT ![j] = @ \/ raised]
  /\ UNCHANGED <<jobs, claimedBy, result, handler, output, miners, sweeping>>

-----------------------------------------------------------------------------
(***************************************************************************)
(* A request: its handler, submit_job, wait_for_result, the answer.        *)
(***************************************************************************)

\* No valid API key, a body that is not JSON or cannot be used, or a client
\* that has gone before the headers of its stream.
Refuse(j) ==
  /\ handler[j] \in {"new", "preparing"}
  /\ handler' = [handler EXCEPT ![j] = "refused"]
  /\ UNCHANGED <<record, status, output, local, miners, sweeping>>

SubmitJob(j) ==
  /\ jobs' = jobs \cup {j}
  /\ local' = [local EXCEPT ![j] = "scheduled"]
  /\ handler' = [handler EXCEPT ![j] = IF P2P THEN "broadcasting" ELSE "local"]
  /\ UNCHANGED <<status, claimedBy, result, error, output, miners, sweeping>>

\* For a stream the headers of the response are sent before the job is
\* submitted.
HandleChatCompletions(j) ==
  /\ handler[j] = "new"
  /\ \/ SubmitJob(j)
     \/ /\ handler' = [handler EXCEPT ![j] = "preparing"]
        /\ streams' = streams \cup {j}
        /\ UNCHANGED <<record, status, answer, unsent, local, miners, sweeping>>

\* Ends as the handler of a chat does: the kind of the job changes nothing here.
HandleEmbeddings(j) == handler[j] = "new" /\ SubmitJob(j)

HandleStreamingChat(j) == handler[j] = "preparing" /\ SubmitJob(j)

Broadcast(j) ==
  /\ handler[j] = "broadcasting"
  /\ handler' = [handler EXCEPT ![j] = "local"]
  /\ UNCHANGED <<record, status, output, local, miners, sweeping>>

\* An error of the transport that is no ConnectionError leaves submit_job:
\* the client gets a 500 and the local attempt goes on without its handler.
BroadcastFails(j) ==
  /\ handler[j] = "broadcasting"
  /\ handler' = [handler EXCEPT ![j] = "crashed"]
  /\ UNCHANGED <<record, status, output, local, miners, sweeping>>

\* A stream says 'Mining failed' whatever the error.
Answer(j) ==
  IF status[j] = "COMPLETED" /\ result[j] \in {"local", "remote"} THEN "result"
  ELSE IF error[j] /\ j \notin streams THEN "error" ELSE "unavailable"

Respond(j) ==
  /\ handler' = [handler EXCEPT ![j] = IF j \in streams THEN "writing" ELSE "answered"]
  /\ answer' = [answer EXCEPT ![j] = Answer(j)']
  /\ \E n \in 0 .. Length :
       /\ j \notin streams \/ Answer(j)' # "result" => n = 0
       /\ unsent' = [unsent EXCEPT ![j] = n]

\* A result need not have the shape of a chat completion, and a local one need
\* not have a text: looking for the text raises, and the stream breaks off.
BreakOff(j) ==
  /\ j \in streams /\ Answer(j)' = "result"
  /\ handler' = [handler EXCEPT ![j] = "crashed"]
  /\ answer' = [answer EXCEPT ![j] = "malformed"]
  /\ UNCHANGED unsent

\* A stream takes the text out of the result before it writes the first
\* character: a report that comes later does not change it.
Reply(j) == Respond(j) \/ BreakOff(j)

\* One look at the job by wait_for_result.
Look(j) ==
  IF status[j] \in Final
  THEN Reply(j)
  ELSE handler' = [handler EXCEPT ![j] = "polling"] /\ UNCHANGED <<answer, unsent>>

\* submit_job returns; wait_for_result takes its first look at once.
LocalReturns(j) ==
  /\ handler[j] = "local" /\ local[j] = "ended"
  /\ UNCHANGED <<record, status, local, streams, miners, sweeping>>
  /\ Look(j)

\* Mutant: the local attempt is shielded from the timeout.
LocalTimesOutShielded(j) ==
  /\ handler[j] = "local" /\ local[j] = "running"
  /\ UNCHANGED <<record, status, local, streams, miners, sweeping>>
  /\ Look(j)

\* wait_for cancels the local attempt, which leaves the job as it was.
LocalTimesOut(j) ==
  /\ handler[j] = "local" /\ local[j] = "running"
  /\ local' = [local EXCEPT ![j] = "cancelled"]
  /\ UNCHANGED <<record, status, streams, miners, sweeping>>
  /\ Look(j)

Poll(j) ==
  /\ handler[j] = "polling" /\ status[j] \in Final
  /\ UNCHANGED <<record, status, local, streams, miners, sweeping>>
  /\ Look(j)

\* Mutant: only a job that nobody has claimed times out.
ExpireUnclaimed(j) ==
  /\ handler[j] = "polling" /\ status[j] = "PENDING"
  /\ status' = [status EXCEPT ![j] = "TIMEOUT"]
  /\ UNCHANGED <<record, local, streams, miners, sweeping>>
  /\ Reply(j)

\* The deadline has passed when the poller wakes up: it does not look again.
Expire(j) ==
  /\ handler[j] = "polling"
  /\ status' = [status EXCEPT ![j] = "TIMEOUT"]
  /\ UNCHANGED <<record, local, streams, miners, sweeping>>
  /\ Reply(j)

WriteChunk(j) ==
  /\ handler[j] = "writing" /\ unsent[j] > 0
  /\ unsent' = [unsent EXCEPT ![j] = @ - 1]
  /\ UNCHANGED <<record, status, handler, streams, answer, local, miners, sweeping>>

\* The last chunk, or the error, and [DONE].
EndStream(j) ==
  /\ handler[j] = "writing" /\ unsent[j] = 0
  /\ handler' = [handler EXCEPT ![j] = "answered"]
  /\ UNCHANGED <<record, status, output, local, miners, sweeping>>

\* The client has gone: a write raises.
ClientLeaves(j) ==
  /\ handler[j] = "writing"
  /\ handler' = [handler EXCEPT ![j] = "left"]
  /\ UNCHANGED <<record, status, output, local, miners, sweeping>>

-----------------------------------------------------------------------------
(***************************************************************************)
(* The requests of the miners.  A job id is known only once the job is     *)
(* announced, or from its answer; the event loop runs its tasks in order,  *)
(* so the local attempt has taken its first step before a claim or a       *)
(* report can arrive.  Whoever knows the id reports at any time, with or   *)
(* without the job, and possibly more than once.                           *)
(***************************************************************************)

Known(j) == local[j] \notin {"none", "scheduled"} /\ (P2P \/ answer[j] # "none")

\* Mutant: a job that is being worked on can be claimed.
ClaimJobAnyStatus(j, m) ==
  /\ j \in jobs
  /\ status' = [status EXCEPT ![j] = "CLAIMED"]
  /\ claimedBy' = [claimedBy EXCEPT ![j] = m]

ClaimJob(j, m) ==
  /\ j \in jobs /\ status[j] = "PENDING"
  /\ status' = [status EXCEPT ![j] = "CLAIMED"]
  /\ claimedBy' = [claimedBy EXCEPT ![j] = m]

CompleteJob(j, r) ==
  /\ j \in jobs
  /\ status' = [status EXCEPT ![j] = "COMPLETED"]
  /\ result' = [result EXCEPT ![j] = r]

FailJob(j, message) ==
  /\ j \in jobs
  /\ status' = [status EXCEPT ![j] = "FAILED"]
  /\ error' = [error EXCEPT ![j] = message]

\* The miner is told that it has the job; a refused claim changes nothing.
HandleJobClaim(j, m) ==
  /\ Known(j) /\ ClaimJob(j, m)
  /\ granted' = [granted EXCEPT ![j] = @ \cup {m}]
  /\ UNCHANGED <<jobs, result, error, handler, output, local, foreign, sweeping>>

\* A report without a result completes the job with an empty one.
HandleJobComplete(j, m) ==
  /\ Known(j)
  /\ \E r \in {"remote", "empty"} : CompleteJob(j, r)
  /\ foreign' = IF m \in granted[j] THEN foreign ELSE foreign \cup {j}
  /\ UNCHANGED <<jobs, claimedBy, error, handler, output, local, granted, sweeping>>

HandleJobFail(j) ==
  /\ Known(j)
  /\ \E message \in BOOLEAN : FailJob(j, message)
  /\ UNCHANGED <<jobs, claimedBy, result, handler, output, local, miners, sweeping>>

-----------------------------------------------------------------------------

\* Mutant: only completed jobs are removed.
CleanupCompleted ==
  /\ sweeping
  /\ \E old \in SUBSET {j \in jobs : handler[j] \in Closed} :
       LET stale == {j \in old : status[j] = "COMPLETED"}
       IN  stale # {} /\ jobs' = jobs \ stale
  /\ UNCHANGED <<status, claimedBy, result, error, handler, output, local, miners, sweeping>>

\* One round of _cleanup_loop over the jobs that are more than an hour old.
Cleanup ==
  /\ sweeping
  /\ \E old \in SUBSET {j \in jobs : handler[j] \in Closed} :
       LET stale == {j \in old : status[j] \in Final}
       IN  stale # {} /\ jobs' = jobs \ stale
  /\ UNCHANGED <<status, claimedBy, result, error, handler, output, local, miners, sweeping>>

Stop ==
  /\ sweeping /\ sweeping' = FALSE
  /\ UNCHANGED <<record, status, handler, output, local, miners>>

LocalStep(j) == SkipLocal(j) \/ BeginLocal(j) \/ LocalSucceeds(j) \/ LocalFails(j)

HandlerStep(j) ==
  LocalReturns(j) \/ LocalTimesOut(j) \/ Poll(j) \/ Expire(j) \/ WriteChunk(j) \/ EndStream(j)

Request(j) ==
  Refuse(j) \/ HandleChatCompletions(j) \/ HandleEmbeddings(j) \/ HandleStreamingChat(j)

Next ==
  \/ \E j \in Job :
       \/ Request(j) \/ Broadcast(j) \/ BroadcastFails(j)
       \/ LocalStep(j) \/ HandlerStep(j) \/ ClientLeaves(j)
       \/ \E m \in Miner : HandleJobClaim(j, m) \/ HandleJobComplete(j, m)
       \/ HandleJobFail(j)
  \/ Cleanup
  \/ Stop

Spec == Init /\ [][Next]_vars

\* The loop starts every task that is scheduled, both waits have deadlines,
\* and the sweep comes round to every job that has become old.
FairSpec ==
  /\ Spec
  /\ \A j \in Job :
       /\ WF_vars(SkipLocal(j) \/ BeginLocal(j))
       /\ WF_vars(HandlerStep(j))
       /\ WF_vars(Cleanup /\ j \notin jobs')

-----------------------------------------------------------------------------
(***************************************************************************)
(* Properties.                                                             *)
(***************************************************************************)

\* A job is never worked on twice: while the local attempt runs no miner has
\* been given the job, it is given to one miner at most, and whoever was given
\* it is the one recorded.
OneWorker ==
  \A j \in Job :
    /\ local[j] = "running" => granted[j] = {}
    /\ granted[j] \subseteq {claimedBy[j]}

\* A job that is COMPLETED has a result, which is the local one only if the
\* server has the job; and the job of the server carries the server's own
\* answer, unless somebody who did not have it has reported a result.
ResultFromClaimant ==
  \A j \in Job :
    status[j] = "COMPLETED" =>
      /\ result[j] # "none"
      /\ result[j] = "local" => claimedBy[j] = Local
      /\ claimedBy[j] = Local /\ j \notin foreign => result[j] = "local"

\* When a request has its answer its job is final and its local attempt is
\* over, and late or foreign reports keep it so: the sweep can always remove it.
AnsweredIsFinal ==
  \A j \in Job : answer[j] # "none" => status[j] \in Final /\ local[j] \in Over

\* Once the job has been announced its request is answered, in full if it is a
\* stream, unless its client has left or its result has no text to stream.
RequestAnswered ==
  \A j \in Job :
    handler[j] \in {"local", "polling"} ~>
      \/ handler[j] = "answered"
      \/ j \in streams /\ (handler[j] = "left" \/ answer[j] = "malformed")

\* The job of a request that has its answer leaves the table while the server
\* runs, whether the answer could be sent or not.
JobSwept ==
  \A j \in Job : answer[j] # "none" ~> j \notin jobs \/ ~sweeping

=============================================================================
