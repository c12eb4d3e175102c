---------------------------- MODULE MiningSubnet ----------------------------
(***************************************************************************)
(* The job side of MiningP2PSubnet (network/mining_p2p.py) on several      *)
(* nodes, driven by ConsensusEngine.mine_block (consensus/__init__.py) and *)
(* carried by the gossip of P2PNode (network/p2p.py).                      *)
(*                                                                         *)
(* A node that finds no job to work on makes one, announces it and works   *)
(* on it; a node that finds an unclaimed pending job claims it and works   *)
(* on it.  The inference is the only long await: everything else between   *)
(* two awaits of a node is one step.  JOB_ANNOUNCE and JOB_RESULT are      *)
(* relayed to the other peers, JOB_CLAIM is not.                           *)
(*                                                                         *)
(* P2PNode passes JOB_CLAIM and JOB_RESULT on to the subnet, but not       *)
(* JOB_ANNOUNCE: handle_job_announce is left to the embedding program.     *)
(* Routed is the set of the nodes whose program calls it.                  *)
(*                                                                         *)
(* All jobs are of the model that every node runs.  What mine_block does   *)
(* with the result once the subnet has it is not modelled here.            *)
(***************************************************************************)
EXTENDS Naturals, Sequences, FiniteSets

CONSTANTS
  Node,
  Job,         \* job ids
  Miner,       \* the nodes that are mining; the others have a subnet and relay
  Author,      \* Author[j]: the miner that makes job j
  Nobody,      \* no claim
  Routed,      \* nodes where announcements reach handle_job_announce
  Hops,        \* the ttl of a new message
  BreakBound   \* bound: connections that break

ASSUME MiningSubnetAssumption ==
  /\ Miner \subseteq Node
  /\ Author \in [Job -> Miner]
  /\ Nobody \notin Node
  /\ Routed \subseteq Node
  /\ Hops \in Nat /\ BreakBound \in Nat

VARIABLES
  made,       \* jobs that have been made
  pending,    \* pending[n]: the keys of _pending_jobs
  claimed,    \* claimed[n][j]: _claimed_jobs (and job.assigned_miner)
  completed,  \* completed[n]: the keys of _completed_results
  credit,     \* credit[n][m]: results of m that n has rewarded
  stage,      \* stage[n]: what mine_block is working on, if anything
  current,    \* current[n]: the job it works, or last worked, on
  seen,       \* seen[n]: dht.seen_messages
  peers,      \* peers[n]: the keys of transport._connections
  chan        \* chan[<<m, n>>]: what m sent to n and n has not read

vars == <<made, pending, claimed, completed, credit, stage, current, seen, peers, chan>>

subnet == <<pending, claimed, completed, credit>>
engine == <<made, stage, current>>

Message == [type: {"ANNOUNCE", "CLAIM", "RESULT"}, job: Job, from: Node, ttl: 0 .. Hops]

\* Stands for msg_id: no node sends two messages of one type for one job.
Id(msg) == <<msg.type, msg.job, msg.from>>

TypeOK ==
  /\ made \subseteq Job
  /\ pending \in [Node -> SUBSET Job]
  /\ claimed \in [Node -> [Job -> Node \cup {Nobody}]]
  /\ completed \in [Node -> SUBSET Job]
  /\ credit \in [Node -> [Node -> Nat]]
  /\ stage \in [Node -> {"idle", "own", "subnet"}]
  /\ current \in [Node -> Job \cup {Nobody}]
  /\ \A n \in Node : stage[n] # "idle" => current[n] \in Job
  /\ seen \in [Node -> SUBSET ({"ANNOUNCE", "RESULT"} \X Job \X Node)]
  /\ peers \in [Node -> SUBSET Node]
  /\ chan \in [Node \X Node -> Seq(Message)]

\* Every node is connected to every other one.
Init ==
  /\ made = {}
  /\ pending = [n \in Node |-> {}]
  /\ claimed = [n \in Node |-> [j \in Job |-> Nobody]]
  /\ completed = [n \in Node |-> {}]
  /\ credit = [n \in Node |-> [m \in Node |-> 0]]
  /\ stage = [n \in Node |-> "idle"]
  /\ current = [n \in Node |-> Nobody]
  /\ seen = [n \in Node |-> {}]
  /\ peers = [n \in Node |-> Node \ {n}]
  /\ chan = [e \in Node \X Node |-> <<>>]

-----------------------------------------------------------------------------
(***************************************************************************)
(* The transport.                                                          *)
(***************************************************************************)

New(type, j, n) == [type |-> type, job |-> j, from |-> n, ttl |-> Hops]

\* P2PTransport.broadcast on channels c.
Sent(c, n, msg, exclude) ==
  [e \in Node \X Node |->
     IF e[1] = n /\ e[2] \in peers[n] \ exclude THEN Append(c[e], msg) ELSE c[e]]

Broadcast(n, msg) == chan' = Sent(chan, n, msg, {})

\* Node n has read the first message of m.
Taken(m, n) == [chan EXCEPT ![<<m, n>>] = Tail(@)]

\* Mutant: the message is not passed on.
RelayedNot(m, n, msg) == Taken(m, n)

\* The re-broadcast of a message n has read from m: to every peer but its
\* originator.
Relayed(m, n, msg) ==
  IF msg.ttl > 0
  THEN Sent(Taken(m, n), n, [msg EXCEPT !.ttl = @ - 1], {msg.from})
  ELSE Taken(m, n)

\* The connection on which m sends to n fails: what was on its way is lost.
Break(m, n) ==
  /\ n \in peers[m]
  /\ Cardinality({e \in Node \X Node : e[1] # e[2] /\ e[2] \notin peers[e[1]]}) < BreakBound
  /\ peers' = [peers EXCEPT ![m] = @ \ {n}]
  /\ chan' = [chan EXCEPT ![<<m, n>>] = <<>>]
  /\ UNCHANGED <<subnet, engine, seen>>

-----------------------------------------------------------------------------
(***************************************************************************)
(* mine_block and the operations of the subnet it calls.                   *)
(***************************************************************************)

Unclaimed(n) == {j \in pending[n] : claimed[n][j] = Nobody}

\* announce_job: the job is pending at once and stays so when it is done.
AnnounceJob(n, j) ==
  /\ pending' = [pending EXCEPT ![n] = @ \cup {j}]
  /\ Broadcast(n, New("ANNOUNCE", j, n))
  /\ UNCHANGED <<claimed, completed, credit>>

\* Mutant: the claim is only announced.
ClaimJobUnrecorded(n, j) ==
  /\ Broadcast(n, New("CLAIM", j, n))
  /\ UNCHANGED subnet

\* claim_job.
ClaimJob(n, j) ==
  /\ claimed' = [claimed EXCEPT ![n][j] = n]
  /\ Broadcast(n, New("CLAIM", j, n))
  /\ UNCHANGED <<pending, completed, credit>>

\* Mutant: the claims are kept.
ForgetKeepingClaims(n, jobs) ==
  /\ pending' = [pending EXCEPT ![n] = @ \ jobs]
  /\ UNCHANGED claimed

\* Drop jobs from _pending_jobs and _claimed_jobs.
Forget(n, jobs) ==
  /\ pending' = [pending EXCEPT ![n] = @ \ jobs]
  /\ claimed' = [claimed EXCEPT ![n] = [j \in Job |-> IF j \in jobs THEN Nobody ELSE @[j]]]

\* submit_result.
SubmitResult(n, j) ==
  /\ Broadcast(n, New("RESULT", j, n))
  /\ completed' = [completed EXCEPT ![n] = @ \cup {j}]
  /\ Forget(n, {j})
  /\ UNCHANGED credit

\* There is nothing to work on: mine_block makes a job of its own.
MineOwn(n, j) ==
  /\ stage[n] = "idle" /\ Unclaimed(n) = {}
  /\ Author[j] = n /\ j \notin made
  /\ made' = made \cup {j}
  /\ stage' = [stage EXCEPT ![n] = "own"]
  /\ current' = [current EXCEPT ![n] = j]
  /\ AnnounceJob(n, j)
  /\ UNCHANGED <<seen, peers>>

MineSubnet(n, j) ==
  /\ n \in Miner /\ stage[n] = "idle" /\ j \in Unclaimed(n)
  /\ stage' = [stage EXCEPT ![n] = "subnet"]
  /\ current' = [current EXCEPT ![n] = j]
  /\ ClaimJob(n, j)
  /\ UNCHANGED <<made, seen, peers>>

\* The work leaves no trace in the subnet: the inference returned nothing, and
\* a claim is not taken back, or the job is one of the node's own.
WorkEnds(n) ==
  /\ stage[n] # "idle"
  /\ stage' = [stage EXCEPT ![n] = "idle"]
  /\ UNCHANGED <<subnet, made, current, seen, peers, chan>>

\* A job of the subnet is done, whatever has become of it meanwhile.
SubnetJobDone(n) ==
  /\ stage[n] = "subnet"
  /\ stage' = [stage EXCEPT ![n] = "idle"]
  /\ SubmitResult(n, current[n])
  /\ UNCHANGED <<made, current, seen, peers>>

-----------------------------------------------------------------------------
(***************************************************************************)
(* The messages that arrive.                                               *)
(***************************************************************************)

FirstIs(m, n, type) == chan[<<m, n>>] # <<>> /\ Head(chan[<<m, n>>]).type = type

\* handle_job_announce: a job that is pending or claimed is not new.
HandleJobAnnounce(n, j) ==
  /\ pending' = [pending EXCEPT ![n] = IF n \in Routed THEN @ \cup {j} ELSE @]
  /\ UNCHANGED <<claimed, completed, credit>>

\* handle_job_claim: the first claim of a pending job is recorded.
HandleJobClaim(n, j, m) ==
  /\ claimed' = [claimed EXCEPT ![n][j] = IF @ = Nobody /\ j \in pending[n] THEN m ELSE @]
  /\ UNCHANGED <<pending, completed, credit>>

\* handle_job_result.
HandleJobResult(n, j, m) ==
  /\ completed' = [completed EXCEPT ![n] = @ \cup {j}]
  /\ credit' = [credit EXCEPT ![n][m] = @ + 1]
  /\ Forget(n, {j})

\* P2PNode._handle_job_announce and _handle_job_result see a message once.
Duplicate(m, n) ==
  /\ chan[<<m, n>>] # <<>>
  /\ Id(Head(chan[<<m, n>>])) \in seen[n]
  /\ chan' = Taken(m, n)
  /\ UNCHANGED <<subnet, engine, seen, peers>>

ReceiveAnnounce(m, n) ==
  /\ FirstIs(m, n, "ANNOUNCE")
  /\ LET msg == Head(chan[<<m, n>>])
     IN  /\ Id(msg) \notin seen[n]
         /\ seen' = [seen EXCEPT ![n] = @ \cup {Id(msg)}]
         /\ HandleJobAnnounce(n, msg.job)
         /\ chan' = Relayed(m, n, msg)
  /\ UNCHANGED <<engine, peers>>

ReceiveClaim(m, n) ==
  /\ FirstIs(m, n, "CLAIM")
  /\ LET msg == Head(chan[<<m, n>>]) IN HandleJobClaim(n, msg.job, msg.from)
  /\ chan' = Taken(m, n)
  /\ UNCHANGED <<engine, seen, peers>>

\* Mutant: a result is handled each time it arrives.
ReceiveResultAgain(m, n) ==
  /\ FirstIs(m, n, "RESULT")
  /\ LET msg == Head(chan[<<m, n>>])
     IN  /\ seen' = [seen EXCEPT ![n] = @ \cup {Id(msg)}]
         /\ HandleJobResult(n, msg.job, msg.from)
         /\ chan' = Relayed(m, n, msg)
  /\ UNCHANGED <<engine, peers>>

ReceiveResult(m, n) ==
  /\ FirstIs(m, n, "RESULT")
  /\ LET msg == Head(chan[<<m, n>>])
     IN  /\ Id(msg) \notin seen[n]
         /\ seen' = [seen EXCEPT ![n] = @ \cup {Id(msg)}]
         /\ HandleJobResult(n, msg.job, msg.from)
         /\ chan' = Relayed(m, n, msg)
  /\ UNCHANGED <<engine, peers>>

Deliver(m, n) ==
  Duplicate(m, n) \/ ReceiveAnnounce(m, n) \/ ReceiveClaim(m, n) \/ ReceiveResult(m, n)

\* Mutant: claimed jobs are kept.
CleanupUnclaimed(n, stale) ==
  /\ stale \subseteq Unclaimed(n) /\ stale # {}
  /\ Forget(n, stale)
  /\ UNCHANGED <<engine, completed, credit, seen, peers, chan>>

\* One round of _cleanup_loop: any of the pending jobs may be an hour old.
Cleanup(n, stale) ==
  /\ stale \subseteq pending[n] /\ stale # {}
  /\ Forget(n, stale)
  /\ UNCHANGED <<engine, completed, credit, seen, peers, chan>>

Next ==
  \/ \E n \in Node :
       \/ \E j \in Job : MineOwn(n, j) \/ MineSubnet(n, j)
       \/ WorkEnds(n) \/ SubnetJobDone(n)
       \/ \E stale \in SUBSET Job : Cleanup(n, stale)
  \/ \E m, n \in Node : Deliver(m, n) \/ Break(m, n)

Spec == Init /\ [][Next]_vars

\* What is on a connection is read, an inference ends (it has a timeout), and
\* the cleanup goes on removing what has become old.  Messages, jobs and nodes
\* are finite in number: nothing is gained by fairness to each of them.
FairSpec ==
  /\ Spec
  /\ WF_vars(\E m, n \in Node : Deliver(m, n))
  /\ WF_vars(\E n \in Node : WorkEnds(n) \/ SubnetJobDone(n))
  /\ WF_vars(\E n \in Node, stale \in SUBSET Job : Cleanup(n, stale))

-----------------------------------------------------------------------------
(***************************************************************************)
(* Properties.                                                             *)
(***************************************************************************)

\* No claim outlives its job: what _claimed_jobs holds is pending, or it would
\* be there for ever, since the cleanup goes over the pending jobs only.
ClaimedArePending ==
  \A n \in Node, j \in Job : claimed[n][j] # Nobody => j \in pending[n]

\* A miner that works on a job of the subnet holds the claim in its own books
\* until somebody's result or the cleanup removes the job there, even if
\* others claimed it as well.
WorkerHoldsClaim ==
  \A n \in Node :
    stage[n] = "subnet" /\ current[n] \in pending[n] => claimed[n][current[n]] = n

\* First come, first served: once a node has recorded a claim no other claim
\* replaces it, neither one that arrives nor one of its own.
ClaimStable ==
  [][\A n \in Node, j \in Job :
       claimed[n][j] # Nobody => claimed'[n][j] \in {claimed[n][j], Nobody}]_vars

\* However a result travels, a node rewards it at most once: the score a miner
\* has with others never exceeds what it completed.
CreditedOnce ==
  \A n, m \in Node : n # m => credit[n][m] <= Cardinality(completed[m])

\* The relays make up for a broken connection: a result that one node has
\* reaches all of them.
ResultReaches ==
  \A j \in Job : (\E m \in Node : j \in completed[m]) ~> (\A n \in Node : j \in completed[n])

\* A job does not stay: it is done or swept, at every node, even one that the
\* announcement reaches after the result.
JobLeaves ==
  \A j \in Job : (\E n \in Node : j \in pending[n]) ~> (\A n \in Node : j \notin pending[n])

=============================================================================
