------------------------------ MODULE Registry ------------------------------
(***************************************************************************)
(* The registry of miners of one node, Self: the miner side of             *)
(* MiningP2PSubnet (network/mining_p2p.py) with the handler of P2PNode     *)
(* that feeds it (network/p2p.py), the choice of an Ollama instance by     *)
(* OllamaOrchestrator (consensus/__init__.py) and the table of instances   *)
(* of OllamaManager (mining/ollama_miner.py).                              *)
(*                                                                         *)
(* The other nodes run the same program: what they announce is what        *)
(* orchestrator.start registers.  Their announcements come at any time, so *)
(* a record of another miner is fresh or stale; the age of the node's own  *)
(* record, which its announcements refresh, is counted.  The sweep of the  *)
(* jobs is in MiningSubnet, the daemon in MinerLifecycle.  Counters of     *)
(* jobs, by which equal scores are ordered, are left out: the order of     *)
(* equals is any.  All miners have the memory for the model.               *)
(***************************************************************************)
EXTENDS Naturals, FiniteSets

CONSTANTS
  Self,
  Remote,         \* the other miners
  LocalPort,      \* default_port of Self
  Port,           \* default_port of a miner
  Loopback,       \* "127.0.0.1"
  AnnounceTime,   \* between two announcements: two minutes
  EvictTime,      \* from when on a record is removed: half an hour
  StartScore, MaxScore, RegisterStep, ResultStep, BadStep,  \* hundredths
  MinScore,       \* p2p_min_peer_score
  Absent          \* no record, no instance

VARIABLES
  running,     \* _running of the subnet
  loop,        \* the announce loops: the one stop cancels, and one it does not
  starting,    \* orchestrator.start is under way
  own,         \* age of the node's own record in _known_miners
  known,       \* the other records
  scores,      \* _peer_scores
  instances,   \* status of the instances of the manager, by address
  active,      \* active_instance
  registered,  \* history: the last start has come to register_local_miner
  stalled      \* history: since then, a broadcast took half as long as a record lasts

loopVars == <<running, loop, starting, own, registered, stalled>>
minerVars == <<known, scores>>
vars == <<loopVars, minerVars, instances, active>>

Loop == {"held", "lost"}
Host == Remote \cup {Self, Loopback}
Address == Host \X Port
Local == <<Loopback, LocalPort>>
Status == {"UNKNOWN", "RUNNING", "UNREACHABLE"}
Record == [host: Host, port: Port, fresh: BOOLEAN, score: 0 .. MaxScore]

ASSUME RegistryAssumption ==
  /\ Self \notin Remote /\ Loopback \notin Remote /\ Loopback # Self
  /\ LocalPort \in Port
  /\ AnnounceTime \in Nat \ {0} /\ EvictTime \in Nat /\ AnnounceTime < EvictTime
  /\ StartScore \in 0 .. MaxScore /\ MaxScore \in Nat /\ MinScore \in Nat
  /\ RegisterStep \in Nat /\ ResultStep \in Nat /\ BadStep \in Nat
  /\ Absent \notin Record \cup Status \cup Address \cup Nat

TypeOK ==
  /\ running \in BOOLEAN /\ starting \in BOOLEAN
  /\ loop \in [Loop -> [at: {"none", "sleep", "send", "stray"}, time: 0 .. EvictTime + 1]]
  /\ own \in 0 .. EvictTime + 1 \cup {Absent}
  /\ known \in [Remote -> Record \cup {Absent}]
  /\ scores \in [Remote -> 0 .. MaxScore]
  /\ instances \in [Address -> Status \cup {Absent}] /\ instances[Local] # Absent
  /\ active \in Address \cup {Absent}
  /\ active # Absent => instances[active] # Absent
  /\ registered \in BOOLEAN /\ stalled \in BOOLEAN

Ended == [at |-> "none", time |-> 0]
Asleep == [at |-> "sleep", time |-> AnnounceTime]

Init ==
  /\ running = FALSE /\ starting = FALSE
  /\ loop = [l \in Loop |-> Ended]
  /\ own = Absent
  /\ known = [m \in Remote |-> Absent]
  /\ scores = [m \in Remote |-> StartScore]
  /\ instances = [a \in Address |-> IF a = Local THEN "UNKNOWN" ELSE Absent]
  /\ active = Absent
  /\ registered = FALSE /\ stalled = FALSE

-----------------------------------------------------------------------------
(***************************************************************************)
(* The announce loop.                                                      *)
(***************************************************************************)

Sending == \E l \in Loop : loop[l].at \in {"send", "stray"}

Older(age) == IF age <= EvictTime THEN age + 1 ELSE age

\* A loop never oversleeps; a broadcast, which waits for every connection in
\* turn, may take any time.
Tick ==
  /\ \A l \in Loop : loop[l].at = "sleep" => loop[l].time > 0
  /\ own' = IF own = Absent THEN Absent ELSE Older(own)
  /\ loop' = [l \in Loop |->
       CASE loop[l].at = "none" -> Ended
         [] loop[l].at = "sleep" -> [loop[l] EXCEPT !.time = @ - 1]
         [] OTHER -> [loop[l] EXCEPT !.time = Older(@)]]
  /\ stalled' = (stalled \/
       \E l \in Loop : loop[l].at \in {"send", "stray"} /\ 2 * loop'[l].time + AnnounceTime > EvictTime)
  /\ UNCHANGED <<running, starting, registered, minerVars, instances, active>>

\* What becomes of a loop at the end of an iteration.
AfterIteration == IF running THEN Asleep ELSE Ended

\* The loop wakes up, without another look at _running.  It has something to
\* announce as long as the node's own record is in the registry.
Wake(l) ==
  /\ loop[l].at = "sleep" /\ loop[l].time = 0
  /\ loop' = [loop EXCEPT ![l] =
       IF own = Absent THEN AfterIteration ELSE [at |-> "send", time |-> 0]]
  /\ UNCHANGED <<running, starting, own, registered, stalled, minerVars, instances, active>>

\* Mutant: last_seen of the node's own record is left alone.
RefreshedNot(l) == own

\* The announcement refreshes the record it was made from, unless that record
\* was replaced or removed in the meantime.
Refreshed(l) == IF loop[l].at = "send" THEN 0 ELSE own

Sent(l) ==
  /\ loop[l].at \in {"send", "stray"}
  /\ own' = Refreshed(l)
  /\ loop' = [loop EXCEPT ![l] = AfterIteration]
  /\ UNCHANGED <<running, starting, registered, stalled, minerVars, instances, active>>

\* The loops that are sending refresh a record that is not in the registry.
Astray(loops) == [l \in Loop |-> IF loops[l].at = "send" THEN [loops[l] EXCEPT !.at = "stray"] ELSE loops[l]]

-----------------------------------------------------------------------------
(***************************************************************************)
(* Announcements and results of other miners; the sweep.                   *)
(***************************************************************************)

AtMost(a, b) == IF a > b THEN b ELSE a

\* Mutant: the host under which others reach the miner.
AnnouncedHostOwn(m) == m

\* What orchestrator.start gives for the host of every miner.
AnnouncedHost(m) == Loopback

Listed(m, port) == [host |-> AnnouncedHost(m), port |-> port, fresh |-> TRUE, score |-> scores[m]]

\* MiningP2PSubnet.handle_miner_register.
handle_miner_register(m, payload, port) ==
  IF payload = "object"
  THEN /\ known' = [known EXCEPT ![m] = Listed(m, port)]
       /\ scores' = [scores EXCEPT ![m] = AtMost(MaxScore, @ + RegisterStep)]
  ELSE /\ scores' = [scores EXCEPT ![m] = IF @ > BadStep THEN @ - BadStep ELSE 0]
       /\ UNCHANGED known

\* Mutant: the payload is left to the subnet to parse.
ReceiveRegisterUnparsed(m, payload, port) ==
  /\ handle_miner_register(m, payload, port)
  /\ UNCHANGED <<loopVars, instances, active>>

\* P2PNode._handle_miner_register parses the payload before the subnet does.
\* Of what is not JSON it tells nobody; what is not text, or not an object,
\* makes it raise.
ReceiveRegister(m, payload, port) ==
  /\ IF payload = "object"
     THEN handle_miner_register(m, payload, port)
     ELSE UNCHANGED minerVars
  /\ UNCHANGED <<loopVars, instances, active>>

\* The reward in handle_job_result.
Reward(m) ==
  /\ scores' = [scores EXCEPT ![m] = AtMost(MaxScore, @ + ResultStep)]
  /\ known' = IF known[m] = Absent THEN known
              ELSE [known EXCEPT ![m].score = AtMost(MaxScore, scores[m] + ResultStep)]
  /\ UNCHANGED <<loopVars, instances, active>>

\* Ten minutes without an announcement of m.
GrowStale(m) ==
  /\ known[m] # Absent
  /\ known' = [known EXCEPT ![m].fresh = FALSE]
  /\ UNCHANGED <<loopVars, scores, instances, active>>

\* An iteration of the cleanup loop.  The records in dead are older than half
\* an hour.
Sweep(dead) ==
  /\ running \/ loop["lost"].at # "none"
  /\ dead \subseteq {m \in Remote : known[m] # Absent /\ ~known[m].fresh}
  /\ known' = [m \in Remote |-> IF m \in dead THEN Absent ELSE known[m]]
  /\ IF own # Absent /\ own > EvictTime
     THEN own' = Absent /\ loop' = Astray(loop)
     ELSE UNCHANGED <<own, loop>>
  /\ UNCHANGED <<running, starting, registered, stalled, scores, instances, active>>

\* get_available_miners.
Available == {m \in Remote : known[m] # Absent /\ known[m].fresh /\ known[m].score >= MinScore}

-----------------------------------------------------------------------------
(***************************************************************************)
(* The instances.                                                          *)
(***************************************************************************)

AddressOf(m) == <<known[m].host, known[m].port>>

Healthy == {a \in Address : instances[a] = "RUNNING"}

\* The first choice of _get_best_p2p_instance (get_best_instance).
Best == IF Local \in Healthy THEN {Local} ELSE Healthy

\* Its second choice: miners whose address is not in the table yet.
Unconnected == {m \in Available : instances[AddressOf(m)] = Absent}

check_instance_health(a) ==
  /\ instances[a] # Absent
  /\ \E status \in {"RUNNING", "UNREACHABLE"} : instances' = [instances EXCEPT ![a] = status]
  /\ UNCHANGED <<loopVars, minerVars, active>>

\* A request of generate fails.
InferenceFails ==
  /\ active # Absent /\ instances[active] = "RUNNING"
  /\ instances' = [instances EXCEPT ![active] = "UNREACHABLE"]
  /\ UNCHANGED <<loopVars, minerVars, active>>

-----------------------------------------------------------------------------
(***************************************************************************)
(* start_mining and stop_mining.                                           *)
(***************************************************************************)

\* MiningP2PSubnet.start, at the beginning of start_mining.  The loop of an
\* earlier start that was not stopped goes on; one at most is modelled.
Start ==
  /\ ~starting
  /\ loop["held"].at = "none" \/ loop["lost"].at = "none"
  /\ loop' = [held |-> Asleep,
              lost |-> IF loop["held"].at = "none" THEN loop["lost"] ELSE loop["held"]]
  /\ running' = TRUE /\ starting' = TRUE /\ registered' = FALSE
  /\ UNCHANGED <<own, stalled, minerVars, instances, active>>

\* The model does not fit or cannot be pulled.
StartFails ==
  /\ starting /\ starting' = FALSE
  /\ UNCHANGED <<running, loop, own, registered, stalled, minerVars, instances, active>>

\* orchestrator.start from register_local_miner on.
Registers ==
  /\ starting /\ starting' = FALSE
  /\ own' = 0 /\ loop' = Astray(loop)
  /\ registered' = TRUE /\ stalled' = FALSE
  /\ \/ /\ active' \in Best
        /\ UNCHANGED instances
     \/ /\ Best = {}
        /\ \E m \in Unconnected :
             /\ \A other \in Unconnected : known[other].score <= known[m].score
             /\ instances' = [instances EXCEPT ![AddressOf(m)] = "UNKNOWN"]
             /\ active' = AddressOf(m)
     \/ /\ Best = {} /\ Unconnected = {}
        /\ UNCHANGED <<instances, active>>
  /\ UNCHANGED <<running, minerVars>>

\* The local daemon ends if it is a process of this program.
Stop ==
  /\ running' = FALSE
  /\ loop' = [loop EXCEPT !["held"] = Ended]
  /\ active' = Absent
  /\ instances' \in {instances, [instances EXCEPT ![Local] = "UNREACHABLE"]}
  /\ UNCHANGED <<starting, own, registered, stalled, minerVars>>

-----------------------------------------------------------------------------

Next ==
  \/ Tick
  \/ \E l \in Loop : Wake(l) \/ Sent(l)
  \/ \E m \in Remote, payload \in {"object", "other"}, port \in Port : ReceiveRegister(m, payload, port)
  \/ \E m \in Remote : Reward(m) \/ GrowStale(m)
  \/ \E dead \in SUBSET Remote : Sweep(dead)
  \/ \E a \in Address : check_instance_health(a)
  \/ InferenceFails
  \/ Start \/ StartFails \/ Registers \/ Stop

\* Time passes, a loop that is due wakes up, a broadcast ends at some time.
Fairness ==
  /\ WF_vars(Tick)
  /\ \A l \in Loop : WF_vars(Wake(l)) /\ WF_vars(Sent(l))

Spec == Init /\ [][Next]_vars /\ Fairness

-----------------------------------------------------------------------------
(***************************************************************************)
(* Properties.                                                             *)
(***************************************************************************)

\* Where a request to a host arrives.
Machine(host) == IF host = Loopback THEN Self ELSE host

\* No inference leaves the machine: every instance in the manager's table, and
\* so the active one, is an Ollama on this machine.  A miner found over the
\* subnet becomes an instance only if it announces a port that no instance has
\* yet, and then it stands for that port of this machine.
InferenceStaysHome ==
  /\ \A a \in Address : instances[a] # Absent => Machine(a[1]) = Self
  /\ \A m \in Remote : known[m] # Absent /\ known[m].port = LocalPort => m \notin Unconnected

\* No miner is ever ranked below a newcomer: nothing that a miner sends lowers
\* its score, so a minimum up to the score of a newcomer excludes nobody.
NobodyExcluded ==
  /\ \A m \in Remote : scores[m] >= StartScore
  /\ MinScore <= StartScore => Available = {m \in Remote : known[m] # Absent /\ known[m].fresh}

\* A miner whose start has registered it announces itself again and again while
\* its subnet runs, unless a broadcast takes so long that its own record may be
\* removed under it (with which the announcements end for good); and when the
\* subnet stays stopped all its loops end, those too that no stop cancels.
AnnouncesWhileRunning ==
  /\ <>[](running /\ registered /\ ~stalled) => []<>Sending
  /\ <>[]~running => <>[](\A l \in Loop : loop[l] = Ended)

=============================================================================
