---------------------------- MODULE MinerLifecycle ----------------------------
(***************************************************************************)
(* Starting and stopping to mine: Miner.start, stop and _mining_loop       *)
(* (mining/__init__.py), through ConsensusEngine.start_mining, stop_mining *)
(* and mine_block and OllamaOrchestrator.start, stop and submit_job        *)
(* (consensus/__init__.py) down to OllamaManager with its daemon process   *)
(* and its health checks (mining/ollama_miner.py).                         *)
(*                                                                         *)
(* One action is what runs between two awaits.  Whatever is awaited, a     *)
(* request to the daemon above all, may turn out either way: a daemon that *)
(* answers need not be the process started here.  Cancelling a task ends   *)
(* it at its next turn, in which it does nothing more; here at once.       *)
(***************************************************************************)
CONSTANTS
  Start,  \* the calls of Miner.start; each stands for the tasks it creates
  Stop,   \* callers of Miner.stop, which may call it again
  None

ASSUME LifecycleAssumption == None \notin Start

VARIABLES
  status,      \* Miner.stats.status
  task,        \* Miner._mining_task
  mining,      \* ConsensusEngine._mining
  running,     \* OllamaOrchestrator._running
  active,      \* its active_model and active_instance are set
  managing,    \* OllamaManager._running
  healthTask,  \* OllamaManager._health_check_task
  server,      \* OllamaManager._server_process
  instance,    \* the status of the local instance
  starting,    \* starting[k]: what start k is waiting for
  stopping,    \* stopping[c]: the process whose end c is waiting for
  loop,        \* loop[k]: the mining loop that start k created
  health,      \* health[k]: the health loop that start k created
  alive,       \* the processes, by the starts that created them
  overlapped,  \* history: some call began while another was in progress
  abandoned    \* history: an exception has left a start since the last one began

engine == <<mining, running, active>>
manager == <<managing, healthTask, server, instance, alive>>
tasks == <<loop, health>>
history == <<overlapped, abandoned>>
calls == <<starting, stopping, history>>
vars == <<status, task, engine, manager, tasks, calls>>

Waiting == {"health", "spawn", "boot", "models", "pull"}
Turning == {"top", "inference", "rest"}
Checking == {"top", "request", "sleep"}

Live(k) == loop[k] \in Turning

\* Only a cancelled loop ends, and no variable keeps it then.
TypeOK ==
  /\ status \in {"STOPPED", "STARTING", "RUNNING", "ERROR"}
  /\ {task, healthTask, server} \subseteq Start \cup {None}
  /\ {mining, running, active, managing, overlapped, abandoned} \subseteq BOOLEAN
  /\ instance \in {"INSTALLED", "STARTING", "RUNNING", "STOPPING", "STOPPED", "ERROR", "UNREACHABLE"}
  /\ starting \in [Start -> Waiting \cup {"none", "over"}]
  /\ stopping \in [Stop -> Start \cup {None}]
  /\ loop \in [Start -> Turning \cup {"none", "over"}] /\ (task # None => Live(task))
  /\ health \in [Start -> Checking \cup {"none", "over"}]
  /\ alive \subseteq Start

\* A miner with a keypair on a machine where Ollama is installed.
Init ==
  /\ status = "STOPPED" /\ task = None
  /\ mining = FALSE /\ running = FALSE /\ active = FALSE
  /\ managing = FALSE /\ healthTask = None /\ server = None
  /\ instance = "INSTALLED" /\ alive = {}
  /\ starting = [k \in Start |-> "none"]
  /\ stopping = [c \in Stop |-> None]
  /\ loop = [k \in Start |-> "none"]
  /\ health = [k \in Start |-> "none"]
  /\ overlapped = FALSE /\ abandoned = FALSE

Idle == (\A k \in Start : starting[k] \notin Waiting) /\ (\A c \in Stop : stopping[c] = None)

Called == overlapped' = (overlapped \/ ~Idle)

-----------------------------------------------------------------------------
(***************************************************************************)
(* start.                                                                  *)
(***************************************************************************)

Await(k, what) == starting' = [starting EXCEPT ![k] = what]

\* Mutant: the status is left as it is.
FailsSilently(k) ==
  /\ Await(k, "over")
  /\ UNCHANGED <<status, task, engine, loop, abandoned>>

\* The end of a start that fails: what it has set up so far stays.
Fails(k) ==
  /\ Await(k, "over")
  /\ status' = "ERROR"
  /\ UNCHANGED <<task, engine, loop, abandoned>>

\* An exception leaves the start: no try is around it, and the status stays.
Abandons(k) ==
  /\ Await(k, "over")
  /\ abandoned' = TRUE
  /\ UNCHANGED <<status, task, engine, loop>>

\* The rest of all three starts, which has no await.
Succeeds(k) ==
  /\ Await(k, "over")
  /\ active' = TRUE /\ running' = TRUE /\ mining' = TRUE
  /\ status' = "RUNNING"
  /\ loop' = [loop EXCEPT ![k] = "top"]
  /\ task' = k
  /\ UNCHANGED abandoned

\* _get_best_p2p_instance: without a subnet there is the local instance or none.
SelectInstance(k) == IF instance = "RUNNING" THEN Succeeds(k) ELSE Fails(k)

\* Mutant: a second start is let in while the miner runs.
MayStartAlways(k) == starting[k] = "none"

MayStart(k) == starting[k] = "none" /\ status # "RUNNING"

\* start as far as the first request to the daemon.
BeginStart(k) ==
  /\ MayStart(k)
  /\ Called
  /\ status' = "STARTING"
  /\ managing' = TRUE
  /\ abandoned' = FALSE
  /\ Await(k, "health")
  /\ UNCHANGED <<task, engine, healthTask, server, instance, alive, tasks, stopping>>

\* The model does not fit into memory.
RefuseStart(k) ==
  /\ MayStart(k)
  /\ Called
  /\ Fails(k)
  /\ UNCHANGED <<manager, health, stopping>>

\* The end of OllamaManager.start, which ignores what became of the daemon.
StartHealthLoop(k, state) ==
  /\ instance' = state
  /\ healthTask' = k
  /\ health' = [health EXCEPT ![k] = "top"]
  /\ Await(k, "models")

\* start_local_daemon: the daemon is there already, or it has to be started.
FindDaemon(k) ==
  /\ starting[k] = "health"
  /\ \/ StartHealthLoop(k, "RUNNING")
     \/ instance' = "STARTING" /\ Await(k, "spawn") /\ UNCHANGED <<healthTask, health>>
  /\ UNCHANGED <<status, task, engine, managing, server, alive, loop, stopping, history>>

SpawnDaemon(k) ==
  /\ starting[k] = "spawn"
  /\ \/ /\ server' = k /\ alive' = alive \cup {k}
        /\ Await(k, "boot")
        /\ UNCHANGED <<instance, healthTask, health>>
     \/ StartHealthLoop(k, "ERROR") /\ UNCHANGED <<server, alive>>
  /\ UNCHANGED <<status, task, engine, managing, loop, stopping, history>>

\* One of ten attempts to reach it succeeds, or none.
BootDaemon(k) ==
  /\ starting[k] = "boot"
  /\ StartHealthLoop(k, "RUNNING") \/ StartHealthLoop(k, "ERROR")
  /\ UNCHANGED <<status, task, engine, managing, server, alive, loop, stopping, history>>

\* auto_pull_models: the model is listed, or it is pulled.  The answer of the
\* daemon may be no JSON, or have no list of models in it.
ListModels(k) ==
  /\ starting[k] = "models"
  /\ \/ SelectInstance(k)
     \/ Await(k, "pull") /\ UNCHANGED <<status, task, engine, loop, abandoned>>
     \/ Abandons(k)
  /\ UNCHANGED <<manager, health, stopping, overlapped>>

\* Here it may be an error that cannot be decoded.
PullModel(k) ==
  /\ starting[k] = "pull"
  /\ SelectInstance(k) \/ Fails(k) \/ Abandons(k)
  /\ UNCHANGED <<manager, health, stopping, overlapped>>

StartStep(k) == FindDaemon(k) \/ SpawnDaemon(k) \/ BootDaemon(k) \/ ListModels(k) \/ PullModel(k)

-----------------------------------------------------------------------------
(***************************************************************************)
(* stop.                                                                   *)
(***************************************************************************)

\* The end of all three stops, after the manager's.
EndStop ==
  /\ active' = FALSE
  /\ status' = "STOPPED"

CancelLoop ==
  /\ loop' = [k \in Start |-> IF k = task THEN "over" ELSE loop[k]]
  /\ task' = None

CancelHealth ==
  /\ health' = [k \in Start |-> IF k = healthTask THEN "over" ELSE health[k]]
  /\ healthTask' = None

\* Mutant: the manager goes on running.
ClearFlagsButManager ==
  /\ mining' = FALSE /\ running' = FALSE
  /\ UNCHANGED managing

ClearFlags == mining' = FALSE /\ running' = FALSE /\ managing' = FALSE

\* stop as far as its await.  A process that has ended needs no waiting.
BeginStop(c) ==
  /\ stopping[c] = None
  /\ Called
  /\ CancelLoop /\ ClearFlags /\ CancelHealth
  /\ IF server \in alive
     THEN /\ instance' = "STOPPING"
          /\ stopping' = [stopping EXCEPT ![c] = server]
          /\ UNCHANGED <<server, active, status>>
     ELSE /\ instance' = IF server = None THEN instance ELSE "STOPPED"
          /\ server' = None
          /\ EndStop
          /\ UNCHANGED stopping
  /\ UNCHANGED <<alive, starting, abandoned>>

\* The process ends when it is told to.
EndDaemon(c) ==
  /\ stopping[c] # None
  /\ alive' = alive \ {stopping[c]}
  /\ server' = None /\ instance' = "STOPPED"
  /\ EndStop
  /\ stopping' = [stopping EXCEPT ![c] = None]
  /\ UNCHANGED <<task, mining, running, managing, healthTask, tasks, starting, history>>

\* It does not within ten seconds: what _server_process is by now is killed.
KillDaemon(c) ==
  /\ stopping[c] \in alive /\ server # None
  /\ alive' = alive \ {server}
  /\ server' = None /\ instance' = "STOPPED"
  /\ EndStop
  /\ stopping' = [stopping EXCEPT ![c] = None]
  /\ UNCHANGED <<task, mining, running, managing, healthTask, tasks, starting, history>>

\* Another stop has reset _server_process: an AttributeError leaves stop.
FailStop(c) ==
  /\ stopping[c] \in alive /\ server = None
  /\ stopping' = [stopping EXCEPT ![c] = None]
  /\ UNCHANGED <<status, task, engine, manager, tasks, starting, history>>

StopStep(c) == EndDaemon(c) \/ KillDaemon(c) \/ FailStop(c)

\* A process ends by itself: a second daemon finds its port in use.
ExitDaemon(k) ==
  /\ k \in alive /\ alive' = alive \ {k}
  /\ UNCHANGED <<status, task, engine, managing, healthTask, server, instance, tasks, calls>>

-----------------------------------------------------------------------------
(***************************************************************************)
(* The tasks.                                                              *)
(***************************************************************************)

Turn(k, state) == loop' = [loop EXCEPT ![k] = state]

\* mine_block and submit_job as far as the inference, if everything is there.
MineBlock(k) ==
  /\ loop[k] = "top"
  /\ Turn(k, IF mining /\ running /\ active /\ instance = "RUNNING"
             THEN "inference" ELSE "rest")
  /\ UNCHANGED <<status, task, engine, manager, health, calls>>

\* The inference ends: with a block or without, or with an error.
EndInference(k) ==
  /\ loop[k] = "inference"
  /\ Turn(k, "rest")
  /\ instance' \in {instance, "UNREACHABLE"}
  /\ UNCHANGED <<status, task, engine, managing, healthTask, server, alive, health, calls>>

\* The sleep between two turns, short, or longer after an exception.
Rested(k) ==
  /\ loop[k] = "rest"
  /\ Turn(k, "top")
  /\ UNCHANGED <<status, task, engine, manager, health, calls>>

Check(k, state) == health' = [health EXCEPT ![k] = state]

\* The condition of _health_loop, at its beginning and after its sleep.
BeginCheck(k) ==
  /\ health[k] \in {"top", "sleep"}
  /\ Check(k, IF managing THEN "request" ELSE "over")
  /\ UNCHANGED <<status, task, engine, manager, loop, calls>>

\* check_instance_health overwrites the status, whatever it was.
EndCheck(k) ==
  /\ health[k] = "request"
  /\ instance' \in {"RUNNING", "UNREACHABLE"}
  /\ Check(k, "sleep")
  /\ UNCHANGED <<status, task, engine, managing, healthTask, server, alive, loop, calls>>

\* A start or a stop, as the status says.
Toggle(k, c) == IF status = "RUNNING" THEN BeginStop(c) ELSE BeginStart(k) \/ RefuseStart(k)

LoopStep(k) == MineBlock(k) \/ EndInference(k) \/ Rested(k)

HealthStep(k) == BeginCheck(k) \/ EndCheck(k)

Next ==
  \/ \E k \in Start :
       BeginStart(k) \/ RefuseStart(k) \/ StartStep(k) \/ LoopStep(k) \/ HealthStep(k) \/ ExitDaemon(k)
  \/ \E c \in Stop : BeginStop(c) \/ StopStep(c)
  \/ \E k \in Start, c \in Stop : Toggle(k, c)

Spec == Init /\ [][Next]_vars

\* Every request has a timeout and every sleep an end.
FairSpec ==
  /\ Spec
  /\ \A k \in Start : WF_vars(StartStep(k)) /\ WF_vars(LoopStep(k)) /\ WF_vars(HealthStep(k))
  /\ \A c \in Stop : WF_vars(StopStep(c))

-----------------------------------------------------------------------------
(***************************************************************************)
(* Properties.                                                             *)
(***************************************************************************)

\* As long as calls do not overlap, there is one mining loop at most, it is the
\* one that stop would cancel, and it never finds the engine stopped or the
\* model gone under it.
LoopOwned ==
  ~overlapped =>
    \A k \in Start : Live(k) => k = task /\ status = "RUNNING" /\ mining /\ running /\ active

\* The status tells the truth however calls overlap: a miner that is STARTING has
\* a start in progress, unless an exception has left one, and one that is RUNNING
\* has a loop that stop can cancel, unless a stop is under way.
StatusHonest ==
  /\ status = "STARTING" => abandoned \/ \E k \in Start : starting[k] \in Waiting
  /\ status = "RUNNING" /\ (\A c \in Stop : stopping[c] = None) => task # None

\* If calls did not overlap, the background tasks come to an end after a stop,
\* also those that an earlier start left behind when it failed.
Quiet ==
  Idle /\ status = "STOPPED" ~>
    \/ status # "STOPPED" \/ overlapped
    \/ \A k \in Start : health[k] \notin Checking /\ ~Live(k)

=============================================================================
