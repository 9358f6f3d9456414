------------------------------ MODULE Startup ------------------------------
(***************************************************************************)
(* From the start of the container to the first poll, and what happens     *)
(* when something on the way fails.  init_docker.sh clones config and      *)
(* computes anew, writes the settings, lets snapshotter_id_ping ask the    *)
(* protocol state whether this node may run for its slot, sets a trap that *)
(* delays every later exit, and runs the detector.  EventDetectorProcess,  *)
(* ProcessorDistributor and SnapshotAsyncWorker then initialize in the     *)
(* order of their init methods.                                            *)
(*                                                                         *)
(* Some failures end the process, some are only logged and leave an        *)
(* attribute undefined.  The simulated epoch is the only test of these.    *)
(*                                                                         *)
(* Calm is the world at its best: every call answers, nobody kills.        *)
(***************************************************************************)
EXTENDS Integers, Sequences

\* What the config repository can hold: "incomplete" names a preload task
\* without a preloader, "noCompute" a class that the computes do not have,
\* "unloadable" does not pass the checks of settings/config.py.
Configs == {"complete", "incomplete", "noCompute", "unloadable"}

\* The two questions of snapshotter_id_ping.
Identity == {"allSnapshotters", "slotSnapshotterMapping"}

\* What each init reads or builds, in the order of the awaits.  The clients
\* of Telegram and of the collector cannot fail to be built.
DetectorInit == <<"rpc_helper", "contract">>
DistributorReads == <<"distributor_rpc", "block_time", "EPOCH_SIZE", "dayCounter">>
ProjectsMetadata == <<"epoch_size", "chain_id">>
Imports == <<"preloaders", "computes">>
WorkerInit == <<"ipfs", "signer", "protocol_meta">>

InitSteps ==
  DetectorInit \o DistributorReads \o ProjectsMetadata \o Imports \o WorkerInit

\* Failures that an except clause only logs; dayCounter alone is read later.
Unread == {"block_time", "EPOCH_SIZE", "protocol_meta"}
Swallowed == Unread \cup {"dayCounter"}

\* What _epoch_release_processor uses without a test.
ReleaseNeeds == {"dayCounter", "preloaders"}

Script == {"config", "compute", "autofill"} \cup Identity

VARIABLES
  at,         \* line of the script, or "init", "polling", "delay", "down"
  step,       \* next of InitSteps
  has,        \* steps that gave the process what they are for
  config,     \* what was cloned
  calm,       \* external: does the world behave?
  registry,   \* external: questions the protocol state answers with yes
  published,  \* external: the branch tip of the config repository
  seen,       \* history: yes answers there were since the container started
  offered     \* history: branch tips there were since the container started

world == <<calm, registry, published, seen, offered>>
vars == <<at, step, has, config, world>>

Init ==
  /\ at = "down"
  /\ step = 1
  /\ has = {}
  /\ config \in Configs
  /\ calm \in BOOLEAN
  /\ registry \in SUBSET Identity
  /\ published \in Configs
  /\ seen = registry
  /\ offered = {published}

-----------------------------------------------------------------------------
(***************************************************************************)
(* init_docker.sh.  docker compose restarts whatever exited.  An exit of   *)
(* the script before the trap is set is not delayed.                       *)
(***************************************************************************)
Start_KeepsObjects ==
  /\ at = "down"
  /\ at' = "config"
  /\ step' = 1
  /\ seen' = registry
  /\ offered' = {published}
  /\ UNCHANGED <<has, config, calm, registry, published>>

Start ==
  /\ at = "down"
  /\ at' = "config"
  /\ step' = 1
  /\ has' = {}
  /\ seen' = registry
  /\ offered' = {published}
  /\ UNCHANGED <<config, calm, registry, published>>

CloneConfig_KeepsOld ==
  /\ at = "config"
  /\ at' = "compute"
  /\ UNCHANGED <<step, has, config, world>>

CloneConfig ==
  /\ at = "config"
  /\ config' = published
  /\ at' = "compute"
  /\ UNCHANGED <<step, has, world>>

CloneCompute ==
  /\ at = "compute"
  /\ at' = "autofill"
  /\ UNCHANGED <<step, has, config, world>>

Autofill ==
  /\ at = "autofill"
  /\ at' = "allSnapshotters"
  /\ UNCHANGED <<step, has, config, world>>

\* The ping loads the settings and asks twice; one No ends the script.  It
\* judges after the second answer, which makes no difference.
Confirmed_AnyRegistered(question) == registry # {} /\ config # "unloadable"

Confirmed(question) == question \in registry /\ config # "unloadable"

PingAllowed ==
  /\ at = "allSnapshotters"
  /\ Confirmed("allSnapshotters")
  /\ at' = "slotSnapshotterMapping"
  /\ UNCHANGED <<step, has, config, world>>

PingSlot ==
  /\ at = "slotSnapshotterMapping"
  /\ Confirmed("slotSnapshotterMapping")
  /\ at' = "init"
  /\ UNCHANGED <<step, has, config, world>>

ScriptFails ==
  /\ at \in Script
  /\ ~calm \/ (at \in Identity /\ ~Confirmed(at))
  /\ at' = "down"
  /\ UNCHANGED <<step, has, config, world>>

-----------------------------------------------------------------------------
(***************************************************************************)
(* The inits, one step of InitSteps at a time.                             *)
(***************************************************************************)
InitDone == step > Len(InitSteps)

Current == InitSteps[step]

\* The imports follow the config: a preload task without a preloader is
\* passed over, a class that is not there raises.
StepSucceeds ==
  /\ at = "init"
  /\ ~InitDone
  /\ Current = "computes" => config # "noCompute"
  /\ has' = IF Current = "preloaders" /\ config = "incomplete" THEN has
            ELSE has \cup {Current}
  /\ step' = step + 1
  /\ UNCHANGED <<at, config, world>>

StepSwallowed ==
  /\ at = "init"
  /\ ~InitDone
  /\ Current \in Swallowed
  /\ ~calm
  /\ step' = step + 1
  /\ UNCHANGED <<at, has, config, world>>

\* run logs the error and ends the process; the trap delays the exit.
StepFails ==
  /\ at = "init"
  /\ ~InitDone
  /\ Current \notin Swallowed
  /\ ~calm \/ (Current = "computes" /\ config = "noCompute")
  /\ at' = "delay"
  /\ UNCHANGED <<step, has, config, world>>

SimulationPasses_Unaware == TRUE

\* _init_check_and_report awaits the release of a simulated epoch.
SimulationPasses == ReleaseNeeds \subseteq has

Simulate ==
  /\ at = "init"
  /\ InitDone
  /\ SimulationPasses
  /\ at' = "polling"
  /\ UNCHANGED <<step, has, config, world>>

SimulateFails ==
  /\ at = "init"
  /\ InitDone
  /\ ~calm \/ ~SimulationPasses
  /\ at' = "delay"
  /\ UNCHANGED <<step, has, config, world>>

\* A signal, the epoch activity check, an error that leaves the loop.
DetectorExits ==
  /\ at = "polling"
  /\ ~calm
  /\ at' = "delay"
  /\ UNCHANGED <<step, has, config, world>>

\* handle_exit sleeps and exits.
DelayOver ==
  /\ at = "delay"
  /\ at' = "down"
  /\ UNCHANGED <<step, has, config, world>>

\* The container itself is killed, with no delay.
Killed ==
  /\ at # "down"
  /\ ~calm
  /\ at' = "down"
  /\ UNCHANGED <<step, has, config, world>>

-----------------------------------------------------------------------------
(***************************************************************************)
(* External: the network and the operators.                                *)
(***************************************************************************)
WeatherChanges ==
  /\ calm' = ~calm
  /\ UNCHANGED <<at, step, has, config, registry, published, seen, offered>>

RegistryChanges ==
  /\ registry' \in SUBSET Identity
  /\ seen' = seen \cup registry'
  /\ UNCHANGED <<at, step, has, config, calm, published, offered>>

ConfigPublished ==
  /\ published' \in Configs
  /\ offered' = offered \cup {published'}
  /\ UNCHANGED <<at, step, has, config, calm, registry, seen>>

Lifecycle ==
  \/ Start
  \/ CloneConfig
  \/ CloneCompute
  \/ Autofill
  \/ PingAllowed
  \/ PingSlot
  \/ ScriptFails
  \/ StepSucceeds
  \/ StepSwallowed
  \/ StepFails
  \/ Simulate
  \/ SimulateFails
  \/ DetectorExits
  \/ DelayOver
  \/ Killed

Next ==
  \/ Lifecycle
  \/ WeatherChanges
  \/ RegistryChanges
  \/ ConfigPublished

Spec == Init /\ [][Next]_vars

\* Clones, calls and sleeps end, one way or the other.
FairSpec == Spec /\ WF_vars(Lifecycle)

-----------------------------------------------------------------------------
(***************************************************************************)
(* Properties.                                                             *)
(***************************************************************************)

\* Types; a process has nothing from a step that it did not reach, so
\* nothing of a process before it.
TypeOK ==
  /\ at \in Script \cup {"init", "polling", "delay", "down"}
  /\ step \in 1..Len(InitSteps) + 1
  /\ has \subseteq {InitSteps[i] : i \in 1..step - 1}
  /\ config \in Configs
  /\ calm \in BOOLEAN
  /\ registry \subseteq Identity
  /\ published \in Configs
  /\ seen \subseteq Identity
  /\ offered \subseteq Configs

\* A process that polls has all that the code reads later, although several
\* failures of its start are only logged: what was swallowed and is needed
\* was caught by the simulated epoch.
PollingReady ==
  at = "polling" => {InitSteps[i] : i \in 1..Len(InitSteps)} \ Unread \subseteq has

\* A process that polls does so on answers and on a config that were true
\* since its container started: no earlier start, whatever it left in the
\* file system, counts for it.
StartedAfresh == at = "polling" => seen = Identity /\ config \in offered

\* What the two rest on: the steps so far, the questions asked so far.
StepsDone ==
  at \notin {"delay", "down"} =>
    \A i \in 1..step - 1 :
      InitSteps[i] \in has \/ InitSteps[i] \in Swallowed \cup {"preloaders"}

SimulationDone == at = "polling" => InitDone /\ SimulationPasses

Asked ==
  /\ at # "down" => registry \subseteq seen /\ published \in offered
  /\ at \notin {"down", "config", "delay"} => config \in offered
  /\ at \in {"slotSnapshotterMapping", "init", "polling"} => "allSnapshotters" \in seen
  /\ at \in {"init", "polling"} => "slotSnapshotterMapping" \in seen

IInv ==
  /\ TypeOK
  /\ StepsDone
  /\ SimulationDone
  /\ Asked

\* Whatever failed before, and whatever half a start left undefined: once the
\* world is calm, the node registered and the config complete, for good, the
\* node ends up polling and stays so.
Recovers ==
  <>[](calm /\ registry = Identity /\ published = "complete") => <>[](at = "polling")
=============================================================================
