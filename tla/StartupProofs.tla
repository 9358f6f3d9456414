---------------------------- MODULE StartupProofs ----------------------------
(***************************************************************************)
(* Theorems about Startup, for a world that changes at any time.           *)
(***************************************************************************)
EXTENDS Startup, TLAPS

\* The inits are thirteen steps.
LEMMA StepsLength == Len(InitSteps) = 13
  BY DEF InitSteps, DetectorInit, DistributorReads, ProjectsMetadata, Imports, WorkerInit

\* The invariant holds initially.
LEMMA InvInit == Init => IInv
  BY StepsLength DEF Init, IInv, TypeOK, StepsDone, SimulationDone, Asked

\* A step of the script leaves the inits alone.
ScriptStep ==
  \/ CloneConfig
  \/ CloneCompute
  \/ Autofill
  \/ PingAllowed
  \/ PingSlot
  \/ ScriptFails

\* What the script asked is asked since the container started.
LEMMA ScriptInv ==
  ASSUME IInv, ScriptStep
  PROVE  IInv'
  <1>1. /\ step' = step /\ has' = has /\ UNCHANGED world
        /\ at \in Script /\ at' \in Script \cup {"init", "down"}
        /\ config' \in Configs
    BY DEF ScriptStep, CloneConfig, CloneCompute, Autofill, PingAllowed, PingSlot,
           ScriptFails, Script, Identity, IInv, TypeOK, world
  <1>2. TypeOK'
    BY <1>1 DEF IInv, TypeOK, world
  <1>3. SimulationDone'
    BY <1>1 DEF SimulationDone, Script, Identity
  <1>4. Asked'
    <2> USE DEF IInv, Asked, world
    <2>1. CASE CloneConfig
      BY <2>1 DEF CloneConfig
    <2>2. CASE CloneCompute \/ Autofill
      BY <2>2 DEF CloneCompute, Autofill
    <2>3. CASE PingAllowed
      BY <2>3 DEF PingAllowed, Confirmed
    <2>4. CASE PingSlot
      BY <2>4 DEF PingSlot, Confirmed
    <2>5. CASE ScriptFails
      BY <2>5 DEF ScriptFails
    <2> QED
      BY <2>1, <2>2, <2>3, <2>4, <2>5 DEF ScriptStep
  <1>5. StepsDone'
    BY <1>1 DEF IInv, StepsDone, Script, Identity
  <1> QED
    BY <1>2, <1>3, <1>4, <1>5 DEF IInv

\* A step of the inits gives the process what it is for, unless its failure
\* is one that is swallowed.
LEMMA StepInv ==
  ASSUME IInv, StepSucceeds \/ StepSwallowed
  PROVE  IInv'
  <1>1. /\ at = "init" /\ at' = "init" /\ step' = step + 1 /\ config' = config
        /\ UNCHANGED world
        /\ step \in 1..Len(InitSteps) /\ step \in Nat
        /\ has' \subseteq has \cup {InitSteps[step]}
        /\ has \subseteq has'
        /\ InitSteps[step] \in has' \/ InitSteps[step] \in Swallowed \cup {"preloaders"}
    BY StepsLength DEF IInv, TypeOK, StepSucceeds, StepSwallowed, InitDone, Current
  <1>2. TypeOK'
    <2>1. has' \subseteq {InitSteps[i] : i \in 1..step' - 1}
      <3>1. \A i \in 1..step - 1 : i \in 1..step' - 1
        BY <1>1
      <3>2. step \in 1..step' - 1
        BY <1>1
      <3> QED
        BY <1>1, <3>1, <3>2 DEF IInv, TypeOK
    <2>2. step' \in 1..Len(InitSteps) + 1
      BY <1>1, StepsLength
    <2> QED
      BY <1>1, <2>1, <2>2 DEF IInv, TypeOK, world
  <1>3. StepsDone'
    <2> SUFFICES ASSUME NEW i \in 1..step
                 PROVE  InitSteps[i] \in has' \/ InitSteps[i] \in Swallowed \cup {"preloaders"}
      BY <1>1 DEF StepsDone
    <2>1. CASE i = step
      BY <1>1, <2>1
    <2>2. CASE i # step
      <3>1. i \in 1..step - 1
        BY <1>1, <2>2
      <3> QED
        BY <1>1, <3>1 DEF IInv, StepsDone
    <2> QED
      BY <2>1, <2>2
  <1>4. SimulationDone' /\ Asked'
    BY <1>1 DEF IInv, SimulationDone, Asked, world
  <1> QED
    BY <1>2, <1>3, <1>4 DEF IInv

\* The rest starts over, ends the process, or is the simulation.
LEMMA OtherInv ==
  ASSUME IInv,
         \/ Start \/ StepFails \/ Simulate \/ SimulateFails
         \/ DetectorExits \/ DelayOver \/ Killed
         \/ UNCHANGED vars
  PROVE  IInv'
  <1>1. TypeOK'
    BY StepsLength DEF IInv, TypeOK, Start, StepFails, Simulate, SimulateFails, DetectorExits,
       DelayOver, Killed, vars, world, Script
  <1>2. StepsDone'
    BY DEF IInv, StepsDone, Start, StepFails, Simulate, SimulateFails, DetectorExits,
       DelayOver, Killed, vars, world
  <1>3. SimulationDone'
    BY DEF IInv, SimulationDone, InitDone, SimulationPasses, Start, StepFails, Simulate,
       SimulateFails, DetectorExits, DelayOver, Killed, vars, world
  <1>4. Asked'
    BY DEF IInv, Asked, Start, StepFails, Simulate, SimulateFails, DetectorExits,
       DelayOver, Killed, vars, world
  <1> QED
    BY <1>1, <1>2, <1>3, <1>4 DEF IInv

\* What was true since the start stays so, whatever the world does next.
LEMMA WorldInv ==
  ASSUME IInv, WeatherChanges \/ RegistryChanges \/ ConfigPublished
  PROVE  IInv'
  <1>1. UNCHANGED <<at, step, has, config>>
    BY DEF WeatherChanges, RegistryChanges, ConfigPublished
  <1>2. TypeOK' /\ Asked'
    BY <1>1 DEF IInv, TypeOK, Asked, WeatherChanges, RegistryChanges, ConfigPublished
  <1>3. StepsDone' /\ SimulationDone'
    BY <1>1 DEF IInv, StepsDone, SimulationDone, InitDone, SimulationPasses
  <1> QED
    BY <1>2, <1>3 DEF IInv

\* Every step keeps the invariant.
LEMMA InvNext == IInv /\ [Next]_vars => IInv'
  BY ScriptInv, StepInv, OtherInv, WorldInv DEF Next, Lifecycle, ScriptStep

\* The inductive invariant of a start.
THEOREM Invariant == Spec => []IInv
  BY InvInit, InvNext, PTL DEF Spec

\* Types, and nothing of an earlier process.
THEOREM TypeCorrect == Spec => []TypeOK
  <1>1. IInv => TypeOK
    BY DEF IInv
  <1> QED
    BY <1>1, Invariant, PTL

\* A process that polls has all that is read later.
THEOREM Ready == Spec => []PollingReady
  <1>1. IInv => PollingReady
    <2> SUFFICES ASSUME IInv, at = "polling", NEW i \in 1..Len(InitSteps), InitSteps[i] \notin Unread
                 PROVE  InitSteps[i] \in has
      BY DEF PollingReady
    <2>1. i \in 1..step - 1
      BY StepsLength DEF IInv, TypeOK, SimulationDone, InitDone
    <2>2. InitSteps[i] \in has \/ InitSteps[i] \in ReleaseNeeds
      BY <2>1 DEF IInv, StepsDone, Swallowed, ReleaseNeeds
    <2> QED
      BY <2>2 DEF IInv, SimulationDone, SimulationPasses
  <1> QED
    BY <1>1, Invariant, PTL

\* A process that polls was confirmed and configured since its container
\* started.
THEOREM Afresh == Spec => []StartedAfresh
  <1>1. IInv => StartedAfresh
    BY DEF IInv, Asked, TypeOK, StartedAfresh, Identity
  <1> QED
    BY <1>1, Invariant, PTL

-----------------------------------------------------------------------------
(***************************************************************************)
(* In fair weather, that is in a calm world where the node is registered   *)
(* and the config complete, a start makes its way to the first poll, at    *)
(* most one restart later: what an earlier failure left undefined, and a   *)
(* config that was cloned before, are gone with the process that had them. *)
(***************************************************************************)
FairWeather == calm /\ registry = Identity /\ published = "complete"

\* Nothing that this start will miss.
Clean ==
  \/ at \in {"down", "config", "polling"}
  \/ at \in Script /\ config = "complete"
  \/ at = "init" /\ config = "complete" /\ \A i \in 1..step - 1 : InitSteps[i] \in has

\* How far a start is.
Place ==
  CASE at = "down" -> 0
    [] at = "config" -> 1
    [] at = "compute" -> 2
    [] at = "autofill" -> 3
    [] at = "allSnapshotters" -> 4
    [] at = "slotSnapshotterMapping" -> 5
    [] at = "init" -> 5 + step
    [] at = "polling" -> 20
    [] at = "delay" -> 21

\* The rest of this start, and a whole one more if it cannot succeed.
Distance == (IF Clean THEN 0 ELSE 22) + (21 - Place)

\* In fair weather every step of the lifecycle brings the node nearer to its
\* polls, nothing else moves it, and a node that polls goes on.
RecoveryNearer ==
  [][FairWeather /\ FairWeather' =>
       /\ Lifecycle => Distance \in Nat /\ Distance' \in Nat /\ Distance' < Distance
       /\ ~Lifecycle => UNCHANGED <<at, step, has, config>>
       /\ at = "polling" => at' = "polling"]_vars

\* What a release needs is among what the inits give.
LEMMA StepsOfRelease ==
  InitSteps[6] = "dayCounter" /\ InitSteps[9] = "preloaders"
  BY DEF InitSteps, DetectorInit, DistributorReads, ProjectsMetadata, Imports, WorkerInit

\* A start that is still in the script is at the first step of the inits.
NotInitYet == at \in Script => step = 1

LEMMA NotInitNext == IInv /\ NotInitYet /\ [Next]_vars => NotInitYet'
  BY DEF NotInitYet, Next, Lifecycle, vars, world, Script, Identity, Start, CloneConfig,
         CloneCompute, Autofill, PingAllowed, PingSlot, ScriptFails, StepSucceeds,
         StepSwallowed, StepFails, Simulate, SimulateFails, DetectorExits, DelayOver,
         Killed, WeatherChanges, RegistryChanges, ConfigPublished

\* A place is a number, and a restart is farther than any rest of a start.
LEMMA Places == TypeOK => Place \in 0..21
  <1> SUFFICES ASSUME TypeOK PROVE Place \in 0..21
    OBVIOUS
  <1>1. step \in 1..14
    BY StepsLength DEF TypeOK
  <1>2. at \notin {"init", "polling", "delay"} => Place \in 0..5
    BY DEF TypeOK, Place, Script, Identity
  <1>3. at \in {"polling", "delay"} => Place \in 20..21
    BY DEF Place
  <1>4. at = "init" => Place = 5 + step
    BY DEF Place
  <1> QED
    BY <1>1, <1>2, <1>3, <1>4

\* Nearer is what gets farther on in the same kind of start, or comes to a
\* start that can succeed.
LEMMA NearerBy ==
  ASSUME TypeOK, TypeOK',
         \/ ~Clean /\ Clean'
         \/ Place' > Place /\ (Clean => Clean')
  PROVE  Distance \in Nat /\ Distance' \in Nat /\ Distance' < Distance
  <1>1. Place \in 0..21
    BY Places
  <1>2. Place' \in 0..21
    <2>1. (TypeOK => Place \in 0..21)'
      BY Places, PTL
    <2> QED
      BY <2>1
  <1>3. /\ Clean => Distance = 21 - Place
        /\ ~Clean => Distance = 22 + (21 - Place)
        /\ Clean' => Distance' = 21 - Place'
        /\ ~Clean' => Distance' = 22 + (21 - Place')
    BY <1>1, <1>2 DEF Distance
  <1> QED
    BY <1>1, <1>2, <1>3

\* The script in fair weather: it fails on a config of an earlier start only.
LEMMA ScriptNearer ==
  ASSUME IInv, NotInitYet, FairWeather, Start \/ ScriptStep
  PROVE  \/ ~Clean /\ Clean'
         \/ Place' > Place /\ (Clean => Clean')
  <1>1. CASE Start
    BY <1>1 DEF Start, Clean, Place
  <1>2. CASE CloneConfig
    BY <1>2 DEF CloneConfig, Clean, Place, FairWeather, Script
  <1>3. CASE CloneCompute \/ Autofill \/ PingAllowed
    BY <1>3 DEF CloneCompute, Autofill, PingAllowed, Clean, Place, Script, Identity
  <1>4. CASE PingSlot
    <2>1. at' = "init" /\ step' = 1 /\ config' = config /\ at = "slotSnapshotterMapping"
      BY <1>4 DEF PingSlot, NotInitYet, Script, Identity
    <2>2. Clean => Clean'
      BY <2>1 DEF Clean
    <2>3. Place' > Place
      BY <2>1 DEF Place
    <2> QED
      BY <2>2, <2>3
  <1>5. CASE ScriptFails
    <2>1. at \in Identity /\ config = "unloadable" /\ at' = "down"
      BY <1>5 DEF ScriptFails, Confirmed, FairWeather
    <2> QED
      BY <2>1 DEF Clean, Identity
  <1> QED
    BY <1>1, <1>2, <1>3, <1>4, <1>5 DEF ScriptStep

\* The inits and the simulation in fair weather: they fail on what the config
\* of an earlier start lacks, or on what was swallowed before.
LEMMA InitNearer ==
  ASSUME IInv, FairWeather,
         StepSucceeds \/ StepFails \/ Simulate \/ SimulateFails
  PROVE  \/ ~Clean /\ Clean'
         \/ Place' > Place /\ (Clean => Clean')
  <1>0. step \in 1..14 /\ at = "init" /\ Len(InitSteps) = 13
    BY StepsLength DEF IInv, TypeOK, StepSucceeds, StepFails, Simulate, SimulateFails
  <1>1. Place = 5 + step
    BY <1>0 DEF Place
  <1>2. CASE StepSucceeds
    <2>1. /\ at' = "init" /\ step' = step + 1 /\ config' = config /\ has \subseteq has'
          /\ config = "complete" => InitSteps[step] \in has'
      BY <1>2 DEF StepSucceeds, Current
    <2>2. Place' > Place
      BY <1>0, <1>1, <2>1 DEF Place
    <2>3. ASSUME Clean PROVE Clean'
      <3>1. config = "complete" /\ \A i \in 1..step - 1 : InitSteps[i] \in has
        BY <1>0, <2>3 DEF Clean, Script, Identity
      <3>2. ASSUME NEW i \in 1..step' - 1 PROVE InitSteps[i] \in has'
        <4>1. i = step \/ i \in 1..step - 1
          BY <1>0, <2>1, <3>2
        <4> QED
          BY <2>1, <3>1, <4>1
      <3> QED
        BY <2>1, <3>1, <3>2 DEF Clean
    <2> QED
      BY <2>2, <2>3
  <1>3. CASE StepFails
    <2>1. config = "noCompute" /\ at' = "delay"
      BY <1>3 DEF StepFails, FairWeather
    <2>2. ~Clean
      BY <1>0, <2>1 DEF Clean, Script, Identity
    <2>3. Place' = 21
      BY <2>1 DEF Place
    <2> QED
      BY <1>0, <1>1, <2>2, <2>3
  <1>4. CASE Simulate
    <2>1. at' = "polling"
      BY <1>4 DEF Simulate
    <2>2. Clean' /\ Place' = 20
      BY <2>1 DEF Clean, Place
    <2> QED
      BY <1>0, <1>1, <2>2
  <1>5. CASE SimulateFails
    <2>1. step = 14 /\ at' = "delay" /\ ~SimulationPasses
      BY <1>0, <1>5 DEF SimulateFails, InitDone, FairWeather
    <2>2. ~Clean
      <3>1. SUFFICES ASSUME Clean PROVE FALSE
        OBVIOUS
      <3>2. \A i \in 1..13 : InitSteps[i] \in has
        BY <1>0, <2>1, <3>1 DEF Clean, Script, Identity
      <3>3. InitSteps[6] \in has /\ InitSteps[9] \in has
        BY <3>2
      <3> QED
        BY <2>1, <3>3, StepsOfRelease DEF SimulationPasses, ReleaseNeeds
    <2>3. Place' = 21
      BY <2>1 DEF Place
    <2> QED
      BY <1>0, <1>1, <2>2, <2>3
  <1> QED
    BY <1>2, <1>3, <1>4, <1>5

\* The safety half of Recovers: in fair weather the node can take only so many
\* steps before it polls, and then it polls.
THEOREM Nearer == Spec => RecoveryNearer
  <1>1. ASSUME IInv, IInv', NotInitYet, FairWeather, Lifecycle
        PROVE  Distance \in Nat /\ Distance' \in Nat /\ Distance' < Distance
    <2>1. \/ ~Clean /\ Clean'
          \/ Place' > Place /\ (Clean => Clean')
      <3>1. CASE Start \/ ScriptStep
        BY <1>1, <3>1, ScriptNearer
      <3>2. CASE StepSucceeds \/ StepFails \/ Simulate \/ SimulateFails
        BY <1>1, <3>2, InitNearer
      <3>3. CASE DelayOver
        BY <3>3 DEF DelayOver, Clean, Script, Identity
      <3>4. ~StepSwallowed /\ ~DetectorExits /\ ~Killed
        BY <1>1 DEF FairWeather, StepSwallowed, DetectorExits, Killed
      <3> QED
        BY <1>1, <3>1, <3>2, <3>3, <3>4 DEF Lifecycle, ScriptStep
    <2> QED
      BY <1>1, <2>1, NearerBy DEF IInv
  <1>2. ASSUME [Next]_vars, ~Lifecycle
        PROVE  UNCHANGED <<at, step, has, config>>
    BY <1>2 DEF Next, vars, WeatherChanges, RegistryChanges, ConfigPublished
  <1>3. ASSUME [Next]_vars, FairWeather, at = "polling"
        PROVE  at' = "polling"
    <2>1. ~Lifecycle
      BY <1>3 DEF FairWeather, Lifecycle, Start, CloneConfig, CloneCompute, Autofill,
         PingAllowed, PingSlot, ScriptFails, Script, Identity, StepSucceeds,
         StepSwallowed, StepFails, Simulate, SimulateFails, DetectorExits, DelayOver, Killed
    <2> QED
      BY <1>2, <1>3, <2>1
  <1>4. IInv /\ IInv' /\ NotInitYet /\ [Next]_vars =>
          [FairWeather /\ FairWeather' =>
             /\ Lifecycle => Distance \in Nat /\ Distance' \in Nat /\ Distance' < Distance
             /\ ~Lifecycle => UNCHANGED <<at, step, has, config>>
             /\ at = "polling" => at' = "polling"]_vars
    BY <1>1, <1>2, <1>3
  <1>5. Init => NotInitYet
    BY DEF Init, NotInitYet
  <1> QED
    BY <1>4, <1>5, NotInitNext, Invariant, PTL DEF Spec, RecoveryNearer
=============================================================================
