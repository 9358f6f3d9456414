-------------------------------- MODULE Node --------------------------------
(***************************************************************************)
(* The event detector and the epoch pipeline in one process, over crashes  *)
(* and restarts.  They share one event loop: what process_event awaits, a  *)
(* sleep of 20 seconds, ends in _epoch_release_processor, so the wake of   *)
(* an epoch is the start of its release.  The simulated epoch, number 0,   *)
(* is awaited by the start of the detector; its tasks are not.             *)
(*                                                                         *)
(* A crash takes the memory of both.  The file of the slot selection is    *)
(* all that the next process finds.                                        *)
(*                                                                         *)
(* Epochs are numbered by the block that releases them: the code compares  *)
(* epoch ids only, and the chain releases them in order.                   *)
(***************************************************************************)
EXTENDS Integers, Sequences, FiniteSets

CONSTANTS
  Kinds, MaxBlock, MaxGap, HeadLag,          \* of SystemEventDetector
  Projects, Preloaders, Requires, Retention, \* of EpochPipeline
  KeepRecent, TrackerWritesFail, TelegramConfigured,
  Selected                                   \* epochs the slot is selected for

Epochs == 0..MaxBlock
Simulated == 0

VARIABLES
  chain, pc, lastProcessed, current, handled, sleeping, day, counted, skipped,
  slotSelected, stage, task, tracker, deferred, totalMissed, consecutiveMissed,
  totalSuccessful, selFailures, alertSent, alerts, unhealthy,
  born   \* history: length of the chain when the process started

D == INSTANCE SystemEventDetector
P == INSTANCE EpochPipeline

ASSUME DetectorAssumption ==
  /\ Kinds \subseteq D!AllKinds
  /\ {MaxBlock, MaxGap} \subseteq Nat \ {0}
  /\ HeadLag \in Nat
ASSUME PipelineAssumption ==
  /\ IsFiniteSet(Projects)
  /\ Requires \in [Projects -> SUBSET Preloaders]
  /\ Retention \in Nat
  /\ KeepRecent \in Nat /\ KeepRecent >= 3
  /\ TrackerWritesFail \in BOOLEAN /\ TelegramConfigured \in BOOLEAN

detector == <<chain, pc, lastProcessed, current, handled, sleeping, day, counted, skipped>>
counters == <<totalMissed, consecutiveMissed, totalSuccessful,
              selFailures, alertSent, alerts, unhealthy>>
pipeline == <<slotSelected, stage, task, tracker, deferred, counters>>
vars == <<detector, pipeline, born>>

\* A process that an earlier one precedes comes from Restart.
Init ==
  /\ D!Init
  /\ P!Init
  /\ slotSelected = [e \in Epochs |-> e \in Selected]
  /\ tracker = P!NoRow
  /\ born = 1

-----------------------------------------------------------------------------
Mine == D!Mine /\ UNCHANGED <<pipeline, born>>

Boot == (D!ReadDay \/ D!ReadDayFails) /\ UNCHANGED <<pipeline, born>>

\* init awaits process_event of the simulated epoch: the sleep, the release,
\* the preloaders.  The release reads the day and fails without it.
SimulationStarts ==
  /\ pc = "warmup"
  /\ day # D!Unset
  /\ P!StartEpoch(Simulated)
  /\ UNCHANGED <<detector, born>>

SimulationReleased == D!Simulate /\ P!PreloadersDone(Simulated) /\ UNCHANGED born

Loop ==
  /\ \/ \E head \in D!Heads : D!Poll(head)
     \/ D!FetchFails
     \/ D!FetchSucceeds
  /\ UNCHANGED <<pipeline, born>>

ReleaseEpoch(b) == D!EpochWakes(b) /\ P!StartEpoch(b) /\ UNCHANGED born

PreloadersDone(b) == P!PreloadersDone(b) /\ UNCHANGED <<detector, born>>

TaskStep(e, p) == P!Step(e, p) /\ UNCHANGED <<detector, born>>

-----------------------------------------------------------------------------
\* The memory of SnapshotAsyncWorker as a new process builds it; the file of
\* SlotSelectionTracker is another matter.
FreshWorker ==
  /\ stage' = [e \in Epochs |-> "pending"]
  /\ task' = [k \in P!Tasks |-> "idle"]
  /\ deferred' = [e \in Epochs |-> {}]
  /\ totalMissed' = 0
  /\ consecutiveMissed' = 0
  /\ totalSuccessful' = 0
  /\ selFailures' = <<>>
  /\ alertSent' = FALSE
  /\ alerts' = [k \in P!Tasks |-> 0]
  /\ unhealthy' = {}

Restart ==
  /\ D!Crash \/ D!SimulateFails
  /\ born' = Len(chain)
  /\ FreshWorker
  /\ UNCHANGED <<slotSelected, tracker>>

Next ==
  \/ Mine
  \/ Boot
  \/ SimulationStarts
  \/ SimulationReleased
  \/ Loop
  \/ \E b \in D!Blocks : ReleaseEpoch(b)
  \/ \E b \in D!Blocks : PreloadersDone(b)
  \/ \E e \in Epochs, p \in Projects : TaskStep(e, p)
  \/ Restart

Spec == Init /\ [][Next]_vars

\* What the event loop runs without asking anyone.
Local ==
  \/ SimulationStarts
  \/ SimulationReleased
  \/ D!SimulateFails /\ Restart
  \/ \E b \in D!Blocks : ReleaseEpoch(b) \/ PreloadersDone(b)
  \/ \E e \in Epochs, p \in Projects : TaskStep(e, p)

(***************************************************************************)
(* The event loop runs something that is ready; preloaders, compute and    *)
(* commits end.  The RPC answers again and again, with the true head again *)
(* and again, but may fail or lag between any two answers.                 *)
(***************************************************************************)
Fairness ==
  /\ WF_vars(Local)
  /\ SF_vars(D!Poll(Len(chain)) /\ UNCHANGED <<pipeline, born>>)
  /\ SF_vars(D!FetchSucceeds /\ UNCHANGED <<pipeline, born>>)

FairSpec == Spec /\ Fairness

-----------------------------------------------------------------------------
(***************************************************************************)
(* Properties.                                                             *)
(***************************************************************************)

\* Both components keep their types.
TypeOK == D!TypeOK /\ P!TypeOK /\ born \in 1..Len(chain)

\* An epoch that sleeps and all later ones are unreleased: releases come in
\* the order of the chain, whatever was fetched again or caught up with.  The
\* pipeline is right to rely on it when it prunes by epoch id.
ReleasedInOrder ==
  \A b \in sleeping : \A e \in Epochs : e >= b => stage[e] = "pending"

\* No epoch gets lost or doubled between the detector and the pipeline: what
\* this process dispatched sleeps, or was released.
HandedOver ==
  \A b \in D!Blocks :
    stage[b] # "pending" <=> b <= Len(chain) /\ chain[b] = "epoch"
                              /\ handled[b] > 0 /\ b \notin sleeping

\* A restart repeats at most the head: a process never releases an epoch of a
\* block that was older than the lag of a node when the process started, so
\* that only the last epochs can be submitted or counted twice.
HeadOnlyRepeated ==
  \A b \in D!Blocks : b < born - HeadLag => stage[b] = "pending"

\* What the three rest on: what sleeps was dispatched, the dispatch comes
\* after the mark, the mark of a new process is its first head, and the file
\* it finds is empty or speaks the truth.
SleepersDispatched ==
  \A b \in sleeping : chain[b] = "epoch" /\ handled[b] > 0

MarkedAtHead ==
  pc = "fetch" \/ lastProcessed > 0 => lastProcessed + 1 >= born - HeadLag

DispatchedFromHead == \A b \in D!Blocks : handled[b] > 0 => b >= born - HeadLag

FileTruthful == tracker \in {P!NoRow} \cup {P!Row(e) : e \in Epochs}

IInv ==
  /\ D!IInv
  /\ P!IInv
  /\ born \in 1..Len(chain)
  /\ ReleasedInOrder
  /\ HandedOver
  /\ SleepersDispatched
  /\ MarkedAtHead
  /\ DispatchedFromHead
  /\ FileTruthful

\* From the block to the account: an epoch released while the process lives
\* has all its tasks ended, or the process died or chose to skip the block.
EpochProcessed ==
  \A b \in D!Blocks :
    pc # "boot" /\ b <= Len(chain) /\ chain[b] = "epoch"
      ~> pc = "boot" \/ b \in skipped \/ P!AllEnded(b)
=============================================================================
