------------------------------ MODULE NodeProofs ------------------------------
(***************************************************************************)
(* Theorems about Node for every bound on the chain, lag, catch-up limit,  *)
(* set of project types and selection of the slot.                         *)
(*                                                                         *)
(* The invariants of the two components are theirs: a step of the node     *)
(* that is no restart is a step of each or leaves it alone, and a restart  *)
(* starts the pipeline over with a file that still tells the truth.        *)
(***************************************************************************)
EXTENDS Node, FiniteSetTheorems, TLAPS

PP == INSTANCE EpochPipelineProofs
DP == INSTANCE SystemEventDetectorProofs

\* The constants are those that the theorems about the pipeline ask for.
LEMMA PipelineConstants ==
  /\ Epochs \subseteq Nat /\ IsFiniteSet(Epochs) /\ PP!IsFiniteSet(Epochs)
  /\ IsFiniteSet(Projects) /\ PP!IsFiniteSet(Projects)
  <1>1. Epochs \subseteq Nat /\ IsFiniteSet(Epochs)
    BY DetectorAssumption, FS_Interval DEF Epochs
  <1> QED
    BY <1>1, PipelineAssumption DEF IsFiniteSet, PP!IsFiniteSet

\* The pipeline that the node runs is the one the theorems speak of.
LEMMA SameInit == P!Init <=> PP!Init
  BY DEF P!Init, PP!Init, P!Tasks, PP!Tasks, P!NoRow, PP!NoRow, P!Row, PP!Row

LEMMA SameStep == [P!Next]_pipeline <=> [PP!Next]_(PP!vars)
  BY DEF P!Next, PP!Next, P!vars, PP!vars, P!counters, PP!counters, P!Tasks, PP!Tasks,
         P!StartEpoch, PP!StartEpoch, P!PruneBefore, PP!PruneBefore, P!SkippedBy,
         PP!SkippedBy, P!Distribute, PP!Distribute, P!Enqueue, PP!Enqueue,
         P!PreloadersDone, PP!PreloadersDone, P!SelectedRow, PP!SelectedRow, P!Rows,
         PP!Rows, P!LastOf, PP!LastOf, P!HandleSelectionFailure,
         PP!HandleSelectionFailure, P!HandleSelectionSuccess, PP!HandleSelectionSuccess,
         P!RowsKept, PP!RowsKept, P!Reconcile, PP!Reconcile, P!Fail, PP!Fail, P!Succeed,
         PP!Succeed, P!InCompute, PP!InCompute, P!ReportSelection, PP!ReportSelection,
         P!NoRow, PP!NoRow, P!Row, PP!Row, P!ComputeRaises, PP!ComputeRaises,
         P!ComputeReturnsNothing, PP!ComputeReturnsNothing, P!ComputeReturnsData,
         PP!ComputeReturnsData, P!CommitFails, PP!CommitFails, P!CommitsSucceed,
         PP!CommitsSucceed, P!Step, PP!Step, P!Cardinality, PP!Cardinality, pipeline, counters

LEMMA SameInv == P!IInv <=> PP!IInv
  BY DEF P!IInv, PP!IInv, P!TypeOK, PP!TypeOK, P!Tasks, PP!Tasks, P!TaskState,
         PP!TaskState, P!TrackerTruthful, PP!TrackerTruthful, P!DeferredSkipped,
         PP!DeferredSkipped, P!IdleUntilDistributed, PP!IdleUntilDistributed,
         P!CountersJustified, PP!CountersJustified, P!JustifiedMisses,
         PP!JustifiedMisses, P!JustifiedSuccesses, PP!JustifiedSuccesses, P!MissSettled,
         PP!MissSettled, P!AlertedOnce, PP!AlertedOnce, P!SettledEpochDrained,
         PP!SettledEpochDrained, P!AllEnded, PP!AllEnded, P!AllSkipped, PP!AllSkipped,
         P!Ended, PP!Ended, P!AlertLatched, PP!AlertLatched, P!FailuresAreMisses,
         PP!FailuresAreMisses, P!Cardinality, PP!Cardinality

LEMMA SameDInit == D!Init <=> DP!Init
  BY DEF D!Init, DP!Init, D!Unset, DP!Unset, D!Blocks, DP!Blocks

LEMMA SameDStep == [D!Next]_detector <=> [DP!Next]_(DP!vars)
  BY DEF D!Next, DP!Next, D!vars, DP!vars, D!local, DP!local, D!Unset, DP!Unset,
         D!Blocks, DP!Blocks, D!Heads, DP!Heads, D!DaysUpTo, DP!DaysUpTo, D!Mine,
         DP!Mine, D!ReadDay, DP!ReadDay, D!ReadDayFails, DP!ReadDayFails, D!Simulate,
         DP!Simulate, D!Restart, DP!Restart, D!SimulateFails, DP!SimulateFails, D!Crash,
         DP!Crash, D!UpToDate, DP!UpToDate, D!CatchUp, DP!CatchUp, D!FirstMark,
         DP!FirstMark, D!Poll, DP!Poll, D!FetchFails, DP!FetchFails, D!Fetched,
         DP!Fetched, D!Events, DP!Events, D!DayStarts, DP!DayStarts, D!FetchSucceeds,
         DP!FetchSucceeds, D!EpochWakes, DP!EpochWakes, D!Cardinality, DP!Cardinality, detector

LEMMA SameDInv == D!IInv <=> DP!IInv
  BY DEF D!IInv, DP!IInv, D!TypeOK, DP!TypeOK, D!Blocks, DP!Blocks, D!Unset, DP!Unset,
         D!DispatchedOnce, DP!DispatchedOnce, D!NothingLost, DP!NothingLost,
         D!FreshUntilPoll, DP!FreshUntilPoll, D!SleepingFetched, DP!SleepingFetched,
         D!DayCovers, DP!DayCovers, D!DaysKnown, DP!DaysKnown, D!DaysUpTo, DP!DaysUpTo,
         D!Cardinality, DP!Cardinality

\* A step of the node is a step of the detector or leaves it alone.
LEMMA DetectorStep == [Next]_vars => [D!Next]_detector
  BY DEF Next, vars, D!Next, detector, Mine, Boot, SimulationStarts, SimulationReleased,
         Loop, ReleaseEpoch, PreloadersDone, TaskStep, Restart

\* A step of the node that is no restart is a step of the pipeline or leaves
\* it alone.
LEMMA PipelineStep == [Next]_vars => [P!Next]_pipeline \/ Restart
  <1>1. Simulated \in Epochs /\ D!Blocks \subseteq Epochs
    BY DetectorAssumption DEF Simulated, Epochs, D!Blocks
  <1> QED
    BY <1>1 DEF Next, vars, P!Next, pipeline, counters, Mine, Boot, SimulationStarts,
                SimulationReleased, Loop, ReleaseEpoch, PreloadersDone, TaskStep

\* The detector keeps its invariant.
LEMMA DetectorInit == D!Init => D!IInv
  BY SameDInit, SameDInv, DP!InvInit, DetectorAssumption DEF D!AllKinds, DP!AllKinds

LEMMA DetectorNext == D!IInv /\ [D!Next]_detector => D!IInv'
  <1>1. DP!IInv /\ [DP!Next]_(DP!vars) => DP!IInv'
    BY DP!InvNext, DetectorAssumption DEF D!AllKinds, DP!AllKinds
  <1>2. D!IInv' <=> DP!IInv'
    BY SameDInv, PTL
  <1> QED
    BY <1>1, <1>2, SameDStep, SameDInv

\* The pipeline keeps its invariant.
LEMMA PipelineInit == P!Init => P!IInv
  BY SameInit, SameInv, PP!InvInit, PipelineConstants, PipelineAssumption

LEMMA PipelineNext == P!IInv /\ [P!Next]_pipeline => P!IInv'
  <1>1. PP!IInv /\ [PP!Next]_(PP!vars) => PP!IInv'
    BY PP!InvNext, PipelineConstants, PipelineAssumption
  <1>2. P!IInv' <=> PP!IInv'
    BY SameInv, PTL
  <1> QED
    BY <1>1, <1>2, SameStep, SameInv

-----------------------------------------------------------------------------
\* The types that the composition needs of its components.
LEMMA Types ==
  ASSUME IInv
  PROVE  /\ Len(chain) \in Nat /\ Len(chain) <= MaxBlock
         /\ lastProcessed \in Nat /\ lastProcessed <= Len(chain)
         /\ current \in Nat /\ current <= Len(chain)
         /\ handled \in [D!Blocks -> Nat]
         /\ sleeping \subseteq D!Blocks
         /\ stage \in [Epochs -> {"pending", "preloading", "distributed"}]
         /\ tracker \in [epoch : Epochs \cup {-1}, wasSelected : BOOLEAN]
         /\ slotSelected \in [Epochs -> BOOLEAN]
         /\ born \in Nat /\ born >= 1 /\ HeadLag \in Nat
         /\ D!Blocks = 1..MaxBlock /\ MaxBlock \in Nat /\ Epochs = D!Blocks \cup {0}
         /\ \A e \in Epochs : e \in Nat
  BY DetectorAssumption DEF IInv, D!IInv, D!TypeOK, P!IInv, P!TypeOK, Epochs, D!Blocks

\* A block past the mark was never dispatched.
LEMMA PastMark ==
  ASSUME IInv, NEW b \in D!Blocks, b > lastProcessed
  PROVE  handled[b] = 0
  <1>1. handled[b] <= 0
    BY Types DEF IInv, D!IInv, D!DispatchedOnce
  <1> QED
    BY <1>1, Types

\* A block that is no longer pending was dispatched, so it is before the mark.
LEMMA PendingPastMark ==
  ASSUME IInv, NEW b \in D!Blocks, b > lastProcessed
  PROVE  stage[b] = "pending"
  BY PastMark, Types DEF IInv, HandedOver

\* What the composition promises, beyond its components.
Handover ==
  /\ ReleasedInOrder
  /\ HandedOver
  /\ SleepersDispatched
  /\ DispatchedFromHead

\* A step that neither dispatches, wakes nor releases disturbs none of it.
LEMMA HandoverFrame ==
  ASSUME IInv,
         UNCHANGED <<sleeping, handled, born>>,
         Len(chain') \in Nat, Len(chain) <= Len(chain'),
         \A b \in 1..Len(chain) : chain'[b] = chain[b],
         \A e \in D!Blocks : stage'[e] = "pending" <=> stage[e] = "pending"
  PROVE  Handover'
  <1>1. ReleasedInOrder'
    <2> SUFFICES ASSUME NEW b \in sleeping, NEW e \in Epochs, e >= b
                 PROVE  stage'[e] = "pending"
      BY DEF ReleasedInOrder
    <2>1. stage[e] = "pending" /\ e \in D!Blocks
      BY Types DEF IInv, ReleasedInOrder
    <2> QED
      BY <2>1
  <1>2. ASSUME NEW b \in D!Blocks, handled[b] > 0
        PROVE  b \in 1..Len(chain)
    <2>1. b <= lastProcessed
      BY <1>2, PastMark, Types
    <2> QED
      BY <2>1, Types
  <1>3. HandedOver'
    <2> SUFFICES ASSUME NEW b \in D!Blocks
                 PROVE  stage'[b] # "pending" <=> b <= Len(chain') /\ chain'[b] = "epoch"
                                                    /\ handled[b] > 0 /\ b \notin sleeping
      BY DEF HandedOver, D!Blocks
    <2>1. stage[b] # "pending" <=> b <= Len(chain) /\ chain[b] = "epoch"
                                     /\ handled[b] > 0 /\ b \notin sleeping
      BY DEF IInv, HandedOver
    <2> QED
      BY <1>2, <2>1, Types
  <1>4. SleepersDispatched'
    BY <1>2, Types DEF IInv, SleepersDispatched
  <1>5. DispatchedFromHead'
    BY DEF IInv, DispatchedFromHead, D!Blocks
  <1> QED
    BY <1>1, <1>3, <1>4, <1>5 DEF Handover

\* The mark only moves forward while the process lives.
LEMMA MarkFrame ==
  ASSUME IInv, UNCHANGED born, lastProcessed' \in Nat, lastProcessed' >= lastProcessed,
         \/ pc' # "fetch" /\ lastProcessed' = lastProcessed
         \/ pc = "fetch" \/ lastProcessed > 0
  PROVE  MarkedAtHead'
  BY Types DEF IInv, MarkedAtHead

\* The first poll of a process starts at a head that the node knows, so not
\* further back than its lag; later ones only move the mark forward.
LEMMA PollMark ==
  ASSUME IInv, UNCHANGED born, NEW head \in D!Heads, D!Poll(head)
  PROVE  MarkedAtHead'
  <1>1. head \in 1..Len(chain) /\ head + HeadLag >= born
    BY Types DEF IInv, D!Heads
  <1> DEFINE last == IF lastProcessed = 0 THEN head - 1 ELSE lastProcessed
  <1>2. lastProcessed' = D!CatchUp(last, head) /\ pc' = "fetch" /\ head - last \in Nat
    BY <1>1, Types DEF D!Poll, D!FirstMark, D!UpToDate
  <1>3. lastProcessed' >= last
    BY <1>1, <1>2, Types, DetectorAssumption DEF D!CatchUp
  <1>4. CASE lastProcessed = 0
    <2>1. head - 1 = last
      BY <1>4
    <2>2. MaxGap \in Nat /\ MaxGap >= 1 /\ head \in Int
      BY <1>1, Types, DetectorAssumption
    <2>3. lastProcessed' = D!CatchUp(head - 1, head)
      BY <1>2, <2>1
    <2>4. lastProcessed' = head - 1
      BY <2>2, <2>3 DEF D!CatchUp
    <2> QED
      BY <1>1, <1>2, <2>2, <2>4, Types DEF MarkedAtHead
  <1>5. CASE lastProcessed # 0
    <2>1. lastProcessed + 1 >= born - HeadLag
      BY <1>5, Types DEF IInv, MarkedAtHead
    <2>2. lastProcessed' >= lastProcessed /\ lastProcessed' \in Nat
      BY <1>1, <1>2, <1>3, <1>5, Types, DetectorAssumption DEF D!CatchUp
    <2> QED
      BY <2>1, <2>2, Types DEF MarkedAtHead
  <1> QED
    BY <1>4, <1>5

\* A batch is dispatched past the mark, for the first time, and the epochs of
\* it sleep.
LEMMA FetchHandover ==
  ASSUME IInv, D!FetchSucceeds, UNCHANGED <<pipeline, born>>
  PROVE  Handover' /\ MarkedAtHead'
  <1>1. /\ pc = "fetch" /\ lastProcessed' = current /\ chain' = chain
        /\ handled' = [b \in D!Blocks |-> IF b \in D!Events THEN handled[b] + 1 ELSE handled[b]]
        /\ sleeping' = sleeping \cup {b \in D!Events : chain[b] = "epoch"}
        /\ stage' = stage /\ born' = born
    BY DEF D!FetchSucceeds, D!Blocks, pipeline
  <1>2. current - lastProcessed >= 1
    BY <1>1 DEF IInv, D!IInv, D!TypeOK
  <1>3. D!Events = {b \in lastProcessed + 1 .. current :
                      chain[b] \in {"epoch", "day", "dayOther", "task"}}
    BY DEF D!Events, D!Fetched
  <1>4. ASSUME NEW b \in D!Events
        PROVE  /\ b \in D!Blocks /\ b > lastProcessed /\ b <= Len(chain)
               /\ b \in Nat /\ handled[b] = 0
    <2>1. b \in D!Blocks /\ b > lastProcessed /\ b <= Len(chain) /\ b \in Nat
      BY <1>3, <1>4, Types
    <2> QED
      BY <2>1, PastMark
  <1>5. ReleasedInOrder'
    <2> SUFFICES ASSUME NEW b \in sleeping', NEW e \in Epochs, e >= b
                 PROVE  stage[e] = "pending"
      BY <1>1 DEF ReleasedInOrder
    <2>1. CASE b \in sleeping
      BY <2>1 DEF IInv, ReleasedInOrder
    <2>2. CASE b \in D!Events
      <3>1. e \in D!Blocks /\ e > lastProcessed
        BY <1>4, <2>2, Types
      <3> QED
        BY <3>1, PendingPastMark
    <2> QED
      BY <1>1, <2>1, <2>2
  <1>6. ASSUME NEW b \in D!Blocks
        PROVE  /\ stage[b] # "pending" <=> b <= Len(chain) /\ chain[b] = "epoch"
                                             /\ handled'[b] > 0 /\ b \notin sleeping'
               /\ handled'[b] > 0 => b >= born - HeadLag
               /\ b \in sleeping' => chain[b] = "epoch" /\ handled'[b] > 0
    <2>1. CASE b \in D!Events
      <3>1. handled'[b] = 1 /\ b > lastProcessed /\ b \in Nat
        BY <1>1, <1>4, <2>1
      <3>2. stage[b] = "pending" /\ b \notin sleeping
        BY <3>1, PendingPastMark, PastMark DEF IInv, SleepersDispatched
      <3>3. b >= born - HeadLag
        BY <1>1, <3>1, Types DEF IInv, MarkedAtHead
      <3> QED
        BY <1>1, <2>1, <3>1, <3>2, <3>3
    <2>2. CASE b \notin D!Events
      <3>1. handled'[b] = handled[b] /\ (b \in sleeping' <=> b \in sleeping)
        BY <1>1, <2>2
      <3>2. stage[b] # "pending" <=> b <= Len(chain) /\ chain[b] = "epoch"
                                       /\ handled[b] > 0 /\ b \notin sleeping
        BY DEF IInv, HandedOver
      <3>3. handled[b] > 0 => b >= born - HeadLag
        BY DEF IInv, DispatchedFromHead
      <3>4. b \in sleeping => chain[b] = "epoch" /\ handled[b] > 0
        BY DEF IInv, SleepersDispatched
      <3> QED
        BY <3>1, <3>2, <3>3, <3>4
    <2> QED
      BY <2>1, <2>2
  <1>7. sleeping' \subseteq D!Blocks
    BY <1>1, <1>4, Types
  <1>8. HandedOver' /\ DispatchedFromHead' /\ SleepersDispatched'
    BY <1>1, <1>6, <1>7 DEF HandedOver, DispatchedFromHead, SleepersDispatched, D!Blocks
  <1>9. MarkedAtHead'
    BY <1>1, <1>2, Types DEF IInv, MarkedAtHead
  <1> QED
    BY <1>5, <1>8, <1>9 DEF Handover

\* The epoch that wakes is the oldest that sleeps, so those after it are
\* unreleased.
LEMMA ReleaseHandover ==
  ASSUME IInv, NEW b \in D!Blocks, ReleaseEpoch(b)
  PROVE  Handover' /\ MarkedAtHead'
  <1>1. /\ b \in sleeping /\ \A c \in sleeping : b <= c
        /\ sleeping' = sleeping \ {b}
        /\ UNCHANGED <<chain, pc, lastProcessed, handled, born>>
        /\ stage' = [stage EXCEPT ![b] = "preloading"]
    BY DEF ReleaseEpoch, D!EpochWakes, P!StartEpoch
  <1>2. b \in Nat /\ b \in Epochs /\ \A c \in sleeping : c \in Nat
    BY Types
  <1>3. stage'[b] = "preloading" /\ \A e \in Epochs : e # b => stage'[e] = stage[e]
    BY <1>1, <1>2, Types
  <1>4. ReleasedInOrder'
    <2> SUFFICES ASSUME NEW c \in sleeping', NEW e \in Epochs, e >= c
                 PROVE  stage'[e] = "pending"
      BY DEF ReleasedInOrder
    <2>1. c \in sleeping /\ c > b /\ e > b
      BY <1>1, <1>2, Types
    <2> QED
      BY <1>2, <1>3, <2>1 DEF IInv, ReleasedInOrder
  <1>5. HandedOver'
    <2> SUFFICES ASSUME NEW c \in D!Blocks
                 PROVE  stage'[c] # "pending" <=> c <= Len(chain) /\ chain[c] = "epoch"
                                                    /\ handled[c] > 0 /\ c \notin sleeping'
      BY <1>1 DEF HandedOver, D!Blocks
    <2>1. CASE c = b
      <3>1. chain[b] = "epoch" /\ handled[b] > 0
        BY <1>1 DEF IInv, SleepersDispatched
      <3>2. b <= Len(chain)
        BY <1>2, <3>1, PastMark, Types
      <3> QED
        BY <1>1, <1>3, <2>1, <3>1, <3>2
    <2>2. CASE c # b
      BY <1>1, <1>3, <2>2, Types DEF IInv, HandedOver
    <2> QED
      BY <2>1, <2>2
  <1>6. SleepersDispatched' /\ DispatchedFromHead'
    BY <1>1 DEF IInv, SleepersDispatched, DispatchedFromHead, D!Blocks
  <1>7. MarkedAtHead'
    BY <1>1 DEF IInv, MarkedAtHead
  <1> QED
    BY <1>4, <1>5, <1>6, <1>7 DEF Handover

\* A restart forgets everything but the file.
LEMMA RestartHandover ==
  ASSUME IInv, Restart
  PROVE  Handover' /\ MarkedAtHead' /\ FileTruthful'
  <1>1. /\ chain' = chain /\ pc' = "boot" /\ lastProcessed' = 0
        /\ handled' = [b \in D!Blocks |-> 0] /\ sleeping' = {}
        /\ stage' = [e \in Epochs |-> "pending"]
        /\ tracker' = tracker /\ slotSelected' = slotSelected
    BY DEF Restart, D!Crash, D!SimulateFails, D!Restart, D!Blocks, FreshWorker
  <1>2. ReleasedInOrder' /\ SleepersDispatched' /\ DispatchedFromHead' /\ MarkedAtHead'
    BY <1>1 DEF ReleasedInOrder, SleepersDispatched, DispatchedFromHead, MarkedAtHead, D!Blocks
  <1>3. HandedOver'
    <2>1. ASSUME NEW b \in D!Blocks
          PROVE  stage'[b] = "pending" /\ ~(handled'[b] > 0)
      BY <1>1, Types
    <2> QED
      BY <2>1 DEF HandedOver, D!Blocks
  <1>4. FileTruthful'
    BY <1>1 DEF IInv, FileTruthful, P!NoRow, P!Row
  <1> QED
    BY <1>2, <1>3, <1>4 DEF Handover

\* The pipeline of a new process starts as the first one did, over a file
\* that a process before it wrote.
LEMMA RestartPipeline ==
  ASSUME IInv, Restart
  PROVE  P!Init'
  <1>1. FileTruthful'
    BY RestartHandover
  <1>2. slotSelected' \in [Epochs -> BOOLEAN]
    BY Types DEF Restart
  <1> QED
    BY <1>1, <1>2 DEF P!Init, Restart, FreshWorker, FileTruthful, P!Tasks

\* Only report_selection writes the file.
LEMMA FileStep ==
  ASSUME IInv, [P!Next]_pipeline
  PROVE  FileTruthful'
  <1>1. slotSelected' = slotSelected
    BY DEF P!Next, pipeline, P!StartEpoch, P!PreloadersDone, P!Distribute, P!Step,
           P!ReportSelection, P!ComputeRaises, P!ComputeReturnsNothing, P!Fail,
           P!ComputeReturnsData, P!CommitFails, P!CommitsSucceed, P!Succeed
  <1>2. \/ tracker' = tracker
        \/ tracker' \in {P!NoRow} \cup {P!Row(e) : e \in Epochs}
    BY DEF P!Next, pipeline, P!StartEpoch, P!PreloadersDone, P!Distribute, P!Step,
           P!ReportSelection, P!ComputeRaises, P!ComputeReturnsNothing, P!Fail,
           P!ComputeReturnsData, P!CommitFails, P!CommitsSucceed, P!Succeed
  <1> QED
    BY <1>1, <1>2 DEF IInv, FileTruthful, P!Row, P!NoRow

\* The steps of the pipeline alone: an epoch moves on from its preloaders to
\* its tasks, none is released.
LEMMA PipelineHandover ==
  ASSUME IInv,
         \/ SimulationStarts
         \/ SimulationReleased
         \/ \E b \in D!Blocks : PreloadersDone(b)
         \/ \E e \in Epochs, p \in Projects : TaskStep(e, p)
  PROVE  Handover' /\ MarkedAtHead'
  <1>1. /\ UNCHANGED <<chain, sleeping, handled, born, lastProcessed>>
        /\ pc' = pc \/ pc' = "poll"
    BY DEF SimulationStarts, SimulationReleased, PreloadersDone, TaskStep, detector,
           D!Simulate
  <1>2. \A e \in D!Blocks : stage'[e] = "pending" <=> stage[e] = "pending"
    <2>1. CASE SimulationStarts
      <3>1. stage' = [stage EXCEPT ![Simulated] = "preloading"]
        BY <2>1 DEF SimulationStarts, P!StartEpoch
      <3> QED
        BY <3>1, Types DEF Simulated
    <2>2. CASE SimulationReleased
      <3>1. stage' = [stage EXCEPT ![Simulated] = "distributed"]
        BY <2>2 DEF SimulationReleased, P!PreloadersDone, P!Distribute
      <3> QED
        BY <3>1, Types DEF Simulated
    <2>3. ASSUME NEW b \in D!Blocks, PreloadersDone(b)
          PROVE  \A e \in D!Blocks : stage'[e] = "pending" <=> stage[e] = "pending"
      <3>1. stage' = [stage EXCEPT ![b] = "distributed"] /\ stage[b] = "preloading"
        BY <2>3 DEF PreloadersDone, P!PreloadersDone, P!Distribute
      <3> QED
        BY <3>1, Types
    <2>4. ASSUME NEW e \in Epochs, NEW p \in Projects, TaskStep(e, p)
          PROVE  stage' = stage
      BY <2>4 DEF TaskStep, P!Step, P!ReportSelection, P!ComputeRaises,
             P!ComputeReturnsNothing, P!Fail, P!ComputeReturnsData, P!CommitFails,
             P!CommitsSucceed, P!Succeed
    <2> QED
      BY <2>1, <2>2, <2>3, <2>4
  <1>3. Handover'
    BY <1>1, <1>2, HandoverFrame, Types
  <1>4. MarkedAtHead'
    BY <1>1, MarkFrame, Types
  <1> QED
    BY <1>3, <1>4

\* The steps of the detector alone that dispatch nothing.
LEMMA DetectorHandover ==
  ASSUME IInv, UNCHANGED <<pipeline, born>>,
         \/ D!Mine
         \/ D!ReadDay
         \/ D!ReadDayFails
         \/ \E head \in D!Heads : D!Poll(head)
         \/ D!FetchFails
         \/ UNCHANGED detector
  PROVE  Handover' /\ MarkedAtHead'
  <1>0. stage' = stage
    BY DEF pipeline
  <1>1. Handover'
    <2>1. UNCHANGED <<sleeping, handled>>
      BY DEF D!Mine, D!local, D!ReadDay, D!ReadDayFails, D!Poll, D!FetchFails, detector
    <2>2. /\ Len(chain') \in Nat /\ Len(chain) <= Len(chain')
          /\ \A b \in 1..Len(chain) : chain'[b] = chain[b]
      <3>1. CASE D!Mine
        <4>1. PICK k \in Kinds : chain' = Append(chain, k)
          BY <3>1 DEF D!Mine
        <4>2. chain \in Seq(Kinds)
          BY DEF IInv, D!IInv, D!TypeOK
        <4> QED
          BY <4>1, <4>2
      <3>2. CASE chain' = chain
        BY <3>2, Types
      <3> QED
        BY <3>1, <3>2 DEF D!ReadDay, D!ReadDayFails, D!Poll, D!FetchFails, detector
    <2> QED
      BY <1>0, <2>1, <2>2, HandoverFrame
  <1>2. MarkedAtHead'
    <2>1. CASE \E head \in D!Heads : D!Poll(head)
      BY <2>1, PollMark
    <2>2. CASE \/ D!Mine \/ D!ReadDay \/ D!ReadDayFails \/ D!FetchFails \/ UNCHANGED detector
      <3>1. lastProcessed' = lastProcessed /\ (pc' # "fetch" \/ pc' = pc)
        BY <2>2 DEF D!Mine, D!local, D!ReadDay, D!ReadDayFails, D!FetchFails, detector
      <3> QED
        BY <3>1, Types DEF IInv, MarkedAtHead
    <2> QED
      BY <2>1, <2>2
  <1> QED
    BY <1>1, <1>2

\* The invariant holds initially.
LEMMA InvInit == Init => IInv
  <1> SUFFICES ASSUME Init PROVE IInv
    OBVIOUS
  <1>1. D!IInv /\ P!IInv
    BY DetectorInit, PipelineInit DEF Init
  <1>2. /\ Len(chain) = 1 /\ pc = "boot" /\ lastProcessed = 0 /\ sleeping = {}
        /\ handled = [b \in D!Blocks |-> 0]
        /\ stage = [e \in Epochs |-> "pending"]
        /\ tracker = P!NoRow /\ born = 1
    BY DEF Init, D!Init, P!Init, D!Blocks
  <1>3. \A b \in D!Blocks : stage[b] = "pending" /\ ~(handled[b] > 0)
    BY <1>2, DetectorAssumption DEF D!Blocks, Epochs
  <1>4. HandedOver /\ DispatchedFromHead
    BY <1>3 DEF HandedOver, DispatchedFromHead
  <1>5. ReleasedInOrder /\ SleepersDispatched /\ MarkedAtHead /\ FileTruthful
    BY <1>2 DEF ReleasedInOrder, SleepersDispatched, MarkedAtHead, FileTruthful
  <1> QED
    BY <1>1, <1>2, <1>4, <1>5 DEF IInv

\* A process is born at the length of the chain it finds.
LEMMA BornNext ==
  ASSUME IInv, [Next]_vars, D!IInv'
  PROVE  (born \in 1..Len(chain))'
  <1>1. Len(chain') \in Nat /\ Len(chain') >= 1
    BY DEF D!IInv, D!TypeOK
  <1>2. CASE Restart
    BY <1>1, <1>2 DEF Restart, D!Crash, D!SimulateFails, D!Restart
  <1>3. CASE ~Restart
    <2>1. born' = born
      BY <1>3 DEF Next, vars, Mine, Boot, SimulationStarts, SimulationReleased, Loop,
             ReleaseEpoch, PreloadersDone, TaskStep
    <2>2. Len(chain') >= Len(chain)
      <3>1. CASE D!Mine
        <4>1. PICK k \in Kinds : chain' = Append(chain, k)
          BY <3>1 DEF D!Mine
        <4>2. chain \in Seq(Kinds)
          BY DEF IInv, D!IInv, D!TypeOK
        <4> QED
          BY <4>1, <4>2
      <3>2. CASE chain' = chain
        BY <3>2, Types
      <3> QED
        BY <3>1, <3>2, DetectorStep DEF D!Next, D!ReadDay, D!ReadDayFails, D!Simulate,
           D!SimulateFails, D!Crash, D!Restart, D!Poll, D!FetchFails, D!FetchSucceeds,
           D!EpochWakes, detector
    <2> QED
      BY <1>1, <2>1, <2>2, Types DEF IInv
  <1> QED
    BY <1>2, <1>3

\* Every step keeps the invariant.
LEMMA InvNext == IInv /\ [Next]_vars => IInv'
  <1> SUFFICES ASSUME IInv, [Next]_vars PROVE IInv'
    OBVIOUS
  <1>1. D!IInv'
    BY DetectorStep, DetectorNext DEF IInv
  <1>2. P!IInv' /\ FileTruthful'
    <2>1. CASE [P!Next]_pipeline
      BY <2>1, PipelineNext, FileStep DEF IInv
    <2>2. CASE Restart
      <3>1. P!Init' => P!IInv'
        BY PipelineInit, PTL
      <3> QED
        BY <2>2, <3>1, RestartPipeline, RestartHandover
    <2> QED
      BY <2>1, <2>2, PipelineStep
  <1>3. Handover' /\ MarkedAtHead'
    <2>1. CASE Mine \/ Boot
      BY <2>1, DetectorHandover DEF Mine, Boot
    <2>2. CASE \/ SimulationStarts
               \/ SimulationReleased
               \/ \E b \in D!Blocks : PreloadersDone(b)
               \/ \E e \in Epochs, p \in Projects : TaskStep(e, p)
      BY <2>2, PipelineHandover
    <2>3. CASE Loop
      BY <2>3, DetectorHandover, FetchHandover DEF Loop
    <2>4. CASE \E b \in D!Blocks : ReleaseEpoch(b)
      BY <2>4, ReleaseHandover
    <2>5. CASE Restart
      BY <2>5, RestartHandover
    <2>6. CASE UNCHANGED vars
      BY <2>6, DetectorHandover DEF vars
    <2> QED
      BY <2>1, <2>2, <2>3, <2>4, <2>5, <2>6 DEF Next
  <1>4. (born \in 1..Len(chain))'
    BY <1>1, BornNext
  <1> QED
    BY <1>1, <1>2, <1>3, <1>4 DEF IInv, Handover

-----------------------------------------------------------------------------
\* The inductive invariant of the node.
THEOREM Invariant == Spec => []IInv
  BY InvInit, InvNext, PTL DEF Spec

\* Both components keep their types in the composition.
THEOREM TypeCorrect == Spec => []TypeOK
  <1>1. IInv => TypeOK
    BY DEF IInv, D!IInv, P!IInv, TypeOK
  <1> QED
    BY <1>1, Invariant, PTL

\* The epochs are released in the order of the chain.
THEOREM Ordered == Spec => []ReleasedInOrder
  <1>1. IInv => ReleasedInOrder
    BY DEF IInv
  <1> QED
    BY <1>1, Invariant, PTL

\* No epoch is lost or doubled between the detector and the pipeline.
THEOREM NoneLost == Spec => []HandedOver
  <1>1. IInv => HandedOver
    BY DEF IInv
  <1> QED
    BY <1>1, Invariant, PTL

\* A restart repeats no epoch that was further behind than a node may lag.
THEOREM HeadRepeated == Spec => []HeadOnlyRepeated
  <1>1. IInv => HeadOnlyRepeated
    <2> SUFFICES ASSUME IInv, NEW b \in D!Blocks, b < born - HeadLag
                 PROVE  stage[b] = "pending"
      BY DEF HeadOnlyRepeated
    <2>1. ~(handled[b] > 0)
      BY Types DEF IInv, DispatchedFromHead
    <2> QED
      BY <2>1 DEF IInv, HandedOver
  <1> QED
    BY <1>1, Invariant, PTL

-----------------------------------------------------------------------------
(***************************************************************************)
(* The components within the node.                                         *)
(***************************************************************************)
\* The node implements the detector: whatever the pipeline does in between,
\* and whenever the process dies, what the detector sees is a run of it.
THEOREM RunsDetector == Spec => D!Spec
  <1>1. Init => D!Init
    BY DEF Init
  <1>2. [Next]_vars => [D!Next]_(D!vars)
    BY DetectorStep DEF detector, D!vars, D!local
  <1> QED
    BY <1>1, <1>2, PTL DEF Spec, D!Spec

\* Every step of the node is one of the pipeline, none of it, or starts the
\* pipeline over, in one of its initial states.
LivesOfPipeline == [][P!Next \/ UNCHANGED pipeline \/ P!Init']_vars

\* Each life of the process is a run of EpochPipeline, the ones that find the
\* file of an earlier life included.
THEOREM RunsPipeline == Spec => P!Init /\ LivesOfPipeline
  <1>1. Init => P!Init
    BY DEF Init
  <1>2. IInv /\ [Next]_vars => [P!Next \/ UNCHANGED pipeline \/ P!Init']_vars
    BY PipelineStep, RestartPipeline
  <1> QED
    BY <1>1, <1>2, Invariant, PTL DEF Spec, LivesOfPipeline

-----------------------------------------------------------------------------
\* The epochs this process released, or is about to, are exactly those of the
\* blocks whose events it fetched: none twice, none that was not there, none
\* that the mark has passed without the loop choosing to skip it.
ReleasedExactly ==
  \A b \in D!Blocks :
    stage[b] # "pending" <=> b \in DP!Seen /\ chain[b] = "epoch" /\ b \notin sleeping

\* The detector's account of events is that of the node.
LEMMA NodeAccounted == Spec => []DP!HandledExactly
  <1>1. D!Init => DP!Init
    BY SameDInit
  <1>2. [D!Next]_(D!vars) => [DP!Next]_(DP!vars)
    BY SameDStep DEF detector, D!vars, D!local
  <1>3. D!Spec => DP!Spec
    BY <1>1, <1>2, PTL DEF D!Spec, DP!Spec
  <1>4. DP!Spec => [](DP!HandledExactly /\ DP!DayExact)
    BY DP!Accounted, DetectorAssumption DEF D!AllKinds, DP!AllKinds
  <1> QED
    BY <1>3, <1>4, RunsDetector, PTL

\* From the chain to the pipeline, exactly.
THEOREM Released == Spec => []ReleasedExactly
  <1>1. IInv /\ DP!HandledExactly => ReleasedExactly
    <2> SUFFICES ASSUME IInv, DP!HandledExactly, NEW b \in D!Blocks
                 PROVE  stage[b] # "pending" <=>
                          b \in DP!Seen /\ chain[b] = "epoch" /\ b \notin sleeping
      BY DEF ReleasedExactly
    <2>1. handled[b] = IF b \in DP!Seen /\ chain[b] \in DP!Dispatched THEN 1 ELSE 0
      BY DEF DP!HandledExactly, DP!SeenOf, D!Blocks, DP!Blocks
    <2>2. chain[b] = "epoch" => (handled[b] > 0 <=> b \in DP!Seen)
      BY <2>1 DEF DP!Dispatched
    <2>3. b \in DP!Seen => b <= Len(chain)
      BY Types DEF DP!Seen
    <2>4. stage[b] # "pending" <=> b <= Len(chain) /\ chain[b] = "epoch"
                                     /\ handled[b] > 0 /\ b \notin sleeping
      BY DEF IInv, HandedOver
    <2> QED
      BY <2>2, <2>3, <2>4
  <1> QED
    BY <1>1, NodeAccounted, Invariant, PTL

\* A process releases its epochs in the order of the chain: none comes to the
\* pipeline after a later one, so that pruning by epoch id never lets go the
\* rows of an epoch that is yet to come.
ReleasesAscend ==
  [][\A b, c \in D!Blocks :
       stage[b] = "pending" /\ stage'[b] # "pending" /\ stage[c] # "pending" => c < b]_vars

\* No release overtakes another.
THEOREM Ascending == Spec => ReleasesAscend
  <1>1. ASSUME IInv, Next, NEW b \in D!Blocks, NEW c \in D!Blocks,
               stage[b] = "pending", stage'[b] # "pending", stage[c] # "pending"
        PROVE  c < b
    <2>1. ReleaseEpoch(b)
      <3>1. ASSUME NEW a \in D!Blocks, ReleaseEpoch(a) PROVE a = b
        BY <1>1, <3>1, Types DEF ReleaseEpoch, P!StartEpoch
      <3>2. ~SimulationStarts /\ ~SimulationReleased
        <4>1. Simulated # b
          BY <1>1, Types DEF Simulated
        <4>2. stage' # [stage EXCEPT ![Simulated] = "preloading"]
          BY <1>1, <4>1, Types
        <4>3. stage' # [stage EXCEPT ![Simulated] = "distributed"]
          BY <1>1, <4>1, Types
        <4> QED
          BY <4>2, <4>3 DEF SimulationStarts, P!StartEpoch, SimulationReleased,
             P!PreloadersDone, P!Distribute
      <3>3. ASSUME NEW a \in D!Blocks, PreloadersDone(a) PROVE FALSE
        <4>1. stage[a] = "preloading" /\ stage' = [stage EXCEPT ![a] = "distributed"]
          BY <3>3 DEF PreloadersDone, P!PreloadersDone, P!Distribute
        <4> QED
          BY <1>1, <4>1, Types
      <3>4. ASSUME NEW e \in Epochs, NEW p \in Projects, TaskStep(e, p) PROVE FALSE
        BY <1>1, <3>4 DEF TaskStep, P!Step, P!ReportSelection, P!ComputeRaises,
           P!ComputeReturnsNothing, P!Fail, P!ComputeReturnsData, P!CommitFails,
           P!CommitsSucceed, P!Succeed
      <3>5. ~Restart
        <4>1. Restart => stage' = [e \in Epochs |-> "pending"]
          BY DEF Restart, FreshWorker
        <4> QED
          BY <1>1, <4>1, Types
      <3>6. ~Mine /\ ~Boot /\ ~Loop
        BY <1>1 DEF Mine, Boot, Loop, pipeline
      <3> QED
        BY <1>1, <3>1, <3>2, <3>3, <3>4, <3>5, <3>6 DEF Next
    <2>2. b \in sleeping
      BY <2>1 DEF ReleaseEpoch, D!EpochWakes
    <2>3. ~(c >= b)
      BY <1>1, <2>2, Types DEF IInv, ReleasedInOrder
    <2> QED
      BY <1>1, <2>3, Types
  <1>2. IInv /\ [Next]_vars =>
          [\A b, c \in D!Blocks :
             stage[b] = "pending" /\ stage'[b] # "pending" /\ stage[c] # "pending" => c < b]_vars
    BY <1>1
  <1> QED
    BY <1>2, Invariant, PTL DEF Spec, ReleasesAscend

-----------------------------------------------------------------------------
\* What the operator is told: every row once, the rows and the counter of the
\* same misses, an alert for three sound failures and latched, and no row left
\* behind that the file could let go.
AccountsTrue ==
  /\ P!AlertedOnce
  /\ P!SettledEpochDrained
  /\ P!AlertLatched
  /\ P!RowsCounted
  /\ PP!WindowsHonest

LEMMA SameCounted == P!RowsCounted <=> PP!RowsCounted
  BY DEF P!RowsCounted, PP!RowsCounted, P!Tasks, PP!Tasks, P!AllSkipped, PP!AllSkipped,
         P!Cardinality, PP!Cardinality

\* The counts and the failures behind an alert, as an invariant.
FailuresSound == PP!Sound(selFailures)
CountsSound == PP!RowsCounted /\ FailuresSound /\ PP!WindowsHonest

\* A process begins with nothing counted and nothing on its lists.
LEMMA CountsInit == P!Init => CountsSound
  <1> SUFFICES ASSUME P!Init PROVE CountsSound
    OBVIOUS
  <1>1. /\ totalMissed = 0 /\ selFailures = <<>> /\ unhealthy = {}
        /\ alerts = [k \in PP!Tasks |-> 0]
    BY DEF P!Init, P!Tasks, PP!Tasks
  <1>2. {k \in PP!Tasks : alerts[k] > 0 /\ ~PP!AllSkipped(k[1])} = {}
    BY <1>1
  <1>3. PP!Cardinality({}) = 0
    BY FS_EmptySet DEF PP!Cardinality, Cardinality
  <1>4. PP!RowsCounted
    <2>1. \A k \in PP!Tasks : ~(alerts[k] > 0)
      BY <1>1
    <2> QED
      BY <1>1, <1>2, <1>3, <2>1 DEF PP!RowsCounted
  <1>5. PP!Sound(<<>>)
    BY DEF PP!Sound
  <1>6. PP!WindowsHonest
    BY <1>1 DEF PP!WindowsHonest
  <1> QED
    BY <1>1, <1>4, <1>5, <1>6 DEF CountsSound, FailuresSound

\* The steps of the pipeline keep them, and a restart begins anew.
LEMMA CountsNext == IInv /\ CountsSound /\ [Next]_vars => CountsSound'
  <1>1. ASSUME IInv, CountsSound, [P!Next]_pipeline
        PROVE  CountsSound'
    <2>1. PP!IInv /\ [PP!Next]_(PP!vars)
      BY <1>1, SameInv, SameStep DEF IInv
    <2>2. PP!RowsCounted'
      <3>1. PP!Structure /\ PP!AlertedOnce /\ PP!RowsCounted /\ [PP!Next]_(PP!vars)
              => PP!RowsCounted'
        BY PP!CountedNext, PipelineConstants, PipelineAssumption
      <3> QED
        BY <1>1, <2>1, <3>1 DEF PP!IInv, PP!Structure, CountsSound
    <2>3. PP!Sound(selFailures)' /\ PP!WindowsHonest'
      <3>1. PP!Structure /\ PP!Sound(selFailures) /\ PP!WindowsHonest /\ [PP!Next]_(PP!vars)
              => PP!Sound(selFailures)' /\ PP!WindowsHonest'
        BY PP!WindowsNext, PipelineConstants, PipelineAssumption
      <3> QED
        BY <1>1, <2>1, <3>1 DEF PP!IInv, PP!Structure, CountsSound, FailuresSound
    <2> QED
      BY <2>2, <2>3 DEF CountsSound, FailuresSound
  <1>2. (P!Init => CountsSound)'
    BY CountsInit, PTL
  <1> QED
    BY <1>1, <1>2, PipelineStep, RestartPipeline

\* Across crashes and restarts the alerts and counts of each process are true,
\* over whatever file it found.
THEOREM Accounts == Spec => []AccountsTrue
  <1>1. Init => CountsSound
    BY CountsInit DEF Init
  <1>2. IInv /\ CountsSound => AccountsTrue
    BY SameCounted DEF IInv, P!IInv, CountsSound, AccountsTrue
  <1> QED
    BY <1>1, <1>2, CountsNext, Invariant, PTL DEF Spec
=============================================================================
