------------------------- MODULE EpochPipelineProofs -------------------------
(***************************************************************************)
(* Theorems about EpochPipeline for every set of epochs, project types and *)
(* preloaders, every retention and every length of the failure list.       *)
(***************************************************************************)
EXTENDS EpochPipeline, FiniteSetTheorems, TLAPS

\* A task whose process_task coroutine is between two awaits.
Active(e, p) == task[<<e, p>>] \in {"running", "reported", "committing"}

\* Every step is one of seven shapes: the ways a task can end reduce to Fail
\* and Succeed of an active task.
Cases ==
  \/ \E e \in Epochs : StartEpoch(e)
  \/ \E e \in Epochs : PreloadersDone(e)
  \/ \E e \in Epochs, p \in Projects : ReportSelection(e, p)
  \/ \E e \in Epochs, p \in Projects : ComputeReturnsData(e, p)
  \/ \E e \in Epochs, p \in Projects : Active(e, p) /\ Fail(e, p)
  \/ \E e \in Epochs, p \in Projects : Active(e, p) /\ Succeed(e, p)
  \/ UNCHANGED vars

\* The ways compute and the commit loop end are cases of Fail and Succeed.
LEMMA StepCases == [Next]_vars => Cases
  BY DEF Next, Step, Cases, Active, InCompute, ComputeRaises,
         ComputeReturnsNothing, CommitFails, CommitsSucceed

\* Trimming keeps a sequence over the same set, of length at most n.
LEMMA LastOfType ==
  ASSUME NEW S, NEW s \in Seq(S), NEW n \in Nat
  PROVE  LastOf(s, n) \in Seq(S) /\ Len(LastOf(s, n)) = IF Len(s) > n THEN n ELSE Len(s)
  BY DEF LastOf

\* Deferred rows of an epoch are finitely many.
LEMMA DeferredFinite ==
  ASSUME TypeOK, NEW e \in Epochs
  PROVE  IsFiniteSet(deferred[e]) /\ Cardinality(deferred[e]) \in Nat
  BY ProjectsAssumption, FS_Subset, FS_CardinalityType DEF TypeOK

LEMMA EnqueueType ==
  ASSUME alerts \in [Tasks -> Nat], NEW rows, Enqueue(rows)
  PROVE  alerts' \in [Tasks -> Nat]
  BY DEF Enqueue

\* The initial state is well typed.
LEMMA TypeInit == Init => TypeOK
  <1> SUFFICES ASSUME Init PROVE TypeOK
    OBVIOUS
  <1>1. tracker \in [epoch : Epochs \cup {-1}, wasSelected : BOOLEAN]
    <2>1. ASSUME NEW e \in Epochs
          PROVE  Row(e) \in [epoch : Epochs \cup {-1}, wasSelected : BOOLEAN]
      BY DEF Init, Row
    <2>2. NoRow \in [epoch : Epochs \cup {-1}, wasSelected : BOOLEAN]
      BY DEF NoRow
    <2>3. tracker = NoRow \/ \E e \in Epochs : tracker = Row(e)
      BY DEF Init
    <2> QED
      BY <2>1, <2>2, <2>3
  <1>2. alerts \in [Tasks -> Nat] /\ task \in [Tasks -> TaskState]
    BY DEF Init, TaskState
  <1>3. selFailures \in Seq(Epochs) /\ Len(selFailures) <= KeepRecent
    BY KeepRecentAssumption DEF Init
  <1> QED
    BY <1>1, <1>2, <1>3 DEF Init, TypeOK

\* A selection failure keeps the list short and the flag a Boolean.
LEMMA SelectionFailureType ==
  ASSUME TypeOK, NEW e \in Epochs, HandleSelectionFailure(e)
  PROVE  /\ selFailures' \in Seq(Epochs)
         /\ Len(selFailures') = IF Len(selFailures) + 1 > KeepRecent
                                THEN KeepRecent ELSE Len(selFailures) + 1
         /\ alertSent' \in BOOLEAN
         /\ unhealthy' \subseteq Seq(Epochs)
  <1> DEFINE failures == LastOf(Append(selFailures, e), KeepRecent)
  <1>1. Append(selFailures, e) \in Seq(Epochs)
        /\ Len(Append(selFailures, e)) = Len(selFailures) + 1
    BY DEF TypeOK
  <1>2. /\ failures \in Seq(Epochs)
        /\ Len(failures) = IF Len(selFailures) + 1 > KeepRecent
                           THEN KeepRecent ELSE Len(selFailures) + 1
    BY <1>1, LastOfType, KeepRecentAssumption
  <1>3. LastOf(failures, 3) \in Seq(Epochs)
    BY <1>2, LastOfType
  <1>4. selFailures' = failures
    BY DEF HandleSelectionFailure
  <1>5. unhealthy' \subseteq Seq(Epochs)
    <2>1. unhealthy' = unhealthy \/ unhealthy' = unhealthy \cup {LastOf(failures, 3)}
      BY DEF HandleSelectionFailure
    <2> QED
      BY <2>1, <1>3 DEF TypeOK
  <1>6. alertSent' \in BOOLEAN
    BY DEF HandleSelectionFailure
  <1> QED
    BY <1>2, <1>4, <1>5, <1>6

\* Every step preserves the type invariant.
LEMMA TypeNext == TypeOK /\ [Next]_vars => TypeOK'
  <1> SUFFICES ASSUME TypeOK, Cases PROVE TypeOK'
    BY StepCases
  <1> USE DEF TypeOK
  <1>1. ASSUME NEW e \in Epochs, StartEpoch(e) PROVE TypeOK'
    BY <1>1 DEF StartEpoch, counters
  <1>2. ASSUME NEW e \in Epochs, PreloadersDone(e) PROVE TypeOK'
    <2>1. PICK failed \in SUBSET Preloaders :
            /\ Distribute(e, SkippedBy(failed))
            /\ \/ /\ deferred' = [deferred EXCEPT ![e] = @ \cup SkippedBy(failed)]
                  /\ UNCHANGED alerts
               \/ /\ deferred' = [deferred EXCEPT ![e] = {}]
                  /\ Enqueue({e} \X (deferred[e] \cup SkippedBy(failed)))
      BY <1>2 DEF PreloadersDone
    <2>2. alerts' \in [Tasks -> Nat]
      BY <2>1, EnqueueType
    <2>3. deferred' \in [Epochs -> SUBSET Projects]
      <3>1. SkippedBy(failed) \subseteq Projects
        BY DEF SkippedBy
      <3>2. deferred[e] \cup SkippedBy(failed) \in SUBSET Projects
        BY <3>1
      <3> QED
        BY <2>1, <3>2
    <2>4. task' \in [Tasks -> TaskState] /\ stage' \in [Epochs -> {"pending", "preloading", "distributed"}]
      BY <2>1 DEF Distribute, TaskState
    <2> QED
      BY <2>1, <2>2, <2>3, <2>4 DEF Distribute
  <1>3. ASSUME NEW e \in Epochs, NEW p \in Projects, ReportSelection(e, p) PROVE TypeOK'
    <2>1. Row(e) \in [epoch : Epochs \cup {-1}, wasSelected : BOOLEAN]
      BY DEF Row
    <2>2. NoRow \in [epoch : Epochs \cup {-1}, wasSelected : BOOLEAN]
      BY DEF NoRow
    <2>3. tracker' \in [epoch : Epochs \cup {-1}, wasSelected : BOOLEAN]
      BY <1>3, <2>1, <2>2 DEF ReportSelection
    <2>4. task' \in [Tasks -> TaskState]
      BY <1>3 DEF ReportSelection, TaskState
    <2> QED
      BY <1>3, <2>3, <2>4 DEF ReportSelection, counters
  <1>4. ASSUME NEW e \in Epochs, NEW p \in Projects, ComputeReturnsData(e, p) PROVE TypeOK'
    <2>1. task' \in [Tasks -> TaskState]
      BY <1>4 DEF ComputeReturnsData, TaskState
    <2> QED
      BY <1>4, <2>1 DEF ComputeReturnsData, counters
  <1>5. ASSUME NEW e \in Epochs, NEW p \in Projects, Fail(e, p) PROVE TypeOK'
    <2>1. Cardinality(deferred[e]) \in Nat
      BY DeferredFinite
    <2>2. task' \in [Tasks -> TaskState]
      BY <1>5 DEF Fail, TaskState
    <2>3. deferred' \in [Epochs -> SUBSET Projects]
      BY <1>5 DEF Fail, Reconcile, RowsKept
    <2>4. CASE SelectedRow(e)
      <3>1. Enqueue({<<e, p>>} \cup Rows(e)) /\ HandleSelectionFailure(e)
        BY <1>5, <2>4 DEF Fail
      <3>2. /\ selFailures' \in Seq(Epochs) /\ Len(selFailures') <= KeepRecent
            /\ alertSent' \in BOOLEAN /\ unhealthy' \subseteq Seq(Epochs)
        BY <3>1, SelectionFailureType, KeepRecentAssumption
      <3>3. totalMissed' \in Nat /\ consecutiveMissed' \in Nat
        BY <1>5, <2>1, <2>4 DEF Fail
      <3> QED
        BY <1>5, <2>2, <2>3, <2>4, <3>1, <3>2, <3>3, EnqueueType DEF Fail
    <2>5. CASE ~SelectedRow(e)
      BY <1>5, <2>2, <2>3, <2>5 DEF Fail, counters
    <2> QED
      BY <2>4, <2>5
  <1>6. ASSUME NEW e \in Epochs, NEW p \in Projects, Succeed(e, p) PROVE TypeOK'
    <2>1. Cardinality(deferred[e]) \in Nat
      BY DeferredFinite
    <2>2. task' \in [Tasks -> TaskState]
      BY <1>6 DEF Succeed, TaskState
    <2>3. deferred' \in [Epochs -> SUBSET Projects]
      BY <1>6 DEF Succeed, Reconcile, RowsKept
    <2>4. CASE SelectedRow(e)
      <3>1. Enqueue(Rows(e)) /\ selFailures' = <<>> /\ alertSent' = FALSE
            /\ unhealthy' = unhealthy
        BY <1>6, <2>4 DEF Succeed, HandleSelectionSuccess
      <3>2. totalMissed' \in Nat /\ consecutiveMissed' \in Nat /\ totalSuccessful' \in Nat
        BY <1>6, <2>1, <2>4 DEF Succeed
      <3> QED
        <4>1. selFailures' \in Seq(Epochs) /\ Len(selFailures') <= KeepRecent
          BY <3>1, KeepRecentAssumption
        <4>2. alerts' \in [Tasks -> Nat]
          BY <3>1, EnqueueType
        <4>3. UNCHANGED <<slotSelected, stage, tracker>>
          BY <1>6 DEF Succeed
        <4> QED
          BY <2>2, <2>3, <3>1, <3>2, <4>1, <4>2, <4>3
    <2>5. CASE ~SelectedRow(e)
      BY <1>6, <2>2, <2>3, <2>5 DEF Succeed, counters
    <2> QED
      BY <2>4, <2>5
  <1>7. CASE UNCHANGED vars
    BY <1>7 DEF vars, counters
  <1> QED
    BY <1>1, <1>2, <1>3, <1>4, <1>5, <1>6, <1>7 DEF Cases

\* Type correctness of every reachable state.
THEOREM TypeCorrect == Spec => []TypeOK
  BY TypeInit, TypeNext, PTL DEF Spec

-----------------------------------------------------------------------------
(***************************************************************************)
(* The shared bookkeeping: the file, the deferred rows and the tasks.      *)
(***************************************************************************)
Structure == TypeOK /\ TrackerTruthful /\ DeferredSkipped /\ IdleUntilDistributed

\* The bookkeeping is sound initially.
LEMMA StructureInit == Init => Structure
  <1> SUFFICES ASSUME Init PROVE Structure
    OBVIOUS
  <1>1. TypeOK
    BY TypeInit
  <1>2. TrackerTruthful
    BY EpochsAssumption DEF Init, NoRow, Row, TrackerTruthful
  <1>3. DeferredSkipped /\ IdleUntilDistributed
    BY DEF Init, DeferredSkipped, IdleUntilDistributed, Tasks
  <1> QED
    BY <1>1, <1>2, <1>3 DEF Structure

\* A row of the file that says "selected" is right.
LEMMA SelectedRowTrue ==
  ASSUME Structure, NEW e \in Epochs, SelectedRow(e)
  PROVE  slotSelected[e]
  BY DEF Structure, TrackerTruthful, SelectedRow

\* Ending one task keeps the rows and the tasks in step.
LEMMA TaskEndStructure ==
  ASSUME Structure, NEW e \in Epochs, NEW p \in Projects, Active(e, p),
         NEW end \in {"ok", "failed"},
         task' = [task EXCEPT ![<<e, p>>] = end], Reconcile(e),
         UNCHANGED <<slotSelected, stage, tracker>>
  PROVE  TrackerTruthful' /\ DeferredSkipped' /\ IdleUntilDistributed'
  <1> USE DEF Structure, TypeOK, Tasks
  <1>1. TrackerTruthful'
    BY DEF TrackerTruthful
  <1>2. \A d \in Epochs : deferred'[d] \subseteq deferred[d]
    BY DEF Reconcile, RowsKept
  <1>3. DeferredSkipped'
    <2> SUFFICES ASSUME NEW d \in Epochs, NEW q \in deferred'[d]
                 PROVE  task'[<<d, q>>] = "skipped"
      BY DEF DeferredSkipped
    <2>1. q \in deferred[d] /\ q \in Projects
      BY <1>2
    <2>2. task[<<d, q>>] = "skipped"
      BY <2>1 DEF DeferredSkipped
    <2>3. <<d, q>> # <<e, p>>
      BY <2>2 DEF Active
    <2> QED
      BY <2>1, <2>2, <2>3
  <1>4. IdleUntilDistributed'
    BY DEF IdleUntilDistributed, Active
  <1> QED
    BY <1>1, <1>3, <1>4

\* Every step preserves the bookkeeping.
LEMMA StructureNext == Structure /\ [Next]_vars => Structure'
  <1> SUFFICES ASSUME Structure, [Next]_vars PROVE Structure'
    OBVIOUS
  <1>0. TypeOK /\ TypeOK' /\ Cases
    BY TypeNext, StepCases DEF Structure
  <1>1. ASSUME NEW e \in Epochs, StartEpoch(e) PROVE Structure'
    <2>1. TrackerTruthful' /\ IdleUntilDistributed'
      BY <1>1, <1>0 DEF StartEpoch, Structure, TypeOK, TrackerTruthful, IdleUntilDistributed
    <2>2. DeferredSkipped'
      BY <1>1, <1>0 DEF StartEpoch, Structure, TypeOK, DeferredSkipped
    <2> QED
      BY <1>0, <2>1, <2>2 DEF Structure
  <1>2. ASSUME NEW e \in Epochs, PreloadersDone(e) PROVE Structure'
    <2>1. PICK failed \in SUBSET Preloaders :
            /\ Distribute(e, SkippedBy(failed))
            /\ \/ deferred' = [deferred EXCEPT ![e] = @ \cup SkippedBy(failed)]
               \/ deferred' = [deferred EXCEPT ![e] = {}]
      BY <1>2 DEF PreloadersDone
    <2>2. TrackerTruthful'
      BY <2>1 DEF Distribute, Structure, TrackerTruthful
    <2>3. IdleUntilDistributed'
      BY <2>1, <1>0 DEF Distribute, Structure, IdleUntilDistributed, TypeOK, Tasks
    <2>4. deferred[e] = {}
      <3>1. \A p \in Projects : task[<<e, p>>] = "idle"
        BY <1>2 DEF PreloadersDone, Structure, IdleUntilDistributed
      <3> QED
        BY <3>1, <1>0 DEF Structure, DeferredSkipped, TypeOK
    <2>5. DeferredSkipped'
      <3> SUFFICES ASSUME NEW d \in Epochs, NEW q \in deferred'[d]
                   PROVE  task'[<<d, q>>] = "skipped"
        BY DEF DeferredSkipped
      <3>1. q \in Projects /\ <<d, q>> \in Tasks
        BY <1>0 DEF TypeOK, Tasks
      <3>2. CASE d = e
        <4>1. q \in SkippedBy(failed)
          BY <2>1, <2>4, <3>2, <1>0 DEF TypeOK
        <4> QED
          BY <2>1, <3>1, <3>2, <4>1 DEF Distribute
      <3>3. CASE d # e
        <4>1. q \in deferred[d]
          BY <2>1, <3>3, <1>0 DEF TypeOK
        <4>2. task[<<d, q>>] = "skipped"
          BY <4>1 DEF Structure, DeferredSkipped
        <4> QED
          BY <2>1, <3>1, <3>3, <4>2 DEF Distribute
      <3> QED
        BY <3>2, <3>3
    <2> QED
      BY <1>0, <2>2, <2>3, <2>5 DEF Structure
  <1>3. ASSUME NEW e \in Epochs, NEW p \in Projects, ReportSelection(e, p) PROVE Structure'
    <2>1. TrackerTruthful'
      <3>1. tracker' = Row(e) \/ tracker' = NoRow \/ tracker' = tracker
        BY <1>3 DEF ReportSelection
      <3> QED
        BY <3>1, <1>3, EpochsAssumption DEF ReportSelection, Row, NoRow, Structure, TrackerTruthful
    <2>2. IdleUntilDistributed'
      BY <1>3, <1>0 DEF ReportSelection, Structure, IdleUntilDistributed, TypeOK, Tasks
    <2>3. DeferredSkipped'
      BY <1>3, <1>0 DEF ReportSelection, Structure, DeferredSkipped, TypeOK, Tasks
    <2> QED
      BY <1>0, <2>1, <2>2, <2>3 DEF Structure
  <1>4. ASSUME NEW e \in Epochs, NEW p \in Projects, ComputeReturnsData(e, p) PROVE Structure'
    <2>1. TrackerTruthful' /\ IdleUntilDistributed'
      BY <1>4, <1>0 DEF ComputeReturnsData, Structure, TrackerTruthful,
                        IdleUntilDistributed, TypeOK, Tasks
    <2>2. DeferredSkipped'
      BY <1>4, <1>0 DEF ComputeReturnsData, Structure, DeferredSkipped, TypeOK, Tasks
    <2> QED
      BY <1>0, <2>1, <2>2 DEF Structure
  <1>5. ASSUME NEW e \in Epochs, NEW p \in Projects, Active(e, p), Fail(e, p) \/ Succeed(e, p)
        PROVE  Structure'
    <2>1. TrackerTruthful' /\ DeferredSkipped' /\ IdleUntilDistributed'
      <3>1. CASE Fail(e, p)
        BY <1>5, <3>1, TaskEndStructure DEF Fail
      <3>2. CASE Succeed(e, p)
        BY <1>5, <3>2, TaskEndStructure DEF Succeed
      <3> QED
        BY <1>5, <3>1, <3>2
    <2> QED
      BY <1>0, <2>1 DEF Structure
  <1>6. CASE UNCHANGED vars
    BY <1>6, <1>0 DEF vars, Structure, TrackerTruthful, DeferredSkipped, IdleUntilDistributed
  <1> QED
    BY <1>0, <1>1, <1>2, <1>3, <1>4, <1>5, <1>6 DEF Cases

-----------------------------------------------------------------------------
(***************************************************************************)
(* Epochs and tasks only move on.                                          *)
(***************************************************************************)
StageLeft(s) == CASE s = "pending" -> 2 [] s = "preloading" -> 1 [] s = "distributed" -> 0

TaskLeft(s) ==
  CASE s = "idle" -> 4
    [] s = "running" -> 3
    [] s = "reported" -> 2
    [] s = "committing" -> 1
    [] s \in Ended -> 0

\* No step takes an epoch or a task back, none touches a task that ended, and
\* every step takes an epoch or a task further: what is left to do shrinks
\* with each step, so that no run of the pipeline goes on for ever and the
\* tasks of an epoch can only wait for compute, for a commit or for a turn.
OnwardOnly ==
  [][/\ \A e \in Epochs : StageLeft(stage'[e]) <= StageLeft(stage[e])
     /\ \A k \in Tasks : /\ TaskLeft(task'[k]) <= TaskLeft(task[k])
                         /\ task[k] \in Ended => task'[k] = task[k]
     /\ \/ \E e \in Epochs : StageLeft(stage'[e]) < StageLeft(stage[e])
        \/ \E k \in Tasks : TaskLeft(task'[k]) < TaskLeft(task[k])]_vars

\* The moves of one task.
TaskMove(k) ==
  \/ task'[k] = task[k]
  \/ task[k] = "idle" /\ task'[k] \in {"skipped", "running"}
  \/ task[k] = "running" /\ task'[k] = "reported"
  \/ task[k] = "reported" /\ task'[k] = "committing"
  \/ task[k] \in {"running", "reported", "committing"} /\ task'[k] \in {"ok", "failed"}

\* The moves of one epoch.
StageMove(e) ==
  \/ stage'[e] = stage[e]
  \/ stage[e] = "pending" /\ stage'[e] = "preloading"
  \/ stage[e] = "preloading" /\ stage'[e] = "distributed"

\* A step moves nothing but along these moves, and it moves something.
LEMMA Moves ==
  ASSUME Structure, Next
  PROVE  /\ \A e \in Epochs : StageMove(e)
         /\ \A k \in Tasks : TaskMove(k)
         /\ \/ \E e \in Epochs : stage'[e] # stage[e]
            \/ \E k \in Tasks : task'[k] # task[k]
  <1> USE DEF StageMove, TaskMove
  <1>0. /\ stage \in [Epochs -> {"pending", "preloading", "distributed"}]
        /\ task \in [Tasks -> TaskState]
    BY DEF Structure, TypeOK
  <1>1. ASSUME NEW e \in Epochs, StartEpoch(e)
        PROVE  /\ \A d \in Epochs : StageMove(d)
               /\ \A k \in Tasks : TaskMove(k)
               /\ stage'[e] # stage[e]
    BY <1>0, <1>1 DEF StartEpoch
  <1>2. ASSUME NEW e \in Epochs, PreloadersDone(e)
        PROVE  /\ \A d \in Epochs : StageMove(d)
               /\ \A k \in Tasks : TaskMove(k)
               /\ stage'[e] # stage[e]
    <2>1. PICK failed \in SUBSET Preloaders : Distribute(e, SkippedBy(failed))
      BY <1>2 DEF PreloadersDone
    <2>2. stage[e] = "preloading" /\ stage' = [stage EXCEPT ![e] = "distributed"]
      BY <1>2, <2>1 DEF PreloadersDone, Distribute
    <2>3. \A k \in Tasks : TaskMove(k)
      <3> SUFFICES ASSUME NEW k \in Tasks PROVE TaskMove(k)
        OBVIOUS
      <3>1. PICK d \in Epochs, p \in Projects : k = <<d, p>>
        BY DEF Tasks
      <3>2. d = e => task[k] = "idle"
        BY <2>2, <3>1 DEF Structure, IdleUntilDistributed
      <3> QED
        BY <2>1, <3>1, <3>2 DEF Distribute
    <2> QED
      BY <1>0, <2>2, <2>3
  <1>3. ASSUME NEW e \in Epochs, NEW p \in Projects, NEW end,
               task' = [task EXCEPT ![<<e, p>>] = end], end # task[<<e, p>>], stage' = stage,
               \/ task[<<e, p>>] = "running" /\ end = "reported"
               \/ task[<<e, p>>] = "reported" /\ end = "committing"
               \/ Active(e, p) /\ end \in {"ok", "failed"}
        PROVE  /\ \A d \in Epochs : StageMove(d)
               /\ \A k \in Tasks : TaskMove(k)
               /\ \E k \in Tasks : task'[k] # task[k]
    <2>1. <<e, p>> \in Tasks
      BY DEF Tasks
    <2>2. task'[<<e, p>>] = end /\ \A k \in Tasks : k # <<e, p>> => task'[k] = task[k]
      BY <1>0, <1>3, <2>1
    <2> QED
      BY <1>3, <2>1, <2>2 DEF Active
  <1>4. ASSUME NEW e \in Epochs, NEW p \in Projects, Step(e, p)
        PROVE  /\ \A d \in Epochs : StageMove(d)
               /\ \A k \in Tasks : TaskMove(k)
               /\ \E k \in Tasks : task'[k] # task[k]
    <2>1. CASE ReportSelection(e, p)
      BY <1>3, <2>1 DEF ReportSelection
    <2>2. CASE ComputeReturnsData(e, p)
      BY <1>3, <2>2 DEF ComputeReturnsData
    <2>3. CASE Active(e, p) /\ Fail(e, p)
      BY <1>3, <2>3 DEF Fail, Active
    <2>4. CASE Active(e, p) /\ Succeed(e, p)
      BY <1>3, <2>4 DEF Succeed, Active
    <2> QED
      BY <1>4, <2>1, <2>2, <2>3, <2>4
      DEF Step, Active, InCompute, ComputeRaises, ComputeReturnsNothing, CommitFails, CommitsSucceed
  <1> QED
    BY <1>1, <1>2, <1>4 DEF Next

-----------------------------------------------------------------------------
(***************************************************************************)
(* Counters never exceed what happened.                                    *)
(***************************************************************************)

\* An ended task stays as it ended and a skipped task's row never comes back.
LEMMA SettledStays ==
  ASSUME Structure, [Next]_vars, NEW k \in Tasks
  PROVE  /\ slotSelected' = slotSelected
         /\ MissSettled(k) => MissSettled(k)'
         /\ task[k] = "ok" => task'[k] = "ok"
  <1>0. TypeOK /\ Cases
    BY StepCases DEF Structure
  <1>e. PICK e \in Epochs, p \in Projects : k = <<e, p>>
    BY DEF Tasks
  <1>1. ASSUME NEW d \in Epochs, StartEpoch(d)
        PROVE  slotSelected' = slotSelected /\ task' = task /\ deferred'[e] \subseteq deferred[e]
    BY <1>1, <1>0 DEF StartEpoch, TypeOK
  <1>2. ASSUME NEW d \in Epochs, PreloadersDone(d)
        PROVE  /\ slotSelected' = slotSelected
               /\ d # e => task'[k] = task[k] /\ deferred'[e] = deferred[e]
               /\ d = e => task[k] = "idle" /\ deferred[e] = {}
    <2>1. PICK failed \in SUBSET Preloaders :
            /\ Distribute(d, SkippedBy(failed))
            /\ \/ deferred' = [deferred EXCEPT ![d] = @ \cup SkippedBy(failed)]
               \/ deferred' = [deferred EXCEPT ![d] = {}]
      BY <1>2 DEF PreloadersDone
    <2>2. \A q \in Projects : d = e => task[<<e, q>>] = "idle"
      BY <1>2 DEF PreloadersDone, Structure, IdleUntilDistributed
    <2>3. d = e => deferred[e] = {}
      BY <2>2, <1>0 DEF Structure, DeferredSkipped, TypeOK
    <2> QED
      BY <2>1, <2>2, <2>3, <1>e, <1>0 DEF Distribute, TypeOK
  <1>3. ASSUME NEW d \in Epochs, NEW q \in Projects, ReportSelection(d, q)
        PROVE  /\ slotSelected' = slotSelected /\ deferred' = deferred
               /\ k # <<d, q>> => task'[k] = task[k]
               /\ task[<<d, q>>] = "running"
    BY <1>3, <1>0 DEF ReportSelection, TypeOK
  <1>4. ASSUME NEW d \in Epochs, NEW q \in Projects, ComputeReturnsData(d, q)
        PROVE  /\ slotSelected' = slotSelected /\ deferred' = deferred
               /\ k # <<d, q>> => task'[k] = task[k]
               /\ task[<<d, q>>] = "reported"
    BY <1>4, <1>0 DEF ComputeReturnsData, TypeOK
  <1>5. ASSUME NEW d \in Epochs, NEW q \in Projects, Fail(d, q) \/ Succeed(d, q)
        PROVE  /\ slotSelected' = slotSelected
               /\ deferred'[e] \subseteq deferred[e]
               /\ k # <<d, q>> => task'[k] = task[k]
    <2>1. CASE Fail(d, q)
      BY <2>1, <1>0 DEF Fail, Reconcile, RowsKept, TypeOK
    <2>2. CASE Succeed(d, q)
      BY <2>2, <1>0 DEF Succeed, Reconcile, RowsKept, TypeOK
    <2> QED
      BY <1>5, <2>1, <2>2
  <1>6. CASE UNCHANGED vars
    BY <1>6 DEF vars, MissSettled
  <1> QED
    BY <1>0, <1>e, <1>1, <1>2, <1>3, <1>4, <1>5, <1>6 DEF Cases, MissSettled, Active

\* The two sets the counters are compared with are finite.
LEMMA JustifiedFinite ==
  /\ IsFiniteSet(JustifiedMisses) /\ Cardinality(JustifiedMisses) \in Nat
  /\ IsFiniteSet(JustifiedSuccesses) /\ Cardinality(JustifiedSuccesses) \in Nat
  <1>1. IsFiniteSet(Tasks)
    BY EpochsAssumption, ProjectsAssumption, FS_Product DEF Tasks
  <1>2. JustifiedMisses \in SUBSET Tasks /\ JustifiedSuccesses \in SUBSET Tasks
    BY DEF JustifiedMisses, JustifiedSuccesses
  <1> QED
    BY <1>1, <1>2, FS_Subset, FS_CardinalityType

\* The next state's sets are finite too.
LEMMA JustifiedFiniteNext ==
  /\ IsFiniteSet(JustifiedMisses') /\ Cardinality(JustifiedMisses') \in Nat
  /\ IsFiniteSet(JustifiedSuccesses') /\ Cardinality(JustifiedSuccesses') \in Nat
  <1>1. IsFiniteSet(Tasks)
    BY EpochsAssumption, ProjectsAssumption, FS_Product DEF Tasks
  <1>2. JustifiedMisses' \in SUBSET Tasks /\ JustifiedSuccesses' \in SUBSET Tasks
    BY DEF JustifiedMisses, JustifiedSuccesses
  <1> QED
    BY <1>1, <1>2, FS_Subset, FS_CardinalityType

\* Justified misses and successes only accumulate.
LEMMA JustifiedGrows ==
  ASSUME Structure, [Next]_vars
  PROVE  /\ JustifiedMisses \subseteq JustifiedMisses'
         /\ JustifiedSuccesses \subseteq JustifiedSuccesses'
         /\ Cardinality(JustifiedMisses) <= Cardinality(JustifiedMisses')
         /\ Cardinality(JustifiedSuccesses) <= Cardinality(JustifiedSuccesses')
  <1>1. JustifiedMisses \subseteq JustifiedMisses'
    BY SettledStays DEF JustifiedMisses
  <1>2. JustifiedSuccesses \subseteq JustifiedSuccesses'
    BY SettledStays DEF JustifiedSuccesses
  <1>3. Cardinality(JustifiedMisses) <= Cardinality(JustifiedMisses')
    BY <1>1, JustifiedFiniteNext, FS_Subset
  <1>4. Cardinality(JustifiedSuccesses) <= Cardinality(JustifiedSuccesses')
    BY <1>2, JustifiedFiniteNext, FS_Subset
  <1> QED
    BY <1>1, <1>2, <1>3, <1>4

\* The deferred rows of an epoch are as many as the projects deferred.
LEMMA RowsFinite ==
  ASSUME TypeOK, NEW e \in Epochs
  PROVE  IsFiniteSet(Rows(e)) /\ Cardinality(Rows(e)) = Cardinality(deferred[e])
  <1>1. IsFiniteSet({e}) /\ Cardinality({e}) = 1
    BY FS_Singleton
  <1>2. IsFiniteSet(deferred[e]) /\ Cardinality(deferred[e]) \in Nat
    BY DeferredFinite
  <1>3. IsFiniteSet({e} \X deferred[e])
        /\ Cardinality({e} \X deferred[e]) = Cardinality({e}) * Cardinality(deferred[e])
    BY <1>1, <1>2, FS_Product
  <1> QED
    BY <1>1, <1>2, <1>3 DEF Rows

\* Rows let go by a step for a selected epoch become justified misses, and
\* were none before.
LEMMA RowsBecomeJustified ==
  ASSUME Structure, [Next]_vars, NEW e \in Epochs, slotSelected[e],
         deferred'[e] = {}, \A q \in deferred[e] : task'[<<e, q>>] = "skipped"
  PROVE  Rows(e) \subseteq JustifiedMisses' /\ Rows(e) \cap JustifiedMisses = {}
  <1>0. TypeOK /\ TypeOK'
    BY TypeNext DEF Structure
  <1> SUFFICES ASSUME NEW q \in deferred[e]
               PROVE  <<e, q>> \in JustifiedMisses' /\ <<e, q>> \notin JustifiedMisses
    BY DEF Rows
  <1>1. q \in Projects /\ <<e, q>> \in Tasks
    BY <1>0 DEF TypeOK, Tasks
  <1>2. task[<<e, q>>] = "skipped"
    BY DEF Structure, DeferredSkipped
  <1>3. slotSelected' = slotSelected
    BY <1>1, SettledStays
  <1> QED
    BY <1>1, <1>2, <1>3 DEF JustifiedMisses, MissSettled

\* What a failing task of a selected epoch adds to the justified misses.
LEMMA FailJustifies ==
  ASSUME Structure, NEW e \in Epochs, NEW p \in Projects, Active(e, p),
         Fail(e, p), SelectedRow(e), [Next]_vars
  PROVE  Cardinality(JustifiedMisses') >=
           Cardinality(JustifiedMisses) + 1 + Cardinality(deferred[e])
  <1>0. TypeOK
    BY DEF Structure
  <1>1. slotSelected[e]
    BY SelectedRowTrue
  <1>2. deferred'[e] = {} /\ task' = [task EXCEPT ![<<e, p>>] = "failed"]
        /\ slotSelected' = slotSelected
    BY <1>0 DEF Fail, Reconcile, RowsKept, SelectedRow, TypeOK
  <1>3. \A q \in deferred[e] : task[<<e, q>>] = "skipped" /\ task'[<<e, q>>] = "skipped"
    BY <1>0, <1>2 DEF Active, TypeOK, Tasks, Structure, DeferredSkipped
  <1>4. Rows(e) \subseteq JustifiedMisses' /\ Rows(e) \cap JustifiedMisses = {}
    BY <1>1, <1>2, <1>3, RowsBecomeJustified
  <1>5. <<e, p>> \in JustifiedMisses' /\ <<e, p>> \notin JustifiedMisses
    BY <1>0, <1>1, <1>2 DEF JustifiedMisses, MissSettled, Active, Tasks, TypeOK
  <1>6. <<e, p>> \notin Rows(e)
    BY <1>3 DEF Rows, Active
  <1> DEFINE grown == (JustifiedMisses \cup Rows(e)) \cup {<<e, p>>}
  <1>7. Cardinality(JustifiedMisses \cup Rows(e)) =
          Cardinality(JustifiedMisses) + Cardinality(deferred[e])
        /\ IsFiniteSet(JustifiedMisses \cup Rows(e))
    <2>1. JustifiedMisses \cap Rows(e) = {}
      BY <1>4
    <2>2. Cardinality(JustifiedMisses \cap Rows(e)) = 0
      BY <2>1, FS_EmptySet
    <2>3. IsFiniteSet(Rows(e)) /\ Cardinality(Rows(e)) = Cardinality(deferred[e])
          /\ Cardinality(deferred[e]) \in Nat
      BY <1>0, RowsFinite, DeferredFinite
    <2>4. /\ IsFiniteSet(JustifiedMisses \cup Rows(e))
          /\ Cardinality(JustifiedMisses \cup Rows(e)) =
               Cardinality(JustifiedMisses) + Cardinality(Rows(e))
                 - Cardinality(JustifiedMisses \cap Rows(e))
      BY <2>3, JustifiedFinite, FS_Union
    <2> QED
      BY <2>2, <2>3, <2>4, JustifiedFinite
  <1>8. Cardinality(grown) = Cardinality(JustifiedMisses) + Cardinality(deferred[e]) + 1
    BY <1>5, <1>6, <1>7, FS_AddElement
  <1>9. grown \subseteq JustifiedMisses'
    BY <1>4, <1>5, JustifiedGrows
  <1>10. Cardinality(grown) <= Cardinality(JustifiedMisses')
    BY <1>9, JustifiedFiniteNext, FS_Subset
  <1> QED
    BY <1>0, <1>8, <1>10, JustifiedFinite, JustifiedFiniteNext, DeferredFinite

\* What a succeeding task of a selected epoch adds to both sets.
LEMMA SucceedJustifies ==
  ASSUME Structure, NEW e \in Epochs, NEW p \in Projects, Active(e, p),
         Succeed(e, p), SelectedRow(e), [Next]_vars
  PROVE  /\ Cardinality(JustifiedMisses') >=
              Cardinality(JustifiedMisses) + Cardinality(deferred[e])
         /\ Cardinality(JustifiedSuccesses') >= Cardinality(JustifiedSuccesses) + 1
  <1>0. TypeOK
    BY DEF Structure
  <1>1. slotSelected[e]
    BY SelectedRowTrue
  <1>2. deferred'[e] = {} /\ task' = [task EXCEPT ![<<e, p>>] = "ok"]
        /\ slotSelected' = slotSelected
    BY <1>0 DEF Succeed, Reconcile, RowsKept, SelectedRow, TypeOK
  <1>3. \A q \in deferred[e] : task[<<e, q>>] = "skipped" /\ task'[<<e, q>>] = "skipped"
    BY <1>0, <1>2 DEF Active, TypeOK, Tasks, Structure, DeferredSkipped
  <1>4. Rows(e) \subseteq JustifiedMisses' /\ Rows(e) \cap JustifiedMisses = {}
    BY <1>1, <1>2, <1>3, RowsBecomeJustified
  <1>5. Cardinality(JustifiedMisses \cup Rows(e)) =
          Cardinality(JustifiedMisses) + Cardinality(deferred[e])
    <2>1. JustifiedMisses \cap Rows(e) = {}
      BY <1>4
    <2>2. Cardinality(JustifiedMisses \cap Rows(e)) = 0
      BY <2>1, FS_EmptySet
    <2>3. IsFiniteSet(Rows(e)) /\ Cardinality(Rows(e)) = Cardinality(deferred[e])
          /\ Cardinality(deferred[e]) \in Nat
      BY <1>0, RowsFinite, DeferredFinite
    <2>4. Cardinality(JustifiedMisses \cup Rows(e)) =
            Cardinality(JustifiedMisses) + Cardinality(Rows(e))
              - Cardinality(JustifiedMisses \cap Rows(e))
      BY <2>3, JustifiedFinite, FS_Union
    <2> QED
      BY <2>2, <2>3, <2>4, JustifiedFinite
  <1>6. JustifiedMisses \cup Rows(e) \subseteq JustifiedMisses'
    BY <1>4, JustifiedGrows
  <1>7. Cardinality(JustifiedMisses \cup Rows(e)) <= Cardinality(JustifiedMisses')
    BY <1>6, JustifiedFiniteNext, FS_Subset
  <1>8. <<e, p>> \in JustifiedSuccesses' /\ <<e, p>> \notin JustifiedSuccesses
    BY <1>0, <1>1, <1>2 DEF JustifiedSuccesses, Active, Tasks, TypeOK
  <1>9. Cardinality(JustifiedSuccesses \cup {<<e, p>>}) = Cardinality(JustifiedSuccesses) + 1
    BY <1>8, JustifiedFinite, FS_AddElement
  <1>10. JustifiedSuccesses \cup {<<e, p>>} \subseteq JustifiedSuccesses'
    BY <1>8, JustifiedGrows
  <1>11. Cardinality(JustifiedSuccesses \cup {<<e, p>>}) <= Cardinality(JustifiedSuccesses')
    BY <1>10, JustifiedFiniteNext, FS_Subset
  <1> QED
    BY <1>5, <1>7, <1>9, <1>11, JustifiedFinite, JustifiedFiniteNext

\* Steps that end no task leave the two totals alone.
LEMMA TotalsChange ==
  ASSUME Structure, [Next]_vars
  PROVE  \/ totalMissed' = totalMissed /\ totalSuccessful' = totalSuccessful
         \/ \E e \in Epochs, p \in Projects :
              Active(e, p) /\ SelectedRow(e) /\ (Fail(e, p) \/ Succeed(e, p))
  <1>1. Cases
    BY StepCases
  <1>2. ASSUME NEW e \in Epochs, StartEpoch(e)
        PROVE  totalMissed' = totalMissed /\ totalSuccessful' = totalSuccessful
    BY <1>2 DEF StartEpoch, counters
  <1>3. ASSUME NEW e \in Epochs, PreloadersDone(e)
        PROVE  totalMissed' = totalMissed /\ totalSuccessful' = totalSuccessful
    BY <1>3 DEF PreloadersDone, Distribute
  <1>4. ASSUME NEW e \in Epochs, NEW p \in Projects,
               ReportSelection(e, p) \/ ComputeReturnsData(e, p)
        PROVE  totalMissed' = totalMissed /\ totalSuccessful' = totalSuccessful
    BY <1>4 DEF ReportSelection, ComputeReturnsData, counters
  <1>5. ASSUME NEW e \in Epochs, NEW p \in Projects, ~SelectedRow(e),
               Fail(e, p) \/ Succeed(e, p)
        PROVE  totalMissed' = totalMissed /\ totalSuccessful' = totalSuccessful
    BY <1>5 DEF Fail, Succeed, counters
  <1>6. CASE UNCHANGED vars
    BY <1>6 DEF vars, counters
  <1> QED
    BY <1>1, <1>2, <1>3, <1>4, <1>5, <1>6 DEF Cases

\* No step pushes a counter beyond what happened.
LEMMA CountersNext ==
  Structure /\ CountersJustified /\ [Next]_vars => CountersJustified'
  <1> SUFFICES ASSUME Structure, CountersJustified, [Next]_vars PROVE CountersJustified'
    OBVIOUS
  <1>0. TypeOK /\ totalMissed \in Nat /\ totalSuccessful \in Nat
    BY DEF Structure, TypeOK
  <1>1. CASE totalMissed' = totalMissed /\ totalSuccessful' = totalSuccessful
    BY <1>0, <1>1, JustifiedGrows, JustifiedFinite, JustifiedFiniteNext DEF CountersJustified
  <1>2. ASSUME NEW e \in Epochs, NEW p \in Projects, Active(e, p), SelectedRow(e), Fail(e, p)
        PROVE  CountersJustified'
    <2>1. totalMissed' = totalMissed + 1 + Cardinality(deferred[e])
          /\ totalSuccessful' = totalSuccessful
      BY <1>2 DEF Fail
    <2> QED
      BY <1>0, <1>2, <2>1, FailJustifies, JustifiedGrows, JustifiedFinite,
         JustifiedFiniteNext, DeferredFinite DEF CountersJustified
  <1>3. ASSUME NEW e \in Epochs, NEW p \in Projects, Active(e, p), SelectedRow(e), Succeed(e, p)
        PROVE  CountersJustified'
    <2>1. totalMissed' = totalMissed + Cardinality(deferred[e])
          /\ totalSuccessful' = totalSuccessful + 1
      BY <1>3 DEF Succeed
    <2> QED
      BY <1>0, <1>3, <2>1, SucceedJustifies, JustifiedFinite,
         JustifiedFiniteNext, DeferredFinite DEF CountersJustified
  <1> QED
    BY <1>1, <1>2, <1>3, TotalsChange

-----------------------------------------------------------------------------
(***************************************************************************)
(* One alert per miss; no row left behind with the answer at hand; the     *)
(* list, the flag and the consecutive counter agree.                       *)
(***************************************************************************)

\* A task that is not settled has not been alerted about yet.
LEMMA UnsettledUnalerted ==
  ASSUME TypeOK, AlertedOnce, NEW k \in Tasks, ~MissSettled(k)
  PROVE  alerts[k] = 0
  BY DEF TypeOK, AlertedOnce

\* Enqueueing rows that were unsettled and now are settled keeps the bag sound.
LEMMA EnqueueOnce ==
  ASSUME Structure, AlertedOnce, [Next]_vars, NEW rows, Enqueue(rows),
         \A k \in Tasks : k \in rows => ~MissSettled(k) /\ MissSettled(k)'
  PROVE  AlertedOnce'
  <1>0. TypeOK
    BY DEF Structure
  <1> SUFFICES ASSUME NEW k \in Tasks
               PROVE  alerts'[k] <= 1 /\ (alerts'[k] = 1 => MissSettled(k)')
    BY DEF AlertedOnce
  <1>1. alerts[k] <= 1 /\ (alerts[k] = 1 => MissSettled(k))
    BY DEF AlertedOnce
  <1>2. CASE k \in rows
    BY <1>0, <1>2, UnsettledUnalerted DEF Enqueue
  <1>3. CASE k \notin rows
    BY <1>1, <1>3, SettledStays DEF Enqueue
  <1> QED
    BY <1>2, <1>3

\* Every step keeps one alert per settled miss.
LEMMA AlertedNext == Structure /\ AlertedOnce /\ [Next]_vars => AlertedOnce'
  <1> SUFFICES ASSUME Structure, AlertedOnce, [Next]_vars PROVE AlertedOnce'
    OBVIOUS
  <1>0. TypeOK /\ Cases
    BY StepCases DEF Structure
  <1>1. CASE alerts' = alerts
    BY <1>1, SettledStays DEF AlertedOnce
  <1>2. ASSUME NEW e \in Epochs, PreloadersDone(e) PROVE AlertedOnce'
    <2>1. PICK failed \in SUBSET Preloaders :
            /\ Distribute(e, SkippedBy(failed))
            /\ \/ alerts' = alerts
               \/ /\ SkippedBy(failed) = Projects
                  /\ deferred' = [deferred EXCEPT ![e] = {}]
                  /\ Enqueue({e} \X (deferred[e] \cup SkippedBy(failed)))
      BY <1>2 DEF PreloadersDone
    <2>2. CASE /\ SkippedBy(failed) = Projects
               /\ deferred' = [deferred EXCEPT ![e] = {}]
               /\ Enqueue({e} \X (deferred[e] \cup SkippedBy(failed)))
      <3> SUFFICES ASSUME NEW k \in Tasks, k \in {e} \X (deferred[e] \cup SkippedBy(failed))
                   PROVE  ~MissSettled(k) /\ MissSettled(k)'
        BY <2>2, EnqueueOnce
      <3>1. PICK p \in Projects : k = <<e, p>>
        BY <1>0 DEF Tasks
      <3>2. task[k] = "idle"
        BY <1>2, <3>1 DEF PreloadersDone, Structure, IdleUntilDistributed
      <3>3. task'[k] = "skipped" /\ deferred'[e] = {}
        BY <1>0, <2>1, <2>2, <3>1 DEF Distribute, TypeOK
      <3> QED
        BY <3>1, <3>2, <3>3 DEF MissSettled
    <2> QED
      BY <1>1, <2>1, <2>2
  <1>3. ASSUME NEW e \in Epochs, NEW p \in Projects, Active(e, p), Fail(e, p) PROVE AlertedOnce'
    <2>1. CASE SelectedRow(e)
      <3> SUFFICES ASSUME NEW k \in Tasks, k \in {<<e, p>>} \cup Rows(e)
                   PROVE  ~MissSettled(k) /\ MissSettled(k)'
        BY <1>3, <2>1, EnqueueOnce DEF Fail
      <3>1. deferred'[e] = {} /\ task' = [task EXCEPT ![<<e, p>>] = "failed"]
        BY <1>0, <1>3, <2>1 DEF Fail, Reconcile, RowsKept, SelectedRow, TypeOK
      <3>2. CASE k = <<e, p>>
        BY <1>0, <1>3, <3>1, <3>2 DEF MissSettled, Active, TypeOK, Tasks
      <3>3. CASE k \in Rows(e)
        <4>1. PICK q \in deferred[e] : k = <<e, q>>
          BY <3>3 DEF Rows
        <4>2. task[k] = "skipped"
          BY <4>1 DEF Structure, DeferredSkipped
        <4>3. task'[k] = "skipped"
          BY <1>0, <1>3, <3>1, <4>2 DEF Active, TypeOK
        <4> QED
          BY <3>1, <4>1, <4>2, <4>3 DEF MissSettled
      <3> QED
        BY <3>2, <3>3
    <2>2. CASE ~SelectedRow(e)
      BY <1>1, <1>3, <2>2 DEF Fail, counters
    <2> QED
      BY <2>1, <2>2
  <1>4. ASSUME NEW e \in Epochs, NEW p \in Projects, Active(e, p), Succeed(e, p) PROVE AlertedOnce'
    <2>1. CASE SelectedRow(e)
      <3> SUFFICES ASSUME NEW k \in Tasks, k \in Rows(e)
                   PROVE  ~MissSettled(k) /\ MissSettled(k)'
        BY <1>4, <2>1, EnqueueOnce DEF Succeed
      <3>1. deferred'[e] = {} /\ task' = [task EXCEPT ![<<e, p>>] = "ok"]
        BY <1>0, <1>4, <2>1 DEF Succeed, Reconcile, RowsKept, SelectedRow, TypeOK
      <3>2. PICK q \in deferred[e] : k = <<e, q>>
        BY DEF Rows
      <3>3. task[k] = "skipped"
        BY <3>2 DEF Structure, DeferredSkipped
      <3>4. task'[k] = "skipped"
        BY <1>0, <1>4, <3>1, <3>3 DEF Active, TypeOK
      <3> QED
        BY <3>1, <3>2, <3>3, <3>4 DEF MissSettled
    <2>2. CASE ~SelectedRow(e)
      BY <1>1, <1>4, <2>2 DEF Succeed, counters
    <2> QED
      BY <2>1, <2>2
  <1>5. ASSUME NEW e \in Epochs, StartEpoch(e) PROVE alerts' = alerts
    BY <1>5 DEF StartEpoch, counters
  <1>6. ASSUME NEW e \in Epochs, NEW p \in Projects,
               ReportSelection(e, p) \/ ComputeReturnsData(e, p)
        PROVE  alerts' = alerts
    BY <1>6 DEF ReportSelection, ComputeReturnsData, counters
  <1>7. CASE UNCHANGED vars
    BY <1>1, <1>7 DEF vars, counters
  <1> QED
    BY <1>0, <1>1, <1>2, <1>3, <1>4, <1>5, <1>6, <1>7 DEF Cases

\* Every step leaves no row behind that the file could have settled.
LEMMA SettledNext ==
  Structure /\ SettledEpochDrained /\ [Next]_vars => SettledEpochDrained'
  <1> SUFFICES ASSUME Structure, SettledEpochDrained, [Next]_vars,
                      NEW d \in Epochs, AllEnded(d)', (tracker.epoch = d \/ AllSkipped(d))'
               PROVE  deferred'[d] = {}
    BY DEF SettledEpochDrained
  <1>0. TypeOK /\ Cases
    BY StepCases DEF Structure
  <1>1. ASSUME \A p \in Projects : task'[<<d, p>>] = task[<<d, p>>],
               tracker'.epoch = d => tracker.epoch = d,
               deferred'[d] \subseteq deferred[d]
        PROVE  deferred'[d] = {}
    BY <1>1 DEF SettledEpochDrained, AllEnded, AllSkipped
  <1>2. ASSUME NEW e \in Epochs, StartEpoch(e) PROVE deferred'[d] = {}
    BY <1>0, <1>1, <1>2 DEF StartEpoch, TypeOK
  <1>3. ASSUME NEW e \in Epochs, PreloadersDone(e) PROVE deferred'[d] = {}
    <2>1. PICK failed \in SUBSET Preloaders :
            /\ Distribute(e, SkippedBy(failed))
            /\ \/ /\ SkippedBy(failed) # Projects
                  /\ deferred' = [deferred EXCEPT ![e] = @ \cup SkippedBy(failed)]
               \/ deferred' = [deferred EXCEPT ![e] = {}]
      BY <1>3 DEF PreloadersDone
    <2>2. CASE d # e
      BY <1>0, <1>1, <2>1, <2>2 DEF Distribute, TypeOK, Tasks
    <2>3. CASE d = e /\ SkippedBy(failed) # Projects
      <3>1. PICK p \in Projects : p \notin SkippedBy(failed)
        BY <2>3 DEF SkippedBy
      <3>2. task'[<<d, p>>] = "running"
        BY <2>1, <2>3, <3>1 DEF Distribute, Tasks
      <3> QED
        BY <3>2 DEF AllEnded, Ended
    <2>4. CASE d = e /\ deferred' = [deferred EXCEPT ![e] = {}]
      BY <1>0, <2>4 DEF TypeOK
    <2> QED
      BY <2>1, <2>2, <2>3, <2>4
  <1>4. ASSUME NEW e \in Epochs, NEW p \in Projects, ReportSelection(e, p)
        PROVE  deferred'[d] = {}
    <2>1. task'[<<e, p>>] = "reported"
      BY <1>0, <1>4 DEF ReportSelection, TypeOK, Tasks
    <2>2. d # e
      BY <2>1 DEF AllEnded, Ended
    <2>3. tracker' = Row(e) \/ tracker' = NoRow \/ tracker' = tracker
      BY <1>4 DEF ReportSelection
    <2>4. tracker'.epoch = d => tracker.epoch = d
      BY <2>2, <2>3, EpochsAssumption DEF Row, NoRow
    <2> QED
      BY <1>0, <1>1, <1>4, <2>2, <2>4 DEF ReportSelection, TypeOK, Tasks
  <1>5. ASSUME NEW e \in Epochs, NEW p \in Projects, ComputeReturnsData(e, p)
        PROVE  deferred'[d] = {}
    <2>1. task'[<<e, p>>] = "committing"
      BY <1>0, <1>5 DEF ComputeReturnsData, TypeOK, Tasks
    <2>2. d # e
      BY <2>1 DEF AllEnded, Ended
    <2> QED
      BY <1>0, <1>1, <1>5, <2>2 DEF ComputeReturnsData, TypeOK, Tasks
  <1>6. ASSUME NEW e \in Epochs, NEW p \in Projects, NEW end \in {"ok", "failed"},
               task' = [task EXCEPT ![<<e, p>>] = end], Reconcile(e), tracker' = tracker
        PROVE  deferred'[d] = {}
    <2>1. CASE d # e
      BY <1>0, <1>1, <1>6, <2>1 DEF Reconcile, RowsKept, TypeOK, Tasks
    <2>2. CASE d = e
      <3>1. task'[<<e, p>>] = end
        BY <1>0, <1>6 DEF TypeOK, Tasks
      <3>2. tracker.epoch = e
        BY <1>6, <2>2, <3>1 DEF AllSkipped
      <3> QED
        BY <1>0, <1>6, <2>2, <3>2 DEF Reconcile, RowsKept, TypeOK
    <2> QED
      BY <2>1, <2>2
  <1>7. ASSUME NEW e \in Epochs, NEW p \in Projects, Fail(e, p) \/ Succeed(e, p)
        PROVE  deferred'[d] = {}
    <2>1. CASE Fail(e, p)
      BY <1>6, <2>1 DEF Fail
    <2>2. CASE Succeed(e, p)
      BY <1>6, <2>2 DEF Succeed
    <2> QED
      BY <1>7, <2>1, <2>2
  <1>8. CASE UNCHANGED vars
    BY <1>1, <1>8 DEF vars
  <1> QED
    BY <1>0, <1>2, <1>3, <1>4, <1>5, <1>7, <1>8 DEF Cases

\* Every step keeps the failure list, the flag and the counter in agreement.
LEMMA LatchNext ==
  TypeOK /\ AlertLatched /\ FailuresAreMisses /\ [Next]_vars
    => AlertLatched' /\ FailuresAreMisses'
  <1> SUFFICES ASSUME TypeOK, AlertLatched, FailuresAreMisses, [Next]_vars
               PROVE  AlertLatched' /\ FailuresAreMisses'
    OBVIOUS
  <1>0. Cases
    BY StepCases
  <1>1. CASE UNCHANGED <<consecutiveMissed, selFailures, alertSent>>
    BY <1>1 DEF AlertLatched, FailuresAreMisses
  <1>2. ASSUME NEW e \in Epochs, NEW p \in Projects, Fail(e, p)
        PROVE  AlertLatched' /\ FailuresAreMisses'
    <2>1. CASE SelectedRow(e)
      <3>1. HandleSelectionFailure(e)
            /\ consecutiveMissed' = consecutiveMissed + 1 + Cardinality(deferred[e])
        BY <1>2, <2>1 DEF Fail
      <3>2. Len(selFailures') = IF Len(selFailures) + 1 > KeepRecent
                                THEN KeepRecent ELSE Len(selFailures) + 1
        BY <3>1, SelectionFailureType
      <3>3. alertSent' = (alertSent \/ (Len(selFailures') >= 3 /\ ~alertSent))
        BY <3>1 DEF HandleSelectionFailure
      <3>4. Len(selFailures) \in Nat /\ consecutiveMissed \in Nat
            /\ Len(selFailures) <= KeepRecent /\ Cardinality(deferred[e]) \in Nat
        BY DeferredFinite DEF TypeOK
      <3>5. FailuresAreMisses'
        BY <3>1, <3>2, <3>4, KeepRecentAssumption DEF FailuresAreMisses
      <3>6. alertSent => Len(selFailures') >= 3
        BY <3>2, <3>4, KeepRecentAssumption DEF AlertLatched
      <3> QED
        BY <3>3, <3>5, <3>6 DEF AlertLatched
    <2>2. CASE ~SelectedRow(e)
      BY <1>1, <1>2, <2>2 DEF Fail, counters
    <2> QED
      BY <2>1, <2>2
  <1>3. ASSUME NEW e \in Epochs, NEW p \in Projects, Succeed(e, p)
        PROVE  AlertLatched' /\ FailuresAreMisses'
    <2>1. CASE SelectedRow(e)
      <3>1. selFailures' = <<>> /\ alertSent' = FALSE
            /\ consecutiveMissed' = Cardinality(deferred[e])
        BY <1>3, <2>1 DEF Succeed, HandleSelectionSuccess
      <3> QED
        BY <3>1, DeferredFinite DEF AlertLatched, FailuresAreMisses
    <2>2. CASE ~SelectedRow(e)
      BY <1>1, <1>3, <2>2 DEF Succeed, counters
    <2> QED
      BY <2>1, <2>2
  <1>4. ASSUME NEW e \in Epochs, StartEpoch(e) \/ PreloadersDone(e)
        PROVE  UNCHANGED <<consecutiveMissed, selFailures, alertSent>>
    BY <1>4 DEF StartEpoch, PreloadersDone, Distribute, counters
  <1>5. ASSUME NEW e \in Epochs, NEW p \in Projects,
               ReportSelection(e, p) \/ ComputeReturnsData(e, p)
        PROVE  UNCHANGED <<consecutiveMissed, selFailures, alertSent>>
    BY <1>5 DEF ReportSelection, ComputeReturnsData, counters
  <1>6. CASE UNCHANGED vars
    BY <1>1, <1>6 DEF vars, counters
  <1> QED
    BY <1>0, <1>1, <1>2, <1>3, <1>4, <1>5, <1>6 DEF Cases

-----------------------------------------------------------------------------
(***************************************************************************)
(* The rows handed to Telegram are the misses counted.                     *)
(***************************************************************************)
CountedRows == {k \in Tasks : alerts[k] > 0 /\ ~AllSkipped(k[1])}

\* Once a miss of an epoch is settled, whether all its projects were skipped
\* does not change any more.
LEMMA AllSkippedStays ==
  ASSUME Structure, [Next]_vars, NEW e \in Epochs, NEW p \in Projects,
         MissSettled(<<e, p>>)
  PROVE  AllSkipped(e)' <=> AllSkipped(e)
  <1> USE DEF AllSkipped
  <1>0. TypeOK /\ Cases /\ task \in [Tasks -> TaskState]
    BY StepCases DEF Structure, TypeOK
  <1>1. ASSUME NEW d \in Epochs, PreloadersDone(d)
        PROVE  AllSkipped(e)' <=> AllSkipped(e)
    <2>1. PICK failed \in SUBSET Preloaders : Distribute(d, SkippedBy(failed))
      BY <1>1 DEF PreloadersDone
    <2>2. d # e
      BY <1>1 DEF PreloadersDone, Structure, IdleUntilDistributed, MissSettled
    <2>3. \A q \in Projects : task'[<<e, q>>] = task[<<e, q>>]
      BY <2>1, <2>2 DEF Distribute, Tasks
    <2> QED
      BY <2>3
  <1>2. ASSUME NEW d \in Epochs, NEW q \in Projects, NEW end, end # "skipped",
               Active(d, q), task' = [task EXCEPT ![<<d, q>>] = end]
        PROVE  AllSkipped(e)' <=> AllSkipped(e)
    <2>1. task'[<<d, q>>] = end
          /\ \A r \in Projects : <<e, r>> # <<d, q>> => task'[<<e, r>>] = task[<<e, r>>]
      BY <1>0, <1>2 DEF Tasks
    <2>2. CASE d = e
      BY <1>2, <2>1, <2>2 DEF Active
    <2>3. CASE d # e
      BY <2>1, <2>3
    <2> QED
      BY <2>2, <2>3
  <1>3. ASSUME NEW d \in Epochs, NEW q \in Projects, ReportSelection(d, q)
        PROVE  AllSkipped(e)' <=> AllSkipped(e)
    BY <1>2, <1>3 DEF ReportSelection, Active
  <1>4. ASSUME NEW d \in Epochs, NEW q \in Projects, ComputeReturnsData(d, q)
        PROVE  AllSkipped(e)' <=> AllSkipped(e)
    BY <1>2, <1>4 DEF ComputeReturnsData, Active
  <1>5. ASSUME NEW d \in Epochs, NEW q \in Projects, Active(d, q), Fail(d, q)
        PROVE  AllSkipped(e)' <=> AllSkipped(e)
    BY <1>2, <1>5 DEF Fail
  <1>6. ASSUME NEW d \in Epochs, NEW q \in Projects, Active(d, q), Succeed(d, q)
        PROVE  AllSkipped(e)' <=> AllSkipped(e)
    BY <1>2, <1>6 DEF Succeed
  <1>7. ASSUME NEW d \in Epochs, StartEpoch(d) PROVE AllSkipped(e)' <=> AllSkipped(e)
    BY <1>7 DEF StartEpoch
  <1>8. CASE UNCHANGED vars
    BY <1>8 DEF vars
  <1> QED
    BY <1>0, <1>1, <1>3, <1>4, <1>5, <1>6, <1>7, <1>8 DEF Cases

\* Rows enqueued for a selected epoch that has a task of its own are counted
\* one by one: none of them had been before.
LEMMA EnqueueCounts ==
  ASSUME Structure, AlertedOnce, RowsCounted, [Next]_vars,
         NEW e \in Epochs, slotSelected[e], ~AllSkipped(e)', NEW rows \in SUBSET Tasks,
         \A k \in rows : k[1] = e /\ ~MissSettled(k), Enqueue(rows),
         totalMissed' = totalMissed + Cardinality(rows)
  PROVE  RowsCounted'
  <1>0. TypeOK /\ alerts \in [Tasks -> Nat] /\ slotSelected' = slotSelected
    <2>1. [Next]_vars => slotSelected' = slotSelected
      BY StepCases DEF Cases, StartEpoch, PreloadersDone, Distribute, ReportSelection,
                       ComputeReturnsData, Fail, Succeed, vars
    <2> QED
      BY <2>1 DEF Structure, TypeOK
  <1>1. \A k \in Tasks : alerts'[k] > 0 <=> alerts[k] > 0 \/ (TelegramConfigured /\ k \in rows)
    BY <1>0 DEF Enqueue
  <1>2. ASSUME NEW k \in Tasks, alerts[k] > 0
        PROVE  k \notin rows /\ (AllSkipped(k[1])' <=> AllSkipped(k[1]))
    <2>1. MissSettled(k)
      BY <1>0, <1>2, UnsettledUnalerted
    <2>2. PICK d \in Epochs, p \in Projects : k = <<d, p>>
      BY DEF Tasks
    <2> QED
      BY <2>1, <2>2, AllSkippedStays
  <1>3. \A k \in Tasks : alerts'[k] > 0 => slotSelected'[k[1]] \/ AllSkipped(k[1])'
    BY <1>0, <1>1, <1>2 DEF RowsCounted
  <1>4. ASSUME TelegramConfigured PROVE totalMissed' = Cardinality(CountedRows')
    <2>1. CountedRows' = CountedRows \cup rows
      BY <1>1, <1>2, <1>4 DEF CountedRows
    <2>2. CountedRows \cap rows = {}
      BY <1>2 DEF CountedRows
    <2>3. IsFiniteSet(CountedRows) /\ IsFiniteSet(rows)
      <3>1. IsFiniteSet(Tasks)
        BY EpochsAssumption, ProjectsAssumption, FS_Product DEF Tasks
      <3> QED
        BY <3>1, FS_Subset DEF CountedRows
    <2>4. Cardinality(CountedRows \cap rows) = 0
      BY <2>2, FS_EmptySet
    <2>5. Cardinality(CountedRows \cup rows) =
            Cardinality(CountedRows) + Cardinality(rows) - Cardinality(CountedRows \cap rows)
      BY <2>3, FS_Union
    <2>6. totalMissed = Cardinality(CountedRows)
      BY <1>4 DEF RowsCounted, CountedRows
    <2> QED
      BY <2>1, <2>3, <2>4, <2>5, <2>6, FS_CardinalityType
  <1> QED
    BY <1>3, <1>4 DEF RowsCounted, CountedRows

\* A step that enqueues nothing and counts nothing changes nothing here.
LEMMA NothingCounted ==
  ASSUME Structure, AlertedOnce, RowsCounted, [Next]_vars,
         UNCHANGED <<alerts, totalMissed, slotSelected>>
  PROVE  RowsCounted'
  <1>1. ASSUME NEW k \in Tasks, alerts[k] > 0
        PROVE  AllSkipped(k[1])' <=> AllSkipped(k[1])
    <2>1. MissSettled(k)
      BY <1>1, UnsettledUnalerted DEF Structure, TypeOK
    <2>2. PICK d \in Epochs, p \in Projects : k = <<d, p>>
      BY DEF Tasks
    <2> QED
      BY <2>1, <2>2, AllSkippedStays
  <1>2. CountedRows' = CountedRows
    BY <1>1 DEF CountedRows
  <1> QED
    BY <1>1, <1>2 DEF RowsCounted, CountedRows

\* Every step counts the rows it enqueues, but for those of a flush.
LEMMA CountedNext == Structure /\ AlertedOnce /\ RowsCounted /\ [Next]_vars => RowsCounted'
  <1> SUFFICES ASSUME Structure, AlertedOnce, RowsCounted, [Next]_vars PROVE RowsCounted'
    OBVIOUS
  <1>0. TypeOK /\ Cases
    BY StepCases DEF Structure
  <1>1. ASSUME NEW e \in Epochs, PreloadersDone(e) PROVE RowsCounted'
    <2>1. PICK failed \in SUBSET Preloaders :
            /\ Distribute(e, SkippedBy(failed))
            /\ \/ alerts' = alerts
               \/ /\ SkippedBy(failed) = Projects
                  /\ Enqueue({e} \X (deferred[e] \cup SkippedBy(failed)))
      BY <1>1 DEF PreloadersDone
    <2>2. UNCHANGED <<totalMissed, slotSelected>>
      BY <2>1 DEF Distribute
    <2>3. CASE alerts' = alerts
      BY <2>2, <2>3, NothingCounted
    <2>4. CASE /\ SkippedBy(failed) = Projects
               /\ Enqueue({e} \X (deferred[e] \cup SkippedBy(failed)))
      <3>1. AllSkipped(e)'
        BY <2>1, <2>4 DEF Distribute, AllSkipped, Tasks
      <3>2. \A k \in Tasks : k[1] # e => alerts'[k] = alerts[k]
        BY <2>4, <1>0 DEF Enqueue, TypeOK
      <3>3. \A p \in Projects : alerts[<<e, p>>] = 0
        <4> SUFFICES ASSUME NEW p \in Projects PROVE alerts[<<e, p>>] = 0
          OBVIOUS
        <4>1. task[<<e, p>>] = "idle" /\ <<e, p>> \in Tasks
          BY <1>1 DEF PreloadersDone, Structure, IdleUntilDistributed, Tasks
        <4> QED
          BY <1>0, <4>1, UnsettledUnalerted DEF MissSettled
      <3>4. ASSUME NEW k \in Tasks, k[1] # e, alerts[k] > 0
            PROVE  AllSkipped(k[1])' <=> AllSkipped(k[1])
        <4>1. MissSettled(k)
          BY <1>0, <3>4, UnsettledUnalerted DEF TypeOK
        <4>2. PICK d \in Epochs, p \in Projects : k = <<d, p>>
          BY DEF Tasks
        <4> QED
          BY <4>1, <4>2, AllSkippedStays
      <3>5. CountedRows' = CountedRows
        <4> SUFFICES ASSUME NEW k \in Tasks PROVE k \in CountedRows' <=> k \in CountedRows
          BY DEF CountedRows
        <4>1. PICK d \in Epochs, p \in Projects : k = <<d, p>>
          BY DEF Tasks
        <4>2. CASE d = e
          BY <3>1, <3>3, <4>1, <4>2 DEF CountedRows
        <4>3. CASE d # e
          BY <3>2, <3>4, <4>1, <4>3 DEF CountedRows
        <4> QED
          BY <4>2, <4>3
      <3>6. \A k \in Tasks : alerts'[k] > 0 => slotSelected'[k[1]] \/ AllSkipped(k[1])'
        BY <2>2, <3>1, <3>2, <3>4 DEF RowsCounted
      <3> QED
        BY <2>2, <3>5, <3>6 DEF RowsCounted, CountedRows
    <2> QED
      BY <2>1, <2>3, <2>4
  <1>2. ASSUME NEW e \in Epochs, NEW p \in Projects, Active(e, p), Fail(e, p) PROVE RowsCounted'
    <2>1. CASE SelectedRow(e)
      <3> DEFINE rows == {<<e, p>>} \cup Rows(e)
      <3>1. Enqueue(rows) /\ totalMissed' = totalMissed + 1 + Cardinality(deferred[e])
            /\ task' = [task EXCEPT ![<<e, p>>] = "failed"]
        BY <1>2, <2>1 DEF Fail
      <3>2. rows \in SUBSET Tasks
        BY <1>0 DEF Rows, Tasks, TypeOK
      <3>3. \A k \in rows : k[1] = e /\ ~MissSettled(k)
        BY <1>2 DEF Rows, MissSettled, Active, Structure, DeferredSkipped
      <3>4. ~AllSkipped(e)'
        BY <1>0, <3>1 DEF AllSkipped, TypeOK, Tasks
      <3>5. Cardinality(rows) = 1 + Cardinality(deferred[e])
        <4>1. <<e, p>> \notin Rows(e)
          BY <1>2 DEF Rows, Active, Structure, DeferredSkipped
        <4>2. Cardinality(Rows(e) \cup {<<e, p>>}) = Cardinality(Rows(e)) + 1
          BY <1>0, <4>1, RowsFinite, FS_AddElement
        <4>3. rows = Rows(e) \cup {<<e, p>>}
          OBVIOUS
        <4>4. Cardinality(Rows(e)) = Cardinality(deferred[e]) /\ Cardinality(deferred[e]) \in Nat
          BY <1>0, RowsFinite, DeferredFinite
        <4> HIDE DEF rows
        <4> QED
          BY <4>2, <4>3, <4>4
      <3>6. totalMissed' = totalMissed + Cardinality(rows)
        BY <1>0, <3>1, <3>5, DeferredFinite DEF TypeOK
      <3>7. slotSelected[e]
        BY <2>1, SelectedRowTrue
      <3> HIDE DEF rows
      <3> QED
        BY <3>1, <3>2, <3>3, <3>4, <3>6, <3>7, EnqueueCounts
    <2>2. CASE ~SelectedRow(e)
      BY <1>2, <2>2, NothingCounted DEF Fail, counters
    <2> QED
      BY <2>1, <2>2
  <1>3. ASSUME NEW e \in Epochs, NEW p \in Projects, Active(e, p), Succeed(e, p)
        PROVE  RowsCounted'
    <2>1. CASE SelectedRow(e)
      <3>1. Enqueue(Rows(e)) /\ totalMissed' = totalMissed + Cardinality(deferred[e])
            /\ task' = [task EXCEPT ![<<e, p>>] = "ok"]
        BY <1>3, <2>1 DEF Succeed
      <3>2. Rows(e) \in SUBSET Tasks
        BY <1>0 DEF Rows, Tasks, TypeOK
      <3>3. \A k \in Rows(e) : k[1] = e /\ ~MissSettled(k)
        BY DEF Rows, MissSettled, Structure, DeferredSkipped
      <3>4. ~AllSkipped(e)'
        BY <1>0, <3>1 DEF AllSkipped, TypeOK, Tasks
      <3>5. totalMissed' = totalMissed + Cardinality(Rows(e))
        BY <1>0, <3>1, RowsFinite
      <3>6. slotSelected[e]
        BY <2>1, SelectedRowTrue
      <3> QED
        BY <3>1, <3>2, <3>3, <3>4, <3>5, <3>6, EnqueueCounts
    <2>2. CASE ~SelectedRow(e)
      BY <1>3, <2>2, NothingCounted DEF Succeed, counters
    <2> QED
      BY <2>1, <2>2
  <1>4. ASSUME NEW e \in Epochs, StartEpoch(e) PROVE RowsCounted'
    BY <1>4, NothingCounted DEF StartEpoch, counters
  <1>5. ASSUME NEW e \in Epochs, NEW p \in Projects,
               ReportSelection(e, p) \/ ComputeReturnsData(e, p)
        PROVE  RowsCounted'
    BY <1>5, NothingCounted DEF ReportSelection, ComputeReturnsData, counters
  <1>6. CASE UNCHANGED vars
    BY <1>6, NothingCounted DEF vars, counters
  <1> QED
    BY <1>0, <1>1, <1>2, <1>3, <1>4, <1>5, <1>6 DEF Cases

-----------------------------------------------------------------------------
(***************************************************************************)
(* What an unhealthy alert names.                                          *)
(***************************************************************************)
FailedSelected(e) == slotSelected[e] /\ \E p \in Projects : task[<<e, p>>] = "failed"

FailedTwice(e) ==
  \E p, q \in Projects : p # q /\ task[<<e, p>>] = "failed" /\ task[<<e, q>>] = "failed"

\* A list of selected epochs with a failed task, one of them named again only
\* for the failure of another project type.
Sound(s) ==
  /\ \A i \in DOMAIN s : FailedSelected(s[i])
  /\ \A i, j \in DOMAIN s : s[i] = s[j] => i = j \/ FailedTwice(s[i])

\* Every unhealthy alert names three failures: of selected epochs, of three
\* different ones unless two project types of an epoch failed.  The slot is
\* never called unhealthy for an epoch that was another slot's.
WindowsHonest == \A w \in unhealthy : Len(w) = 3 /\ Sound(w)

\* A trimmed list is the list from some place on.
LEMMA LastOfShifts ==
  ASSUME NEW S, NEW s \in Seq(S), NEW n \in Nat
  PROVE  \E off \in Nat : \A i \in DOMAIN LastOf(s, n) :
           i + off \in DOMAIN s /\ LastOf(s, n)[i] = s[i + off]
  <1>1. CASE Len(s) > n
    <2>1. LastOf(s, n) = SubSeq(s, Len(s) - n + 1, Len(s))
      BY <1>1 DEF LastOf
    <2>2. Len(s) - n \in Nat /\ Len(s) \in Nat /\ DOMAIN s = 1 .. Len(s)
      BY <1>1
    <2>3. ASSUME NEW i \in DOMAIN LastOf(s, n)
          PROVE  i + (Len(s) - n) \in DOMAIN s /\ LastOf(s, n)[i] = s[i + (Len(s) - n)]
      <3>1. i \in 1 .. n
        BY <2>1, <2>2, <2>3
      <3>2. LastOf(s, n)[i] = s[(Len(s) - n + 1) + i - 1]
        BY <2>1, <2>2, <3>1
      <3>3. (Len(s) - n + 1) + i - 1 = i + (Len(s) - n)
        BY <2>2, <3>1
      <3> QED
        BY <2>2, <3>1, <3>2, <3>3
    <2> QED
      BY <2>2, <2>3
  <1>2. CASE ~(Len(s) > n)
    <2>1. LastOf(s, n) = s
      BY <1>2 DEF LastOf
    <2>2. \A i \in DOMAIN s : i + 0 \in DOMAIN s /\ s[i] = s[i + 0]
      OBVIOUS
    <2> QED
      BY <2>1, <2>2
  <1> QED
    BY <1>1, <1>2

\* A list of n entries or more fills a window of n.
LEMMA LastOfFull ==
  ASSUME NEW S, NEW s \in Seq(S), NEW n \in Nat, Len(s) >= n
  PROVE  Len(LastOf(s, n)) = n
  BY DEF LastOf

\* What lies within a sound list is sound.
LEMMA ShiftedSound ==
  ASSUME NEW s \in Seq(Epochs), NEW t \in Seq(Epochs), NEW off \in Nat,
         \A i \in DOMAIN t : i + off \in DOMAIN s /\ t[i] = s[i + off],
         Sound(s)'
  PROVE  Sound(t)'
  <1>1. \A i \in DOMAIN t : FailedSelected(t[i])'
    BY DEF Sound
  <1>2. ASSUME NEW i \in DOMAIN t, NEW j \in DOMAIN t, t[i] = t[j]
        PROVE  i = j \/ FailedTwice(t[i])'
    <2>1. i + off = j + off \/ FailedTwice(s[i + off])'
      BY <1>2 DEF Sound
    <2>2. i \in Nat /\ j \in Nat
      OBVIOUS
    <2> QED
      BY <1>2, <2>1, <2>2
  <1> QED
    BY <1>1, <1>2 DEF Sound

\* A failure stays one.
LEMMA SoundStays ==
  ASSUME Structure, [Next]_vars, NEW s \in Seq(Epochs), Sound(s)
  PROVE  Sound(s)'
  <1>1. ASSUME NEW e \in Epochs, NEW p \in Projects, task[<<e, p>>] = "failed"
        PROVE  task'[<<e, p>>] = "failed" /\ slotSelected' = slotSelected
    <2>1. CASE Next
      <3>1. <<e, p>> \in Tasks
        BY DEF Tasks
      <3>2. TaskMove(<<e, p>>)
        BY <2>1, <3>1, Moves
      <3> QED
        BY <1>1, <3>1, <3>2, SettledStays DEF TaskMove
    <2>2. CASE UNCHANGED vars
      BY <1>1, <2>2 DEF vars
    <2> QED
      BY <2>1, <2>2
  <1>2. \A i \in DOMAIN s : s[i] \in Epochs
    OBVIOUS
  <1>3. \A e \in Epochs : /\ FailedSelected(e) => FailedSelected(e)'
                          /\ FailedTwice(e) => FailedTwice(e)'
    BY <1>1 DEF FailedSelected, FailedTwice
  <1> QED
    BY <1>2, <1>3 DEF Sound

\* The list with the failure a step adds is sound once the step is taken.
LEMMA FailureAppended ==
  ASSUME Structure, [Next]_vars, Sound(selFailures),
         NEW e \in Epochs, NEW p \in Projects, Active(e, p), SelectedRow(e), Fail(e, p),
         NEW longer, longer = Append(selFailures, e)
  PROVE  Sound(longer)'
  <1>0. TypeOK /\ selFailures \in Seq(Epochs)
    BY DEF Structure, TypeOK
  <1>1. PICK before \in Seq(Epochs) : before = selFailures
    BY <1>0
  <1>2. Sound(before)'
    BY <1>1, SoundStays DEF Sound
  <1>3. task'[<<e, p>>] = "failed" /\ slotSelected' = slotSelected /\ slotSelected[e]
    BY <1>0, SelectedRowTrue DEF Fail, TypeOK, Tasks
  <1>4. longer \in Seq(Epochs) /\ Len(longer) = Len(before) + 1
        /\ longer[Len(before) + 1] = e /\ \A i \in DOMAIN before : longer[i] = before[i]
    BY <1>1
  <1>5. \A i \in DOMAIN longer : i \in DOMAIN before \/ i = Len(before) + 1
    BY <1>4
  <1>6. \A i \in DOMAIN longer : FailedSelected(longer[i])'
    <2>1. FailedSelected(e)'
      BY <1>3 DEF FailedSelected
    <2>2. \A i \in DOMAIN before : FailedSelected(before[i])'
      BY <1>2 DEF Sound
    <2> QED
      BY <1>4, <1>5, <2>1, <2>2
  <1>7. ASSUME NEW i \in DOMAIN before, before[i] = e PROVE FailedTwice(e)'
    <2>1. FailedSelected(e)
      BY <1>1, <1>7 DEF Sound
    <2>2. PICK q \in Projects : task[<<e, q>>] = "failed"
      BY <2>1 DEF FailedSelected
    <2>3. q # p
      BY <2>2 DEF Active
    <2>4. task'[<<e, q>>] = "failed"
      BY <1>0, <2>2, <2>3 DEF Fail, TypeOK, Tasks
    <2> QED
      BY <1>3, <2>3, <2>4 DEF FailedTwice
  <1>8. ASSUME NEW i \in DOMAIN longer, NEW j \in DOMAIN longer, longer[i] = longer[j]
        PROVE  i = j \/ FailedTwice(longer[i])'
    <2>1. CASE i \in DOMAIN before /\ j \in DOMAIN before
      BY <1>2, <1>4, <1>8, <2>1 DEF Sound
    <2>2. CASE i \in DOMAIN before /\ j = Len(before) + 1
      BY <1>4, <1>7, <1>8, <2>2
    <2>3. CASE j \in DOMAIN before /\ i = Len(before) + 1
      BY <1>4, <1>7, <1>8, <2>3
    <2> QED
      BY <1>5, <2>1, <2>2, <2>3
  <1> QED
    BY <1>6, <1>8 DEF Sound

\* Every step keeps the list sound and reports sound windows only.
LEMMA WindowsNext ==
  Structure /\ Sound(selFailures) /\ WindowsHonest /\ [Next]_vars
    => Sound(selFailures)' /\ WindowsHonest'
  <1> SUFFICES ASSUME Structure, Sound(selFailures), WindowsHonest, [Next]_vars
               PROVE  Sound(selFailures)' /\ WindowsHonest'
    OBVIOUS
  <1>0. /\ TypeOK /\ Cases
        /\ selFailures \in Seq(Epochs) /\ unhealthy \subseteq Seq(Epochs)
    BY StepCases DEF Structure, TypeOK
  <1>1. \A w \in unhealthy : Len(w) = 3 /\ Sound(w)'
    BY <1>0, SoundStays DEF WindowsHonest
  <1>2. ASSUME selFailures' = selFailures PROVE Sound(selFailures)'
    <2>1. PICK list \in Seq(Epochs) : list = selFailures
      BY <1>0
    <2>2. Sound(list)'
      BY <2>1, SoundStays DEF Sound
    <2> QED
      BY <1>2, <2>1, <2>2 DEF Sound
  <1>3. CASE UNCHANGED <<selFailures, unhealthy>>
    BY <1>1, <1>2, <1>3 DEF WindowsHonest
  <1>4. ASSUME NEW e \in Epochs, NEW p \in Projects, Active(e, p), Fail(e, p)
        PROVE  Sound(selFailures)' /\ WindowsHonest'
    <2>1. CASE SelectedRow(e)
      <3>0. Append(selFailures, e) \in Seq(Epochs)
        BY <1>0
      <3>1. PICK longer \in Seq(Epochs) : longer = Append(selFailures, e)
        BY <3>0
      <3>2. Sound(longer)'
        BY <1>4, <2>1, <3>1, FailureAppended
      <3>3. PICK kept \in Seq(Epochs) : kept = LastOf(longer, KeepRecent)
        BY <3>1, LastOfType, KeepRecentAssumption
      <3>4. Sound(kept)'
        <4>1. PICK off \in Nat : \A i \in DOMAIN kept :
                i + off \in DOMAIN longer /\ kept[i] = longer[i + off]
          BY <3>3, LastOfShifts, KeepRecentAssumption
        <4> QED
          BY <3>2, <4>1, ShiftedSound
      <3>5. PICK window \in Seq(Epochs) :
              /\ window = LastOf(kept, 3)
              /\ Len(window) = IF Len(kept) > 3 THEN 3 ELSE Len(kept)
        BY LastOfType
      <3>6. Sound(window)'
        <4>1. PICK off \in Nat : \A i \in DOMAIN window :
                i + off \in DOMAIN kept /\ window[i] = kept[i + off]
          BY <3>5, LastOfShifts
        <4> QED
          BY <3>4, <4>1, ShiftedSound
      <3>7. /\ selFailures' = kept
            /\ \/ unhealthy' = unhealthy
               \/ Len(kept) >= 3 /\ unhealthy' = unhealthy \cup {window}
        BY <1>4, <2>1, <3>1, <3>3, <3>5 DEF Fail, HandleSelectionFailure
      <3>8. Sound(selFailures)'
        BY <3>4, <3>7 DEF Sound
      <3>9. Len(kept) >= 3 => Len(window) = 3
        BY <3>5, LastOfFull
      <3> QED
        BY <1>1, <3>6, <3>7, <3>8, <3>9 DEF WindowsHonest
    <2>2. CASE ~SelectedRow(e)
      BY <1>3, <1>4, <2>2 DEF Fail, counters
    <2> QED
      BY <2>1, <2>2
  <1>5. ASSUME NEW e \in Epochs, NEW p \in Projects, Succeed(e, p)
        PROVE  Sound(selFailures)' /\ WindowsHonest'
    <2>1. CASE SelectedRow(e)
      <3>1. selFailures' = <<>> /\ unhealthy' = unhealthy
        BY <1>5, <2>1 DEF Succeed, HandleSelectionSuccess
      <3> QED
        BY <1>1, <3>1 DEF WindowsHonest, Sound
    <2>2. CASE ~SelectedRow(e)
      BY <1>3, <1>5, <2>2 DEF Succeed, counters
    <2> QED
      BY <2>1, <2>2
  <1>6. ASSUME NEW e \in Epochs, StartEpoch(e) \/ PreloadersDone(e)
        PROVE  UNCHANGED <<selFailures, unhealthy>>
    BY <1>6 DEF StartEpoch, PreloadersDone, Distribute, counters
  <1>7. ASSUME NEW e \in Epochs, NEW p \in Projects,
               ReportSelection(e, p) \/ ComputeReturnsData(e, p)
        PROVE  UNCHANGED <<selFailures, unhealthy>>
    BY <1>7 DEF ReportSelection, ComputeReturnsData, counters
  <1>8. CASE UNCHANGED vars
    BY <1>3, <1>8 DEF vars, counters
  <1> QED
    BY <1>0, <1>3, <1>4, <1>5, <1>6, <1>7, <1>8 DEF Cases

-----------------------------------------------------------------------------
(***************************************************************************)
(* The theorems.                                                           *)
(***************************************************************************)

\* The inductive invariant holds initially.
LEMMA InvInit == Init => IInv
  <1> SUFFICES ASSUME Init PROVE IInv
    OBVIOUS
  <1>1. Structure
    BY StructureInit
  <1>2. CountersJustified
    BY JustifiedFinite DEF Init, CountersJustified
  <1>3. AlertedOnce
    BY DEF Init, AlertedOnce
  <1>4. SettledEpochDrained /\ AlertLatched /\ FailuresAreMisses
    BY DEF Init, SettledEpochDrained, AlertLatched, FailuresAreMisses
  <1> QED
    BY <1>1, <1>2, <1>3, <1>4 DEF Structure, IInv

\* Every step preserves the inductive invariant.
LEMMA InvNext == IInv /\ [Next]_vars => IInv'
  BY StructureNext, CountersNext, AlertedNext, SettledNext, LatchNext DEF IInv, Structure

\* The inductive invariant holds in every reachable state.
THEOREM Invariant == Spec => []IInv
  BY InvInit, InvNext, PTL DEF Spec

\* However epochs interleave over the one-row file, no miss and no success is
\* counted that did not happen, and none twice.
THEOREM Justified == Spec => []CountersJustified
  <1>1. IInv => CountersJustified
    BY DEF IInv
  <1> QED
    BY <1>1, Invariant, PTL

\* A task never yields two MISSED_SNAPSHOT rows.
THEOREM Alerted == Spec => []AlertedOnce
  <1>1. IInv => AlertedOnce
    BY DEF IInv
  <1> QED
    BY <1>1, Invariant, PTL

\* No deferred row is left behind by an epoch the file speaks of.
THEOREM Drained == Spec => []SettledEpochDrained
  <1>1. IInv => SettledEpochDrained
    BY DEF IInv
  <1> QED
    BY <1>1, Invariant, PTL

\* The unhealthy flag is set exactly while three failures are listed.
THEOREM Latched == Spec => []AlertLatched
  <1>1. IInv => AlertLatched
    BY DEF IInv
  <1> QED
    BY <1>1, Invariant, PTL

\* The failure list never outruns consecutiveMissedSubmissions.
THEOREM Listed == Spec => []FailuresAreMisses
  <1>1. IInv => FailuresAreMisses
    BY DEF IInv
  <1> QED
    BY <1>1, Invariant, PTL

\* What the report counts as missed is exactly what was handed to Telegram,
\* and Telegram hears of an unselected epoch only when all its projects were
\* skipped.
THEOREM Counted == Spec => []RowsCounted
  <1>1. Init => RowsCounted
    <2> SUFFICES ASSUME Init PROVE RowsCounted
      OBVIOUS
    <2>1. {k \in Tasks : alerts[k] > 0 /\ ~AllSkipped(k[1])} = {}
      BY DEF Init
    <2> QED
      BY <2>1, FS_EmptySet DEF Init, RowsCounted
  <1>2. IInv /\ RowsCounted /\ [Next]_vars => RowsCounted'
    BY CountedNext DEF IInv, Structure
  <1> QED
    BY <1>1, <1>2, Invariant, PTL DEF Spec

\* With a project type that needs no preloader no epoch is ever flushed, and
\* Telegram hears of selected epochs only: what the documentation says of
\* every configuration holds of these.
THEOREM SelectedOnly ==
  ASSUME \E p \in Projects : Requires[p] = {}
  PROVE  Spec => []AlertsOnlySelected
  <1>0. PICK free \in Projects : Requires[free] = {}
    OBVIOUS
  <1> DEFINE FreeRuns == \A e \in Epochs : task[<<e, free>>] # "skipped"
  <1>1. Init => FreeRuns
    BY <1>0 DEF Init, Tasks
  <1>2. TypeOK /\ FreeRuns /\ [Next]_vars => FreeRuns'
    <2> SUFFICES ASSUME TypeOK, FreeRuns, Cases, NEW d \in Epochs
                 PROVE  task'[<<d, free>>] # "skipped"
      BY StepCases
    <2>0. task \in [Tasks -> TaskState] /\ <<d, free>> \in Tasks
      BY DEF TypeOK, Tasks
    <2>1. ASSUME NEW e \in Epochs, PreloadersDone(e) PROVE task'[<<d, free>>] # "skipped"
      <3>1. PICK failed \in SUBSET Preloaders : Distribute(e, SkippedBy(failed))
        BY <2>1 DEF PreloadersDone
      <3>2. free \notin SkippedBy(failed)
        BY <1>0 DEF SkippedBy
      <3> QED
        BY <2>0, <3>1, <3>2 DEF Distribute
    <2>2. ASSUME NEW e \in Epochs, NEW p \in Projects, NEW end, end # "skipped",
                 task' = [task EXCEPT ![<<e, p>>] = end]
          PROVE  task'[<<d, free>>] # "skipped"
      BY <2>0, <2>2
    <2>3. ASSUME NEW e \in Epochs, NEW p \in Projects,
                 \/ ReportSelection(e, p) \/ ComputeReturnsData(e, p)
                 \/ Fail(e, p) \/ Succeed(e, p)
          PROVE  task'[<<d, free>>] # "skipped"
      BY <2>2, <2>3 DEF ReportSelection, ComputeReturnsData, Fail, Succeed
    <2>4. ASSUME NEW e \in Epochs, StartEpoch(e) PROVE task'[<<d, free>>] # "skipped"
      BY <2>0, <2>4 DEF StartEpoch
    <2>5. CASE UNCHANGED vars
      BY <2>0, <2>5 DEF vars
    <2> QED
      BY <2>1, <2>3, <2>4, <2>5 DEF Cases
  <1>3. FreeRuns /\ RowsCounted => AlertsOnlySelected
    <2> SUFFICES ASSUME FreeRuns, RowsCounted, NEW k \in Tasks, alerts[k] > 0
                 PROVE  slotSelected[k[1]]
      BY DEF AlertsOnlySelected
    <2>1. k[1] \in Epochs
      BY DEF Tasks
    <2>2. ~AllSkipped(k[1])
      BY <1>0, <2>1 DEF AllSkipped
    <2> QED
      BY <2>2 DEF RowsCounted
  <1> HIDE DEF FreeRuns
  <1> QED
    BY <1>1, <1>2, <1>3, TypeCorrect, Counted, PTL DEF Spec

\* An unhealthy alert names three real failures of selected epochs.
THEOREM Honest == Spec => []WindowsHonest
  <1> DEFINE ListSound == Sound(selFailures)
  <1>1. Init => ListSound /\ WindowsHonest
    BY DEF Init, Sound, WindowsHonest
  <1>2. IInv /\ ListSound /\ WindowsHonest /\ [Next]_vars => ListSound' /\ WindowsHonest'
    BY WindowsNext DEF IInv, Structure
  <1> HIDE DEF ListSound
  <1> QED
    BY <1>1, <1>2, Invariant, PTL DEF Spec

\* With a single project type the alert says what its comment promises: three
\* different epochs.
THEOREM ThreeEpochs ==
  ASSUME NEW only, Projects = {only}
  PROVE  Spec => []AlertNamesThreeEpochs
  <1>1. WindowsHonest => AlertNamesThreeEpochs
    BY DEF WindowsHonest, Sound, FailedTwice, AlertNamesThreeEpochs
  <1> QED
    BY <1>1, Honest, PTL

\* While the row of a selected epoch holds, a task of it that fails is counted
\* in both counters and handed to Telegram in the very step it fails in: what
\* the documentation says of every failure holds as long as the file holds the
\* row.
CountedWhileRowHolds ==
  [][\A e \in Epochs, p \in Projects :
       /\ slotSelected[e] /\ tracker.epoch = e
       /\ task[<<e, p>>] # "failed" /\ task'[<<e, p>>] = "failed"
       => /\ totalMissed' > totalMissed
          /\ consecutiveMissed' > consecutiveMissed
          /\ TelegramConfigured => alerts'[<<e, p>>] = 1]_vars

\* Only the failure of a task makes it failed.
LEMMA OnlyFailFails ==
  ASSUME Structure, Next, NEW e \in Epochs, NEW p \in Projects,
         task[<<e, p>>] # "failed", task'[<<e, p>>] = "failed"
  PROVE  Active(e, p) /\ Fail(e, p)
  <1>0. Cases /\ task \in [Tasks -> TaskState] /\ <<e, p>> \in Tasks
    BY StepCases DEF Structure, TypeOK, Tasks
  <1>1. ASSUME NEW d \in Epochs, StartEpoch(d) \/ PreloadersDone(d) PROVE FALSE
    BY <1>0, <1>1 DEF StartEpoch, PreloadersDone, Distribute
  <1>2. ASSUME NEW d \in Epochs, NEW q \in Projects, NEW end, end # "failed",
               task' = [task EXCEPT ![<<d, q>>] = end]
        PROVE  FALSE
    BY <1>0, <1>2
  <1>3. ASSUME NEW d \in Epochs, NEW q \in Projects,
               ReportSelection(d, q) \/ ComputeReturnsData(d, q) \/ Succeed(d, q)
        PROVE  FALSE
    BY <1>2, <1>3 DEF ReportSelection, ComputeReturnsData, Succeed
  <1>4. ASSUME NEW d \in Epochs, NEW q \in Projects, Active(d, q), Fail(d, q)
        PROVE  d = e /\ q = p
    BY <1>0, <1>4 DEF Fail
  <1>5. ~UNCHANGED vars
    BY DEF vars
  <1> QED
    BY <1>0, <1>1, <1>3, <1>4, <1>5 DEF Cases

\* A failure with the row at hand is counted.
THEOREM CountedThen == Spec => CountedWhileRowHolds
  <1>1. IInv /\ [Next]_vars =>
          [\A e \in Epochs, p \in Projects :
             /\ slotSelected[e] /\ tracker.epoch = e
             /\ task[<<e, p>>] # "failed" /\ task'[<<e, p>>] = "failed"
             => /\ totalMissed' > totalMissed
                /\ consecutiveMissed' > consecutiveMissed
                /\ TelegramConfigured => alerts'[<<e, p>>] = 1]_vars
    <2> SUFFICES ASSUME IInv, Next, NEW e \in Epochs, NEW p \in Projects,
                        slotSelected[e], tracker.epoch = e,
                        task[<<e, p>>] # "failed", task'[<<e, p>>] = "failed"
                 PROVE  /\ totalMissed' > totalMissed
                        /\ consecutiveMissed' > consecutiveMissed
                        /\ TelegramConfigured => alerts'[<<e, p>>] = 1
      OBVIOUS
    <2>0. Structure /\ TypeOK /\ AlertedOnce /\ <<e, p>> \in Tasks
      BY DEF IInv, Structure, Tasks
    <2>1. Active(e, p) /\ Fail(e, p)
      BY <2>0, OnlyFailFails
    <2>2. SelectedRow(e)
      BY <2>0 DEF Structure, TrackerTruthful, SelectedRow
    <2>3. /\ totalMissed' = totalMissed + 1 + Cardinality(deferred[e])
          /\ consecutiveMissed' = consecutiveMissed + 1 + Cardinality(deferred[e])
          /\ Enqueue({<<e, p>>} \cup Rows(e))
      BY <2>1, <2>2 DEF Fail
    <2>4. totalMissed' > totalMissed /\ consecutiveMissed' > consecutiveMissed
      BY <2>0, <2>3, DeferredFinite DEF TypeOK
    <2>5. alerts[<<e, p>>] = 0
      BY <2>0, <2>1, UnsettledUnalerted DEF MissSettled, Active
    <2> QED
      BY <2>0, <2>3, <2>4, <2>5 DEF Enqueue
  <1> QED
    BY <1>1, Invariant, PTL DEF Spec, CountedWhileRowHolds

\* Every step takes an epoch or a task further and none back.
THEOREM Onward == Spec => OnwardOnly
  <1>1. IInv /\ [Next]_vars =>
          [/\ \A e \in Epochs : StageLeft(stage'[e]) <= StageLeft(stage[e])
           /\ \A k \in Tasks : /\ TaskLeft(task'[k]) <= TaskLeft(task[k])
                               /\ task[k] \in Ended => task'[k] = task[k]
           /\ \/ \E e \in Epochs : StageLeft(stage'[e]) < StageLeft(stage[e])
              \/ \E k \in Tasks : TaskLeft(task'[k]) < TaskLeft(task[k])]_vars
    <2> SUFFICES ASSUME IInv, Next
                 PROVE  /\ \A e \in Epochs : StageLeft(stage'[e]) <= StageLeft(stage[e])
                        /\ \A k \in Tasks : /\ TaskLeft(task'[k]) <= TaskLeft(task[k])
                                            /\ task[k] \in Ended => task'[k] = task[k]
                        /\ \/ \E e \in Epochs : StageLeft(stage'[e]) < StageLeft(stage[e])
                           \/ \E k \in Tasks : TaskLeft(task'[k]) < TaskLeft(task[k])
      OBVIOUS
    <2>0. Structure
      BY DEF IInv, Structure
    <2>1. ASSUME NEW e \in Epochs
          PROVE  /\ StageLeft(stage'[e]) <= StageLeft(stage[e])
                 /\ stage'[e] # stage[e] => StageLeft(stage'[e]) < StageLeft(stage[e])
      <3>1. StageMove(e) /\ stage[e] \in {"pending", "preloading", "distributed"}
        BY <2>0, Moves DEF Structure, TypeOK
      <3> QED
        BY <3>1 DEF StageMove, StageLeft
    <2>2. ASSUME NEW k \in Tasks
          PROVE  /\ TaskLeft(task'[k]) <= TaskLeft(task[k])
                 /\ task[k] \in Ended => task'[k] = task[k]
                 /\ task'[k] # task[k] => TaskLeft(task'[k]) < TaskLeft(task[k])
      <3>1. TaskMove(k) /\ task[k] \in TaskState
        BY <2>0, Moves DEF Structure, TypeOK
      <3> QED
        BY <3>1 DEF TaskMove, TaskLeft, TaskState, Ended
    <2>3. \/ \E e \in Epochs : stage'[e] # stage[e]
          \/ \E k \in Tasks : task'[k] # task[k]
      BY <2>0, Moves
    <2> QED
      BY <2>1, <2>2, <2>3
  <1> QED
    BY <1>1, Invariant, PTL DEF Spec, OnwardOnly

\* A miss counted by a step survives the counter reset of the same step.
THEOREM ResetFirst == Spec => MissesSurviveReset
  <1>1. TypeOK /\ [Next]_vars => [totalMissed' - totalMissed <= consecutiveMissed']_vars
    <2> SUFFICES ASSUME TypeOK, [Next]_vars
                 PROVE  vars' = vars \/ totalMissed' - totalMissed <= consecutiveMissed'
      OBVIOUS
    <2>0. Cases /\ TypeOK'
      BY StepCases, TypeNext
    <2>1. totalMissed \in Nat /\ consecutiveMissed \in Nat /\ consecutiveMissed' \in Nat
      BY <2>0 DEF TypeOK
    <2>2. ASSUME NEW e \in Epochs, NEW p \in Projects, Fail(e, p) \/ Succeed(e, p)
          PROVE  totalMissed' - totalMissed <= consecutiveMissed'
      <3>1. Cardinality(deferred[e]) \in Nat
        BY DeferredFinite
      <3>2. CASE Fail(e, p)
        BY <2>1, <3>1, <3>2 DEF Fail, counters
      <3>3. CASE Succeed(e, p)
        BY <2>1, <3>1, <3>3 DEF Succeed, counters
      <3> QED
        BY <2>2, <3>2, <3>3
    <2>3. ASSUME NEW e \in Epochs, StartEpoch(e) \/ PreloadersDone(e)
          PROVE  totalMissed' - totalMissed <= consecutiveMissed'
      <3>1. totalMissed' = totalMissed
        BY <2>3 DEF StartEpoch, PreloadersDone, Distribute, counters
      <3> QED
        BY <2>1, <3>1
    <2>4. ASSUME NEW e \in Epochs, NEW p \in Projects,
                 ReportSelection(e, p) \/ ComputeReturnsData(e, p)
          PROVE  totalMissed' - totalMissed <= consecutiveMissed'
      BY <2>1, <2>4 DEF ReportSelection, ComputeReturnsData, counters
    <2>5. CASE UNCHANGED vars
      BY <2>5
    <2> QED
      BY <2>0, <2>2, <2>3, <2>4, <2>5 DEF Cases
  <1> QED
    BY <1>1, TypeCorrect, PTL DEF Spec, MissesSurviveReset
=============================================================================
