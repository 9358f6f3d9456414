---------------------------- MODULE EpochPipeline ----------------------------
(***************************************************************************)
(* What happens to an epoch between the end of process_event's 20 second   *)
(* sleep and the last line of process_task: ProcessorDistributor runs the  *)
(* preloaders and schedules one task per project type, SnapshotAsyncWorker *)
(* computes, commits and keeps the accounts of missed and successful       *)
(* snapshots.  Epochs overlap, and all tasks of all epochs share           *)
(*   - the ONE-ROW file behind SlotSelectionTracker,                       *)
(*   - the per-epoch rows of deferred preloader failures,                  *)
(*   - the counters of SnapshotterStatus and the selection-failure list.   *)
(*                                                                         *)
(* Everything runs on one asyncio loop, so an action is the code between   *)
(* two awaits that really suspend.  handle_missed_snapshot, its enqueue    *)
(* and _try_reconcile_preloader_missed never suspend: the tail of          *)
(* process_task is one action.  What suspends is gather() over the         *)
(* preloaders, compute() before and after it reports the selection, and    *)
(* the commit of a snapshot (IPFS, RPC, gRPC and their retries).           *)
(***************************************************************************)
EXTENDS Integers, Sequences, FiniteSets

CONSTANTS
  Epochs,             \* ids of the epochs released in a run
  Projects,           \* project types of the configuration
  Preloaders,         \* preloader tasks of the configuration
  Requires,           \* preload_tasks of each project type
  Retention,          \* epochs a deferred row is kept for: 500 in the code
  KeepRecent,         \* length the failure list is trimmed to: 10 in the code
  TrackerWritesFail,  \* may the write of the tracker file fail (disk, rights)?
  TelegramConfigured  \* are telegram_url and telegram_chat_id both set?

ASSUME EpochsAssumption == Epochs \subseteq Nat /\ IsFiniteSet(Epochs)
ASSUME ProjectsAssumption == IsFiniteSet(Projects)
ASSUME RequiresAssumption == Requires \in [Projects -> SUBSET Preloaders]
ASSUME RetentionAssumption == Retention \in Nat
ASSUME KeepRecentAssumption == KeepRecent \in Nat /\ KeepRecent >= 3
ASSUME FlagsAssumption == TrackerWritesFail \in BOOLEAN /\ TelegramConfigured \in BOOLEAN

VARIABLES
  slotSelected,       \* external: is this slot selected for the epoch?
  stage,              \* of an epoch: "pending", "preloading", "distributed"
  task,               \* of an epoch and a project type: see TaskState
  tracker,            \* the row of slot_selection_status.txt, or NoRow
  deferred,           \* _pending_preloader_misses_by_epoch
  totalMissed,        \* status.totalMissedSubmissions
  consecutiveMissed,  \* status.consecutiveMissedSubmissions
  totalSuccessful,    \* status.totalSuccessfulSubmissions
  selFailures,        \* _consecutive_selection_failures
  alertSent,          \* _alert_sent
  alerts,             \* rows ever appended to _pending_missed_alerts, as a bag
  unhealthy           \* windows reported by UNHEALTHY_EPOCH_PROCESSING alerts

counters == <<totalMissed, consecutiveMissed, totalSuccessful,
              selFailures, alertSent, alerts, unhealthy>>
vars == <<slotSelected, stage, task, tracker, deferred, counters>>

Tasks == Epochs \X Projects

\* "skipped": a required preloader failed, so no task was created.
\* "running": created; compute has not reported the selection yet.
\* "reported": compute called report_selection and is awaiting something.
\* "committing": compute returned data, the commit loop is running.
TaskState == {"idle", "skipped", "running", "reported", "committing", "ok", "failed"}
Ended == {"skipped", "ok", "failed"}
AllEnded(e) == \A p \in Projects : task[<<e, p>>] \in Ended
AllSkipped(e) == \A p \in Projects : task[<<e, p>>] = "skipped"

\* get_last_selection() returns None; -1 is also _try_reconcile's "no epoch".
NoRow == [epoch |-> -1, wasSelected |-> FALSE]
Row(e) == [epoch |-> e, wasSelected |-> slotSelected[e]]

(***************************************************************************)
(* The file outlives the process, so a run may start with the row an       *)
(* earlier run left, of an epoch that may be processed again.              *)
(***************************************************************************)
Init ==
  /\ slotSelected \in [Epochs -> BOOLEAN]
  /\ stage = [e \in Epochs |-> "pending"]
  /\ task = [k \in Tasks |-> "idle"]
  /\ tracker \in {NoRow} \cup {Row(e) : e \in Epochs}
  /\ deferred = [e \in Epochs |-> {}]
  /\ totalMissed = 0
  /\ consecutiveMissed = 0
  /\ totalSuccessful = 0
  /\ selFailures = <<>>
  /\ alertSent = FALSE
  /\ alerts = [k \in Tasks |-> 0]
  /\ unhealthy = {}

-----------------------------------------------------------------------------
(***************************************************************************)
(* The worker's helpers, each run inside the step of its caller.           *)
(***************************************************************************)

SelectedRow_AnyEpoch(e) == tracker.wasSelected

\* The three-part test on get_last_selection(), used at each decision.
SelectedRow(e) == tracker.epoch = e /\ tracker.wasSelected

Rows(e) == {e} \X deferred[e]

Enqueue(rows) ==
  alerts' = [k \in Tasks |-> IF TelegramConfigured /\ k \in rows
                             THEN alerts[k] + 1 ELSE alerts[k]]

LastOf_Untrimmed(s, n) == s

LastOf(s, n) == IF Len(s) > n THEN SubSeq(s, Len(s) - n + 1, Len(s)) ELSE s

HandleSelectionFailure_NoLatch(e) ==
  LET failures == LastOf(Append(selFailures, e), KeepRecent)
  IN  /\ selFailures' = failures
      /\ unhealthy' = IF Len(failures) >= 3 /\ ~alertSent
                      THEN unhealthy \cup {LastOf(failures, 3)} ELSE unhealthy
      /\ alertSent' = (Len(failures) >= 3 /\ ~alertSent)

\* Scheduling the alert's POST is assumed not to raise; that the POST itself
\* fails shows nowhere.
HandleSelectionFailure(e) ==
  LET failures == LastOf(Append(selFailures, e), KeepRecent)
      raise == Len(failures) >= 3 /\ ~alertSent
  IN  /\ selFailures' = failures
      /\ unhealthy' = IF raise /\ TelegramConfigured
                      THEN unhealthy \cup {LastOf(failures, 3)} ELSE unhealthy
      /\ alertSent' = (alertSent \/ raise)

HandleSelectionSuccess_KeepsList ==
  /\ alertSent' = FALSE
  /\ UNCHANGED <<selFailures, unhealthy>>

HandleSelectionSuccess ==
  /\ selFailures' = <<>>
  /\ alertSent' = FALSE
  /\ UNCHANGED unhealthy

RowsKept_Unselected(e) == IF SelectedRow(e) THEN {} ELSE deferred[e]

\* Rows _try_reconcile_preloader_missed puts back: those of an epoch the
\* file no longer (or not yet) speaks of.
RowsKept(e) == IF tracker.epoch = e THEN {} ELSE deferred[e]

Reconcile_KeepsRows(e) == UNCHANGED deferred

Reconcile(e) == deferred' = [deferred EXCEPT ![e] = RowsKept(e)]

-----------------------------------------------------------------------------
(***************************************************************************)
(* ProcessorDistributor._epoch_release_processor, before and after the     *)
(* gather().  Timers of equal delay expire in the order they were set, so  *)
(* epochs start in the order they were released.  The day an epoch is      *)
(* stamped with is the event detector's concern and is left out here.      *)
(***************************************************************************)
PruneBefore(e) == IF e > Retention THEN e - Retention ELSE 0

StartEpoch(e) ==
  /\ stage[e] = "pending"
  /\ \A d \in Epochs : d > e => stage[d] = "pending"
  /\ stage' = [stage EXCEPT ![e] = "preloading"]
  /\ deferred' = [d \in Epochs |-> IF d < PruneBefore(e) THEN {} ELSE deferred[d]]
  /\ UNCHANGED <<slotSelected, task, tracker, counters>>

SkippedBy(failed) == {p \in Projects : Requires[p] \cap failed # {}}

Distribute(e, skipped) ==
  /\ stage' = [stage EXCEPT ![e] = "distributed"]
  /\ task' = [k \in Tasks |-> IF k[1] # e THEN task[k]
                              ELSE IF k[2] \in skipped THEN "skipped" ELSE "running"]
  /\ UNCHANGED <<slotSelected, tracker, totalMissed, consecutiveMissed,
                 totalSuccessful, selFailures, alertSent, unhealthy>>

PreloadersDone_NoFlush(e) ==
  /\ stage[e] = "preloading"
  /\ \E failed \in SUBSET Preloaders :
       /\ Distribute(e, SkippedBy(failed))
       /\ deferred' = [deferred EXCEPT ![e] = @ \cup SkippedBy(failed)]
  /\ UNCHANGED alerts

PreloadersDone_FlushKeepsRows(e) ==
  /\ stage[e] = "preloading"
  /\ \E failed \in SUBSET Preloaders :
       LET skipped == SkippedBy(failed)
       IN  /\ Distribute(e, skipped)
           /\ deferred' = [deferred EXCEPT ![e] = @ \cup skipped]
           /\ Enqueue({e} \X skipped)

\* Some project runs: the rows of the others wait for its selection report.
\* None runs: the rows go straight to the Telegram queue.
PreloadersDone(e) ==
  /\ stage[e] = "preloading"
  /\ \E failed \in SUBSET Preloaders :
       LET skipped == SkippedBy(failed)
       IN  /\ Distribute(e, skipped)
           /\ \/ /\ skipped # Projects
                 /\ deferred' = [deferred EXCEPT ![e] = @ \cup skipped]
                 /\ UNCHANGED alerts
              \/ /\ skipped = Projects
                 /\ deferred' = [deferred EXCEPT ![e] = {}]
                 /\ Enqueue({e} \X (deferred[e] \cup skipped))

-----------------------------------------------------------------------------
(***************************************************************************)
(* SnapshotAsyncWorker.process_task after _process returned or raised.     *)
(***************************************************************************)

\* The except branch: count the miss, then the rows it lets go.
Fail(e, p) ==
  /\ task' = [task EXCEPT ![<<e, p>>] = "failed"]
  /\ Reconcile(e)
  /\ \/ /\ SelectedRow(e)
        /\ totalMissed' = totalMissed + 1 + Cardinality(deferred[e])
        /\ consecutiveMissed' = consecutiveMissed + 1 + Cardinality(deferred[e])
        /\ Enqueue({<<e, p>>} \cup Rows(e))
        /\ HandleSelectionFailure(e)
        /\ UNCHANGED totalSuccessful
     \/ /\ ~SelectedRow(e)
        /\ UNCHANGED counters
  /\ UNCHANGED <<slotSelected, stage, tracker>>

Succeed_ReconcileFirst(e, p) ==
  /\ task' = [task EXCEPT ![<<e, p>>] = "ok"]
  /\ Reconcile(e)
  /\ \/ /\ SelectedRow(e)
        /\ totalMissed' = totalMissed + Cardinality(deferred[e])
        /\ consecutiveMissed' = 0
        /\ totalSuccessful' = totalSuccessful + 1
        /\ Enqueue(Rows(e))
        /\ HandleSelectionSuccess
     \/ /\ ~SelectedRow(e)
        /\ UNCHANGED counters
  /\ UNCHANGED <<slotSelected, stage, tracker>>

\* The else branch: reset first, so that the rows reconciled now survive it.
Succeed(e, p) ==
  /\ task' = [task EXCEPT ![<<e, p>>] = "ok"]
  /\ Reconcile(e)
  /\ \/ /\ SelectedRow(e)
        /\ totalMissed' = totalMissed + Cardinality(deferred[e])
        /\ consecutiveMissed' = Cardinality(deferred[e])
        /\ totalSuccessful' = totalSuccessful + 1
        /\ Enqueue(Rows(e))
        /\ HandleSelectionSuccess
     \/ /\ ~SelectedRow(e)
        /\ UNCHANGED counters
  /\ UNCHANGED <<slotSelected, stage, tracker>>

-----------------------------------------------------------------------------
(***************************************************************************)
(* compute() and the commit loop of _process.  compute belongs to another  *)
(* repository: it may fail or return at any time, reports once, and        *)
(* returns data only for a slot that is selected.                          *)
(***************************************************************************)
InCompute(e, p) == task[<<e, p>>] \in {"running", "reported"}

\* report_selection swallows a write error: the file then holds the old row
\* (open failed) or no readable row (open truncated it, the dump failed).
ReportSelection(e, p) ==
  /\ task[<<e, p>>] = "running"
  /\ task' = [task EXCEPT ![<<e, p>>] = "reported"]
  /\ tracker' \in {Row(e)} \cup (IF TrackerWritesFail THEN {NoRow, tracker} ELSE {})
  /\ UNCHANGED <<slotSelected, stage, deferred, counters>>

ComputeRaises(e, p) == InCompute(e, p) /\ Fail(e, p)

\* An empty result is a failure when the file says the slot was selected.
\* Otherwise [] is a success and None fails in the loop over the snapshots.
ComputeReturnsNothing(e, p) ==
  /\ InCompute(e, p)
  /\ \/ Fail(e, p)
     \/ ~SelectedRow(e) /\ Succeed(e, p)

ComputeReturnsData(e, p) ==
  /\ task[<<e, p>>] = "reported"
  /\ slotSelected[e]
  /\ task' = [task EXCEPT ![<<e, p>>] = "committing"]
  /\ UNCHANGED <<slotSelected, stage, tracker, deferred, counters>>

CommitFails(e, p) == task[<<e, p>>] = "committing" /\ Fail(e, p)

CommitsSucceed(e, p) == task[<<e, p>>] = "committing" /\ Succeed(e, p)

Step(e, p) ==
  \/ ReportSelection(e, p)
  \/ ComputeRaises(e, p)
  \/ ComputeReturnsNothing(e, p)
  \/ ComputeReturnsData(e, p)
  \/ CommitFails(e, p)
  \/ CommitsSucceed(e, p)

Next ==
  \/ \E e \in Epochs : StartEpoch(e)
  \/ \E e \in Epochs : PreloadersDone(e)
  \/ \E e \in Epochs, p \in Projects : Step(e, p)

Spec == Init /\ [][Next]_vars

(***************************************************************************)
(* The loop runs every task that is ready, and the retries of a commit are *)
(* bounded.  That preloaders, compute and each call below a commit return  *)
(* or raise is assumed of them.  Nothing obliges the chain to release an   *)
(* epoch.                                                                  *)
(***************************************************************************)
Fairness ==
  /\ \A e \in Epochs : WF_vars(PreloadersDone(e))
  /\ \A e \in Epochs, p \in Projects : WF_vars(Step(e, p))

FairSpec == Spec /\ Fairness

-----------------------------------------------------------------------------
(***************************************************************************)
(* Properties.                                                             *)
(***************************************************************************)

\* Every variable keeps its type; the failure list never outgrows KeepRecent
\* (the trim in _handle_selection_failure).
TypeOK ==
  /\ slotSelected \in [Epochs -> BOOLEAN]
  /\ stage \in [Epochs -> {"pending", "preloading", "distributed"}]
  /\ task \in [Tasks -> TaskState]
  /\ tracker \in [epoch : Epochs \cup {-1}, wasSelected : BOOLEAN]
  /\ deferred \in [Epochs -> SUBSET Projects]
  /\ totalMissed \in Nat
  /\ consecutiveMissed \in Nat
  /\ totalSuccessful \in Nat
  /\ selFailures \in Seq(Epochs)
  /\ Len(selFailures) <= KeepRecent
  /\ alertSent \in BOOLEAN
  /\ alerts \in [Tasks -> Nat]
  /\ unhealthy \subseteq Seq(Epochs)

\* A task whose miss may have been counted: it failed, or it was skipped and
\* its deferred row has been let go.
MissSettled(k) == \/ task[k] = "failed"
                  \/ task[k] = "skipped" /\ k[2] \notin deferred[k[1]]

JustifiedMisses == {k \in Tasks : slotSelected[k[1]] /\ MissSettled(k)}
JustifiedSuccesses == {k \in Tasks : slotSelected[k[1]] /\ task[k] = "ok"}

\* However the epochs interleave over the one-row file, the counters never
\* exceed what happened: a miss is counted at most once per task or deferred
\* row, a success at most once per task, and neither for an epoch the slot
\* was not selected for (the tests on get_last_selection in process_task and
\* in _try_reconcile_preloader_missed, and the caller's duty stated at
\* handle_missed_snapshot).
CountersJustified ==
  /\ totalMissed <= Cardinality(JustifiedMisses)
  /\ totalSuccessful <= Cardinality(JustifiedSuccesses)

\* One MISSED_SNAPSHOT row per task at most, and none while the row is still
\* deferred: the flush of an epoch no project ran for and the reconcile of
\* the others never both enqueue a row.
AlertedOnce ==
  \A k \in Tasks : /\ alerts[k] <= 1
                   /\ alerts[k] = 1 => MissSettled(k)

\* The rows handed to Telegram and the counter of the report speak of the same
\* misses, however rows are deferred, pruned and reconciled: a row is counted
\* unless the epoch was flushed because none of its projects ran, and only
\* such a flush reports an epoch the slot was not selected for.
RowsCounted ==
  /\ \A k \in Tasks : alerts[k] > 0 => slotSelected[k[1]] \/ AllSkipped(k[1])
  /\ TelegramConfigured =>
       totalMissed = Cardinality({k \in Tasks : alerts[k] > 0 /\ ~AllSkipped(k[1])})

\* Once no task of an epoch is left to reconcile it, its deferred rows are
\* gone if the file speaks of the epoch, or if no project ran at all: rows
\* stay behind only when another epoch overwrote the file (or it is empty).
SettledEpochDrained ==
  \A e \in Epochs :
    AllEnded(e) /\ (tracker.epoch = e \/ AllSkipped(e)) => deferred[e] = {}

\* The unhealthy alert is latched exactly while three or more failures are
\* on the list, whatever the order in which epochs fail and succeed: it is
\* neither repeated for the same run of failures nor forgotten.
AlertLatched == alertSent <=> Len(selFailures) >= 3

\* The list behind the unhealthy alert never runs ahead of the counter shown
\* in the report: both are reset by the same success.
FailuresAreMisses == Len(selFailures) <= consecutiveMissed

\* What the invariants above rest on: a row of the file tells the truth about
\* its epoch, rows are deferred for skipped tasks only, and no task exists
\* before its epoch is distributed.
TrackerTruthful ==
  \A e \in Epochs : tracker.epoch = e => tracker.wasSelected = slotSelected[e]

DeferredSkipped ==
  \A e \in Epochs : \A p \in deferred[e] : task[<<e, p>>] = "skipped"

IdleUntilDistributed ==
  \A e \in Epochs, p \in Projects :
    stage[e] # "distributed" => task[<<e, p>>] = "idle"

IInv ==
  /\ TypeOK
  /\ TrackerTruthful
  /\ DeferredSkipped
  /\ IdleUntilDistributed
  /\ CountersJustified
  /\ AlertedOnce
  /\ SettledEpochDrained
  /\ AlertLatched
  /\ FailuresAreMisses

\* What one step adds to the total is never wiped from the consecutive
\* counter by the same step (the comment at the else branch of process_task).
MissesSurviveReset ==
  [][totalMissed' - totalMissed <= consecutiveMissed']_vars

\* Deferred rows do not wait for ever with the answer at hand: they are let
\* go, or every task of their epoch ended and the file had moved on.
DeferredRowsResolved ==
  \A e \in Epochs :
    deferred[e] # {} ~> \/ deferred[e] = {}
                        \/ AllEnded(e) /\ tracker.epoch # e

Settled(k) == task[k] = "ok" \/ MissSettled(k)

\* The accounts implement the promise of EpochLedger: whatever epochs
\* interleave, rows are pruned or the file changes hands, a task is settled
\* once, its miss is counted and reported in the same step or never, and a
\* success clears the streak before the misses it lets go are added.
Ledger == INSTANCE EpochLedger WITH
  Reporting <- TelegramConfigured,
  due <- {k \in Tasks : slotSelected[k[1]]},
  open <- {k \in Tasks : ~Settled(k)},
  reported <- {k \in Tasks : alerts[k] > 0},
  missed <- totalMissed,
  succeeded <- totalSuccessful,
  streak <- consecutiveMissed
LedgerSpec == Ledger!Spec

(***************************************************************************)
(* What the documentation says and the code does not do.                   *)
(***************************************************************************)

\* SLOT_BASED_WORK_DISTRIBUTION.md: selected-but-failed cases consistently
\* increment the missed counter.
SelectedFailureCounted ==
  [][\A e \in Epochs, p \in Projects :
       /\ slotSelected[e]
       /\ task[<<e, p>>] \in {"reported", "committing"}
       /\ task'[<<e, p>>] = "failed"
       => totalMissed' > totalMissed]_vars

\* SLOT_BASED_WORK_DISTRIBUTION.md: when every project skips an epoch the
\* rows expire without alerting unselected workloads.
AlertsOnlySelected ==
  \A k \in Tasks : alerts[k] > 0 => slotSelected[k[1]]

\* "3 consecutive selected-but-failed epochs": the window an unhealthy alert
\* reports names three different epochs.
AlertNamesThreeEpochs ==
  \A w \in unhealthy : \A i, j \in DOMAIN w : i # j => w[i] # w[j]
=============================================================================
