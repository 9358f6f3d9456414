# snapshotter-lite-v2: specification and proofs

TLA+ models of the Powerloom snapshotter lite node (the Python program under
`src/snapshotter`), model-checked with TLC, with proofs checked by TLAPS.

The node is one process. It polls the anchor chain for events, processes every
released epoch (preloaders, then one task per project type), submits the
snapshots to a local collector, keeps the accounts of what it missed, alerts
the operator, and ends itself when it seems stuck, to be restarted by docker
compose. Everything runs on one asyncio loop: the hard part is not parallelism
but what happens **between two awaits** and what several epochs do to the state
they share.

## 1. Inventory

| Component | State | Operations | What must be true of it |
|---|---|---|---|
| **Event detector** `system_event_detector.py` | `_last_processed_block`, the head read before the fetch | init, simulate, poll, fetch, filter, catch up, dispatch | each event handled once, none lost silently, all handled eventually |
| **Epoch activity check** (same file) | `failure_count`, `last_status_check_time`, `last_notification_time` | the check every two minutes; notices; exit | no process ended before its grace or without a notice, a stuck one ended |
| **Processor distributor** `processor_distributor.py` | `_current_day`, preloaders, project types | process_event (20 s sleep, stamp the day), release an epoch, run preloaders, skip projects, distribute, prune | the day an epoch carries is neither behind nor ahead without a cause; a skipped project's row has someone to settle it |
| **Snapshot worker, accounts** `utils/snapshot_worker.py` | `status` counters, `_consecutive_selection_failures`, `_alert_sent`, `_pending_preloader_misses_by_epoch` | process_task, selection failure/success, defer, flush, reconcile, prune | counters justified by what happened, a miss counted and alerted once, resets and increments in the right order |
| **Snapshot worker, alert queue** (same file) | `_pending_missed_alerts`, `_missed_batch_send_not_before`, the retry task | enqueue, flush, back off, requeue, retry | rows go out once, in order, in full batches; a batch that failed is retried |
| **Commit and submission** `utils/generic_worker.py` | none beyond a task; the gRPC channel | IPFS upload, signature, `send_message`, their retries | a snapshot is sent after the earlier ones are done with, and left behind only by a closed stream; deliveries bounded; every task ends |
| **Selection tracker** `utils/slot_selection_tracker.py` | `slot_selection_status.txt`, one row | report (write error swallowed), read | a row tells the truth about its epoch |
| **Telegram helpers** `utils/callback_helpers.py` | the POSTs in flight | schedule a POST, log its outcome; a synchronous POST | - |
| **Start of the container** `docker-compose.yaml`, `init_docker.sh`, `snapshotter_autofill.sh`, `snapshotter_id_ping.py`, the `init` methods, `settings/config.py` | the cloned config and computes, what the inits built | clone, write settings, ask the protocol state, initialise, simulate, delay an exit | a node that polls has what it needs and was checked in this start; failures heal |
| **Compute modules** (git submodule, not here) | - | `compute`, calls `report_selection` | external |
| **Local collector** (another container) | what it received | `SubmitSnapshot` | external |
| Operator scripts, message layout, models, ABI decoding, most RPC data helpers, logging, keygen | see `PROJECT.json` | | not modelled (section 9) |

How they interact: the detector *calls* `ProcessorDistributor.process_event` as
a task per event; the distributor *calls* the worker's defer/flush/prune and
*creates* a `process_task` per project; `process_task` calls compute, which
*writes* the tracker file; `process_task` and the detector's check *read* it;
the commit calls IPFS, RPC and the collector; misses go onto the alert queue,
whose sends end in a *callback*. The tracker file is the only state that
outlives the process and matters to its behaviour; config and computes are
cloned anew by every start of the container.

Hard behaviours, each listed with its line under `hazards` in `PROJECT.json`:

* one file row shared by all epochs: a decision is made on whichever epoch
  reported last;
* deferred preloader misses, which the last line of *another* project's task
  settles, unless no project runs, or the file moved on, or they are pruned;
* the head read before an await and used as the mark after it, with RPC nodes
  that lag and fetches that fail, and a catch-up that moves the mark first;
* a day counter read at start at one block, advanced by events from another
  block on, and used 20 s after the event it belongs to;
* retries over calls that may have succeeded (gRPC, the success file);
* back-off, requeue and a retry task that looks at itself;
* an asynchronous file read that races a synchronous write;
* one cooldown shared by the notices of two unrelated troubles;
* failures of the start that are logged and leave an attribute undefined;
* crashes and restarts between any two of these.

## 2. Modules

| Module | Models | Extends / instances |
|---|---|---|
| `EpochPipeline` | distributor after the sleep + worker accounts + tracker file | `EpochLedger` (refinement) |
| `EpochLedger` | what the accounts promise | |
| `MissedBatch` | alert queue, back-off, retry task, POST callbacks | `AlertChannel` (refinement) |
| `AlertChannel` | what the alert queue promises | |
| `SystemEventDetector` | start, polling, catch-up, dispatch, day counter, sleep, crash | |
| `SnapshotCommit` | commit loop of one task with all its retries | `Delivery` (refinement) |
| `Delivery` | what the commit loop promises | |
| `HealthMonitor` | the two-minute check, the file it reads, its notices, exit, restart | |
| `Node` | detector and pipeline in one process, over crashes and restarts | `SystemEventDetector`, `EpochPipeline` (composition) |
| `Startup` | container script, identity check, inits, simulation, exits, restarts | |
| `MC*` | constants for TLC | the module they name |
| `*Proofs` | theorems about the module they name | that module, `TLAPS` |

No module declares a RECURSIVE operator, so every module can be proved about.

Operators whose name has a suffix after an underscore (`Succeed_ReconcileFirst`)
are wrong variants of the operator without it. They are used by no
specification: `PROJECT.json` pairs each with the property that notices when it
takes the place of the right one.

### How state and actions correspond to the code

**EpochPipeline.** An action is the code between two awaits that really
suspend. `handle_missed_snapshot`, `_enqueue_missed_snapshot_notification` and
`_try_reconcile_preloader_missed` are coroutines that never suspend (the send
they reach only creates a task), so the tail of `process_task` is one action.

| TLA+ | Code |
|---|---|
| `tracker` | the row of `slot_selection_status.txt`; `NoRow` when `get_last_selection` returns None |
| `deferred` | `_pending_preloader_misses_by_epoch` (the set of projects per epoch) |
| `totalMissed`, `consecutiveMissed`, `totalSuccessful` | the fields of `status` |
| `selFailures`, `alertSent`, `unhealthy` | the failure list, its latch, the three epochs named in an UNHEALTHY alert |
| `alerts` | rows put on `_pending_missed_alerts` (what becomes of them is `MissedBatch`) |
| `StartEpoch`, `PreloadersDone` | `_epoch_release_processor` before and after `gather()` |
| `ReportSelection` | `report_selection`, called by compute |
| `ComputeRaises`, `ComputeReturnsNothing`, `ComputeReturnsData` | `_process` |
| `CommitFails`, `CommitsSucceed` with `Fail`, `Succeed` | the `except` and `else` branches of `process_task` |

**MissedBatch.** Enqueue-and-flush is one action for the same reason. Time is
what is left of the back-off (`backoffLeft`) and of the retry's sleep
(`retryIn`). A send *raises* only if building or scheduling the message does;
a failed POST is a later `PostAnswered`.

**SystemEventDetector.** A block carries at most one tracked event of a kind
in `AllKinds`. `Poll` is an iteration up to `await get_events`, `FetchSucceeds`
and `FetchFails` are the rest of it; `EpochWakes` is the end of the 20 s sleep,
where the day is stamped. `Heads` is what a lagging RPC node may answer.
`skipped` records the blocks the loop decides never to fetch: those before its
first poll and those `MaxGap` or more behind the head.

**SnapshotCommit.** `stage` is the await the task is in; `attempt` is the
tenacity attempt. An attempt of `SubmitSnapshot` that raises may have been
delivered or not, and may even have been answered: `send_message` writes
`last_successful_submission.txt` after the reply, under the same decorator, so that
a write that raises sends an answered snapshot again. `returned` therefore means
more than a reply: the reply came and its time was written. `swallowed` are the
snapshots whose last attempt ended in a closed stream, which
`_send_submission_to_collector` takes for sent: they may never have arrived.
`received` is the collector's side.

**HealthMonitor.** `CheckOpensFile` to `CheckFails`/`CheckFindsActivity` spans
the aiofiles read; a `Report` in between sets `rewritten`, and the check may
then find the old row, the new one, or nothing readable. `Notify` is
`_send_telegram_epoch_processing_notification`; `CheckFindsOldRow` and
`LoopReports` (an RPC failure in the loop) share its cooldown.

**Node.** The variables are those of the two components. Where the code calls
from one into the other the step is both: `ReleaseEpoch` is `EpochWakes` of the
detector and `StartEpoch` of the pipeline, because `process_event` awaits the
release right after the sleep; `SimulationStarts` and `SimulationReleased`
bracket what the init awaits of epoch 0. `Restart` keeps the chain and the
tracker file and rebuilds everything else. `born` records how long the chain was
when the process started.

**Startup.** `at` is the line of `init_docker.sh` or the phase of the detector,
`step` the await of the inits that comes next (`InitSteps`), `has` what earlier
ones built. `StepFails` leaves by `os._exit(1)`, `StepSwallowed` is an `except`
that only logs. `config` is what was cloned: complete, with a preload task that
has no preloader, with a class that the computes lack, or one that
`settings/config.py` refuses. Network, registry and config repository change at
will (`WeatherChanges`, `RegistryChanges`, `ConfigPublished`).

**EpochLedger** knows only tasks: a task is settled once, as a success, a miss
or a miss nobody counts, and is counted or reported in that step or never.
**Delivery** knows only how often each snapshot arrived, how many the task is
done with, and which are confirmed by a call that returned.

## 3. Runs

Passing runs (12 runs in all; `PROJECT.json` names the properties of each):

| Run | Shows | Bounds |
|---|---|---|
| `epochs` | counters, alerts, latch and deferred rows stay consistent, the rows handed to Telegram are the misses counted (`RowsCounted`), rows are let go unless the file moved on, and the accounts implement `EpochLedger` | 2 epochs, 2 project types, 2 preloaders |
| `missed_batch` | the queue implements `AlertChannel`; the batch is kept while backing off; the first batch that raised is retried | 5 rows of 2 kinds, batch 2, cooldown 2, 3 sends that raise |
| `detector` | once per process, nothing lost silently, the day neither behind nor ahead without a cause, everything handled | 5 blocks, catch-up 2, lag 1 |
| `commit` | a snapshot is left behind only by a closed stream, bounded deliveries, every task ends; the loop implements `Delivery` | 3 snapshots, 2 upload and 3 send attempts |
| `health` | grace kept, no exit without a notice, stuck node ended | the code's own thresholds, a tick being a minute |
| `node` | releases in order, none lost or doubled between the components, only the head repeated by a restart, every epoch of a living process ends | 3 blocks, catch-up 2, lag 1, 1 project with 1 preloader |
| `startup` | a polling node is complete and checked, and calm heals everything | the code's own steps: no constants |

Why the bounds are enough:

* *epochs*: interference needs two epochs over the one row. Epochs 1 and 3 with
  `Retention = 1` make the start of epoch 3 prune epoch 1, which the code does
  at a distance of 500. Of the projects one needs one preloader and the other
  two, so zero, one or both are skipped. Four tasks let the failure list (trimmed
  at `KeepRecent = 3`) reach the alert threshold and the trim. The tracker's
  write may fail and the file may start with the row of an earlier process.
* *missed_batch*: five rows give two full batches and a remainder; three raises
  give a first failure, a failing retry and a fresh failure.
* *detector*: with a lag of 1 a head may be below the mark; a catch-up of 2 is
  reached by waiting two blocks; crashes are unbounded. `DispatchedKinds` is enough
  for the invariants: an event of another kind that is filtered out or only
  logged touches nothing they read. Days of other data markets are in, because
  they advance the counter that `DayNotAhead` bounds.
* *commit*: three snapshots have a first, a middle and a last; every attempt may
  be lost, or delivered and still raise. With `IpfsConfigured`
  FALSE the upload stage is left out and nothing else changes; the theorems
  cover both.
* *health*: `StuckAfter = 10`, `CheckEvery = 2`, `MaxFailures = 3` are 600 s,
  120 s and 3 of the code. A check is due when more than 120 s are over, which in
  ticks of a minute makes a period of 3. `Cooldown = 9` is the longest that three
  failures outlast in these ticks, an effect of the coarse clock: in seconds a
  period is 121 and the limit 363 s (`Announced`, with a tick of a second).
  `configure-environment.sh` sets 300 s, which is inside both. With a longer one
  than the limit `ToldBeforeExit` fails: a notice before the last good check can
  hold all later ones back. In the same way `ExitAfterGrace` promises four periods:
  12 minutes in the run, 484 of the code's whole seconds.
* *node*: three blocks and the simulated epoch let two epochs sleep while a third
  runs, and a process be born at every length of the chain with a head that lags
  by one. One project and one preloader reach every branch of the pipeline, whose
  interleavings of projects are the business of `epochs`. The catch-up that skips
  a block needs a fourth block and is exercised by `detector`; the theorems about
  `Node` cover it. Epoch 1 is not selected, the others are.
* *startup*: the steps, the questions and the four sorts of config are those of
  the code; nothing is bounded.

`CHECK_DEADLOCK FALSE` appears where a run really ends: all epochs processed
(`epochs`), no more rows to come (`missed_batch`), the task done (`commit`). The
others check that something can always go on. No run uses symmetry.

## 4. Where the code departs from its documentation

Each is a run that TLC refutes, quoted under `findings` in `PROJECT.json`:

| Run | The documentation | The code |
|---|---|---|
| `selected_failure_counted` | all selected-but-failed cases increment the counters | not when another epoch's report overwrote the row |
| `alerts_only_selected` | rows of skipped workloads expire "without alerting unselected workloads" | an epoch all projects skip is alerted without a look at the selection |
| `alert_three_epochs` | "3 consecutive selected-but-failed epochs" | three failures, of fewer epochs when an epoch has several projects |
| `retry_once` | "Retry send after notification_cooldown seconds" | a retry that raises finds itself not done and schedules no other |
| `detector_foreign_day` | events are filtered by data market | every `DayStartedEvent` advances the day |

Three more have no run of their own; the models show them at a glance:

* Comments at `snapshot_worker.py:68` and `:563` speak of a back-off after HTTP
  failure, while `PostAnswered` of `MissedBatch` only logs: an HTTP failure drops
  the batch.
* `SLOT_BASED_WORK_DISTRIBUTION.md:159` calls a node stuck after ten minutes without
  activity, while `CheckFindsNoFile` of `HealthMonitor` only warns.
* `src/README.md:137` says a completed daily task makes the node inactive for the
  rest of the day; `process_event` only logs it (`processor_distributor.py:346`),
  which `Events`/`FetchSucceeds` show by having no effect for a `"task"` event.

## 5. Fairness

* `EpochPipeline`: a preloading epoch and a task that exists go on. The loop is
  cooperative and runs what is ready; the code bounds the retries of a commit.
  *Assumed* of others: preloaders, compute and the calls below a commit return
  or raise. Nothing obliges the chain to release an epoch (no fairness on
  `StartEpoch`).
* `MissedBatch`: the clock and a retry whose sleep is over. No fairness on
  `Enqueue`: nothing obliges an epoch to be missed, which is why a retry is
  needed at all.
* `SystemEventDetector`: weak fairness on what the loop itself does, strong
  fairness on an RPC that answers again and again though it may fail or lag
  between any two answers. None on mining or crashes.
* `SnapshotCommit`: weak fairness of `Next`, with the assumption that each call
  ends (`SubmitSnapshot` sets no timeout).
* `HealthMonitor`: the clock and the check; the other awaits of the loop are
  sleeps and RPC calls with timeouts. None on `Report` or `Restart`.
* `Node`: weak fairness of `Local`, what the event loop runs without asking
  anyone, as a whole: it is enough because every such step uses up one of
  finitely many. Strong fairness on a poll that sees the true head and on a fetch
  that succeeds, as for the detector. None on crashes, mining or boot.
* `Startup`: weak fairness of `Lifecycle`, what script, inits and docker do.
  `Recovers` assumes that the world turns calm for good; that calm comes is
  not assumed.

## 6. What is proved

For every value of the constants that satisfies the named assumptions:

| Module | Theorems |
|---|---|
| `EpochPipelineProofs` | `TypeCorrect`, `Invariant`, `Justified`, `Alerted`, `Drained`, `Latched`, `Listed`, `ResetFirst`, `Counted`, `SelectedOnly`, `Honest`, `ThreeEpochs`, `CountedThen`, `Onward` |
| `EpochLedgerProofs` | `ImplementsLedger`, `Balance`, `Streak` |
| `MissedBatchProofs` | `TypeCorrect`, `Kept`, `Implements`, `Scheduled`, `Retried` |
| `SystemEventDetectorProofs` | `TypeCorrect`, `Once`, `Complete`, `DayCurrent`, `DayBounded`, `Onward`, `InOrder`, `FarBehind`, `Accounted` |
| `SnapshotCommitProofs` | `TypeCorrect`, `LeftBehindOnlySwallowed`, `Bounded`, `Delivers`, `Shrinks` |
| `HealthMonitorProofs` | `TypeCorrect`, `GraceKept`, `Announced`, `StaleCounted` |
| `NodeProofs` | `Invariant`, `TypeCorrect`, `Ordered`, `NoneLost`, `HeadRepeated`, `RunsDetector`, `RunsPipeline`, `Released`, `Ascending`, `Accounts` |
| `StartupProofs` | `TypeCorrect`, `Ready`, `Afresh`, `Nearer` |

All safety properties of the passing runs are proved. Assumptions are on the
constants only: finite sets of epochs and projects, positive thresholds,
`KeepRecent >= 3` (10 in the code), the catch-up limit and attempts at least 1,
for `Announced` a notification cooldown of at most `MaxFailures` check periods,
for `SelectedOnly` a project type that needs no preloader and for `ThreeEpochs` a
single project type.

Beyond the properties of the runs the theorems say, in each case with its own
invariant, **what is exact** (`Counted`, `Accounted`, `Released`), **when the
documentation is right after all** (`SelectedOnly`, `ThreeEpochs`,
`CountedThen` for the first three rows of the table in section 4), **what the
components keep in composition** (`RunsDetector`, `RunsPipeline`, `Accounts`), and
**the safety half of the liveness properties**: a measure that the steps can only
shrink (section 7).

The arguments:

* **EpochPipeline.** `CountersJustified` is not inductive. A counter is raised
  when the file's row says so, so one needs that a row tells the truth about
  its epoch (`TrackerTruthful`), that rows are deferred for skipped tasks only
  (`DeferredSkipped`), so that a reconciled row and a failed task are never the
  same miss, and that no task exists before distribution
  (`IdleUntilDistributed`), so that distribution overwrites no account. Each step
  then adds to the justifying set at least what it adds to the counter, which
  is a fact about cardinalities of finite sets.
  `Counted` says the same with equality for the rows handed to Telegram: a flush
  of an epoch no project ran for is the only step that hands over rows without
  counting them, and such an epoch is never counted later (`AllSkippedStays`).
  `Honest` follows the failure list through its trim (`LastOfShifts`) and keeps it
  `Sound`: each entry is a selected epoch with a failed task, twice only if two
  tasks of it failed.
* **MissedBatch.** `TypeOK` and `BackoffKeepsBatch` are inductive together. For
  the refinement `log` is `handed \o queue` and the abstract `handed` is the
  length of the rows handed over: a send moves the boundary, a requeue moves
  nothing, and the tick, the callback and a raise inside a retry are stutters.
  `Scheduled`: the first send that raises starts the back-off and the retry task with
  the same value, and they tick together, so the retry wakes into no back-off; only
  a second raise, in the retry itself, parts them (the finding `retry_once`).
* **SystemEventDetector.** Above the mark nothing was dispatched, below it each
  block at most once: the mark and the dispatch move in one step, and the catch-up
  adds to `skipped` exactly the blocks it moves over. `DayNotBehind` follows from
  `DayCovers`: what dayCounter had counted and what was dispatched later
  together bound the days the process knows of. `Accounted` makes both exact: `Seen`
  is what the mark passed without skipping, and a batch adds its own blocks to it,
  none of which was there (`FetchSees`). `DayBounded` splits the days fetched into
  new ones, those dayCounter had included and those of other markets; the second
  sort lies within the lag of the block dayCounter was read at (`FetchedLate`),
  because the first mark does.
* **SnapshotCommit.** `Progress`: everything before the current snapshot arrived
  or was swallowed (`Passed`), nothing after it was sent, and the current one was
  received fewer times than its attempt. `LeftBehindOnlySwallowed` is a statement about the
  collector, not about what the node believes: a call that returned has arrived, a
  call that failed ends the task, so a missing snapshot was swallowed. That those
  arrived is not claimed, and not true. `Shrinks` counts down what is left of the attempts of the
  stage, of the stages of the snapshot and of the snapshots.
* **HealthMonitor.** `FailuresTakeTime`: each failure on the count took a full
  period since the process started or was last found active. Multiplication by
  the period is the only arithmetic, in the lemma `Periods`. `Announced` needs
  `OldNotice`: as long as nobody was told, a notice that holds others back is as
  old as the last good check, so at the last failure its cooldown is over.
  `StaleCounted` needs `ReadingFresh`: a check that read the row while it was rewritten
  is fooled into seeing activity only if there was some.
* **EpochLedger.** A task's place in the ledger is a function of the state of the
  task and of its deferred row. The steps of the pipeline that touch neither are
  stutters; those that do are one ledger step each, a reconciliation being one
  for all the rows it lets go. It rests on the pipeline's invariant. `Balance` puts
  the two halves of `CountersJustified` and the tasks still open side by side:
  three disjoint sets of tasks of selected epochs.
* **Delivery.** `done` is `current` less one, or all snapshots when the task is done.
  Only attempts that arrive, calls that return and the end of the task are steps of it;
  uploads, signatures and attempts that are lost are stutters, and a closed stream that
  is taken for sent is a `Finish` without a confirmation.
* **Node.** Each step is a step of a component, of both, or a restart. The
  component's own lemma (`InvNext`, taken from its proof module by INSTANCE)
  carries its invariant over; what remains is the hand-over. `ReleasedInOrder`
  needs that sleeps end in order and that what is fetched lies above the mark;
  `HeadOnlyRepeated` needs `MarkedAtHead`, that a mark never lies below the head
  the process first saw. The file that survives breaks the pipeline's assumption
  about its initial state in one respect only, which `FileTruthful` restores.
  `RunsDetector` and `RunsPipeline` put this as refinements: what the detector sees
  of the node is a run of it, restarts included, and the pipeline sees one run per
  life. Theorems of the components then come over: `Released` combines
  `Accounted` with the hand-over, `Accounts` carries `Counted` and `Honest` over
  restarts. What `CountersJustified` says of one process it says of every life, since
  the initial states of `EpochPipeline` include the row of an earlier process.
* **Startup.** `StepsDone` says that a step before the current one is built,
  swallowed or a preloader passed over; `Asked` ties the script's position to what
  the world answered since the container started. `Nearer` needs two kinds of
  starts: a `Clean` one has missed nothing so far, any other is one restart
  (`delay`, `down`) farther away.

## 7. What is only model-checked

Liveness under fairness, and ENABLED, are beyond the proof system used. What makes
each liveness property true is proved, though, as an action property: a number
that the steps cannot raise and that the steps fairness is assumed of make smaller.
What is left to TLC is that such a step is always enabled, that is, taken in the end.

| Liveness (TLC) | Safety core (proved) |
|---|---|
| `DeferredRowsResolved` | `Onward` (`EpochPipelineProofs`): epochs and tasks only move on; `Drained`: once the tasks ended, the rows are gone if the file speaks of the epoch |
| `FullBatchRetried` | `Scheduled`, `Retried`: the retry exists, no step puts it off, a tick brings it nearer, its wake hands the batch over |
| `EventHandled` | `Onward` (`SystemEventDetectorProofs`): the mark never moves back; `Accounted`: what it passes was handled or skipped |
| `TaskEnds` | `Shrinks`: every step makes the remaining work smaller |
| `StuckNodeExits` | `StaleCounted`: no step takes a failure off while the row stays old, each check adds one |
| `EpochProcessed` | `RunsDetector`, `RunsPipeline`, `Released`: the measures of both components apply to the node |
| `Recovers` | `Nearer`: every step of the lifecycle makes the distance to the first poll smaller |

The refuted properties of section 4 are statements about small counterexamples and
need no proof. No definition is recursive, so nothing is left out for want of
induction.

## 8. Abstractions and assumptions

* Data are abstracted to what the properties tell apart: an epoch is its id, a
  snapshot its position, a Telegram row one of two values, a block its event.
* compute is external: it reports a selection at most once per task, returns
  data only when selected, and may fail or return nothing at any point.
* The logs of the blocks asked for are complete in a fetch that succeeds, and
  the chain is not reorganised.
* Timers of equal delay expire in the order they were set (asyncio keeps a heap
  by time), so epochs start in the order they were released.
* `only_simulate_submissions` is False, its default. The simulated epoch is
  released in `Node`, its tasks included, and is a step of the start elsewhere.
* In `Node` an epoch has the number of the block that releases it: the code only
  compares epoch ids, and the chain releases them in order. The day an epoch
  is stamped with stays in `SystemEventDetector`.
* In `Startup` the operator's environment variables are there or the script ends
  like any failed step; building an HTTP or gRPC client cannot fail; a failed clone
  ends the start, so what it left behind is never used. The length of a delay makes
  no difference. `step` and `has` do not say what the values are.
* Telegram is configured in `HealthMonitor`; without it nobody is told anything.
  A POST that fails counts as a notice, as the code counts it.
* The tracker file lies in the container's own file system: it survives a restart
  of the same container (`restart: always`) and is gone in a recreated one. The
  initial states cover both.
* Scheduling the UNHEALTHY alert does not raise. The code guards the send of the
  missed-snapshot batch (`MissedBatch` lets it raise) but not this one: an
  exception there would leave `process_task` before it reconciles. It builds a
  message from an id and schedules a POST, so nothing in it is expected to fail.
* The Telegram client exists once the worker is initialised; the early return of
  `_flush_missed_batch` without one is not reached.
* An aiofiles read ends within a minute tick.
* Each module counts what it needs unboundedly (`Nat`); bounds (`MaxBlock`,
  `MaxAlerts`, `MaxRaises`) are constants in guards, and `Older` stops an age at
  the point nothing depends on it.

## 9. What is not modelled, and why

The operator's scripts run before the node lives and share only environment files
with it; the other containers (collector, image build) are elsewhere. The ABI
decoder and the data helpers that compute modules use have no state that outlives
a call. Message layout, logging, pydantic types and generated gRPC code carry no
behaviour. The contents of the EIP-712 signature (the deadline is fixed before the
retries) matter only to the collector and the contract, which are elsewhere.

Four things the code does not guarantee are in the models, but no property speaks
against them, because nothing in the repository promises otherwise; `hazards` notes
each at its line:

* rows below the batch size have no deadline, and are lost when the process ends;
* a snapshot swallowed as a closed stream may never have arrived, and its task counts
  as a success all the same;
* a snapshot the collector answered is sent again when the success file cannot be
  written, and after three such attempts its task fails;
* a `SubmitSnapshot` that never returns keeps its task open: `TaskEnds` assumes that it
  does return.

## 10. Plan

Order of the work, the most important behaviour first:

1. *done* `EpochPipeline`, `MissedBatch`/`AlertChannel`, `SystemEventDetector`,
   `SnapshotCommit`, `HealthMonitor`, with their invariants proved.
2. *done* `Node`: the detector's dispatch and sleep with the pipeline and the
   tracker, over crashes.
3. *done* The abstract specifications `EpochLedger` and `Delivery`, and the
   refinements proved.
4. *done* `Startup`: bootstrap, identity check, inits, exit and restart; the notices
   and their cooldown in `HealthMonitor`.
5. *done* The safety properties of 2 to 4 proved.
6. *done* Exact accounts (`Counted`, `Accounted`, `Released`), the conditions under which
   the documentation holds, the components' theorems within `Node`, and the safety
   cores of the liveness properties.

What is left is of less weight: two tasks committing over one channel (they are
independent in the code), the health check inside `Node` (it reads one timestamp
that the pipeline writes, and ends the process, which `Restart` does at will),
reorganisations of the chain (the code does not look for them), and a larger
instance of `Node` in which the catch-up skips a block.
