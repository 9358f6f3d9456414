---------------------------- MODULE MissedBatch ----------------------------
(***************************************************************************)
(* The MISSED_SNAPSHOT alert queue of SnapshotAsyncWorker:                 *)
(* _enqueue_missed_snapshot_notification, _flush_missed_batch and          *)
(* _schedule_missed_batch_retry_flush.                                     *)
(*                                                                         *)
(* send_telegram_notification_async only creates a task for client.post    *)
(* and returns: nothing here ever suspends, _missed_batch_lock is never    *)
(* contended, and enqueue-and-flush is one step.  The POST ends later, in  *)
(* a done-callback that only logs.  Sending raises only if building or     *)
(* scheduling the message does.                                            *)
(*                                                                         *)
(* Time is kept as what is LEFT of the two timers, in ticks.               *)
(***************************************************************************)
EXTENDS Integers, Sequences

CONSTANTS
  Alerts,       \* contents of a row
  BatchSize,    \* max(1, missed_snapshot_batch_size)
  Cooldown,     \* notification_cooldown, in ticks
  MaxAlerts,    \* bound: rows enqueued in a run
  MaxRaises     \* bound: sends that raise in a run

ASSUME BatchSizeAssumption == BatchSize \in Nat /\ BatchSize >= 1
ASSUME CooldownAssumption == Cooldown \in Nat /\ Cooldown >= 1
ASSUME BoundsAssumption == MaxAlerts \in Nat /\ MaxRaises \in Nat

NoTask == -1

VARIABLES
  queue,        \* _pending_missed_alerts
  backoffLeft,  \* _missed_batch_send_not_before - now, 0 once in the past
  retryIn,      \* sleep left of _missed_batch_flush_task, NoTask if done
  handed,       \* rows passed to client.post so far, in order
  inFlight,     \* POSTs not answered yet
  httpFailures, \* POSTs that ended in an error
  raises        \* sends that raised so far

vars == <<queue, backoffLeft, retryIn, handed, inFlight, httpFailures, raises>>

Init ==
  /\ queue = <<>>
  /\ backoffLeft = 0
  /\ retryIn = NoTask
  /\ handed = <<>>
  /\ inFlight = 0
  /\ httpFailures = 0
  /\ raises = 0

-----------------------------------------------------------------------------
\* Backing off, or too few rows: they stay queued.
Hold(rows) ==
  /\ backoffLeft > 0 \/ Len(rows) < BatchSize
  /\ queue' = rows
  /\ UNCHANGED <<backoffLeft, handed, inFlight, httpFailures, raises>>

CanSend(rows) == backoffLeft = 0 /\ Len(rows) >= BatchSize

Sent_KeepsQueue(rows) ==
  /\ CanSend(rows)
  /\ queue' = rows
  /\ handed' = handed \o rows
  /\ inFlight' = inFlight + 1
  /\ backoffLeft' = 0
  /\ UNCHANGED <<httpFailures, raises>>

\* The whole queue goes out in one message.
Sent(rows) ==
  /\ CanSend(rows)
  /\ queue' = <<>>
  /\ handed' = handed \o rows
  /\ inFlight' = inFlight + 1
  /\ backoffLeft' = 0
  /\ UNCHANGED <<httpFailures, raises>>

Raised_DropsBatch(rows) ==
  /\ CanSend(rows)
  /\ raises < MaxRaises
  /\ raises' = raises + 1
  /\ queue' = <<>>
  /\ backoffLeft' = Cooldown
  /\ UNCHANGED <<handed, inFlight, httpFailures>>

\* The batch goes back in front (nothing was queued meanwhile).
Raised(rows) ==
  /\ CanSend(rows)
  /\ raises < MaxRaises
  /\ raises' = raises + 1
  /\ queue' = rows
  /\ backoffLeft' = Cooldown
  /\ UNCHANGED <<handed, inFlight, httpFailures>>

ScheduleRetry_Never == UNCHANGED retryIn

\* A retry task that is not done, the running one included, is left alone.
ScheduleRetry == retryIn' = IF retryIn = NoTask THEN Cooldown ELSE retryIn

Enqueue(a) ==
  /\ Len(handed) + Len(queue) < MaxAlerts
  /\ LET rows == Append(queue, a)
     IN  \/ (Hold(rows) \/ Sent(rows)) /\ UNCHANGED retryIn
         \/ Raised(rows) /\ ScheduleRetry

\* _retry wakes and flushes; its task is done afterwards, and a send that
\* raises here finds that very task still not done and schedules nothing.
RetryWakes ==
  /\ retryIn = 0
  /\ retryIn' = NoTask
  /\ Hold(queue) \/ Sent(queue) \/ Raised(queue)

\* misc_notification_callback_result_handler: the outcome is only logged.
PostAnswered ==
  /\ inFlight > 0
  /\ inFlight' = inFlight - 1
  /\ httpFailures' \in {httpFailures, httpFailures + 1}
  /\ UNCHANGED <<queue, backoffLeft, retryIn, handed, raises>>

\* External: the monotonic clock.
Tick ==
  /\ backoffLeft > 0 \/ retryIn > 0
  /\ backoffLeft' = IF backoffLeft > 0 THEN backoffLeft - 1 ELSE 0
  /\ retryIn' = IF retryIn > 0 THEN retryIn - 1 ELSE retryIn
  /\ UNCHANGED <<queue, handed, inFlight, httpFailures, raises>>

Next ==
  \/ \E a \in Alerts : Enqueue(a)
  \/ RetryWakes
  \/ PostAnswered
  \/ Tick

Spec == Init /\ [][Next]_vars

\* The clock advances and the loop runs a task whose sleep is over.  Nothing
\* obliges an epoch to be missed, so Enqueue has no fairness.
FairSpec == Spec /\ WF_vars(Tick) /\ WF_vars(RetryWakes)

-----------------------------------------------------------------------------
(***************************************************************************)
(* Properties.                                                             *)
(***************************************************************************)

\* Types, and the bounds of the two timers and of the rows in the system:
\* no send and no requeue duplicates a row.
TypeOK ==
  /\ queue \in Seq(Alerts)
  /\ backoffLeft \in 0..Cooldown
  /\ retryIn \in {NoTask} \cup 0..Cooldown
  /\ handed \in Seq(Alerts)
  /\ inFlight \in Nat
  /\ httpFailures \in Nat
  /\ raises \in Nat
  /\ Len(handed) + Len(queue) <= MaxAlerts

\* While the sender backs off, the batch that could not be sent is still
\* queued: requeueing and the back-off go together, and no interleaving of
\* enqueues and retries drains the queue before the back-off is over.
BackoffKeepsBatch == backoffLeft > 0 => Len(queue) >= BatchSize

\* A full batch whose send raised is handed over by the retry task, unless
\* another send raises: rows, retries and the two timers may come in any
\* order, and the retry never wakes into a back-off it will not outlive.
FullBatchRetried ==
  Len(queue) >= BatchSize /\ raises = 1 ~> Len(queue) < BatchSize \/ raises > 1

\* The queue implements the promise of AlertChannel: whatever is requeued or
\* retried, rows reach the client in order, at most once, in full batches.
Channel == INSTANCE AlertChannel WITH log <- handed \o queue, handed <- Len(handed)
ChannelSpec == Channel!Spec

(***************************************************************************)
(* What the comments say and the code does not do.                         *)
(***************************************************************************)

\* "Retry send after notification_cooldown seconds": a full batch is handed
\* over in the end, however often a send raised.
FullBatchHandedOver == Len(queue) >= BatchSize ~> Len(queue) < BatchSize
=============================================================================
