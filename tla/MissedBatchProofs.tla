-------------------------- MODULE MissedBatchProofs --------------------------
(***************************************************************************)
(* Theorems about MissedBatch for every set of rows, batch size, cooldown  *)
(* and bound, among them that it implements AlertChannel.                  *)
(***************************************************************************)
EXTENDS MissedBatch, TLAPS

IInv == TypeOK /\ BackoffKeepsBatch

\* The invariant holds initially.
LEMMA InvInit == Init => IInv
  BY CooldownAssumption, BoundsAssumption
  DEF Init, IInv, TypeOK, BackoffKeepsBatch, NoTask

\* A flush of at most MaxAlerts rows keeps the invariant.
LEMMA FlushInv ==
  ASSUME IInv, NEW rows \in Seq(Alerts), Len(rows) >= Len(queue),
         Len(handed) + Len(rows) <= MaxAlerts,
         retryIn' \in {NoTask} \cup 0..Cooldown,
         Hold(rows) \/ Sent(rows) \/ Raised(rows)
  PROVE  IInv'
  <1>0. TypeOK /\ BackoffKeepsBatch /\ Len(rows) \in Nat /\ Len(queue) \in Nat
    BY DEF IInv, TypeOK
  <1>1. CASE Hold(rows)
    BY <1>0, <1>1, BatchSizeAssumption DEF IInv, TypeOK, BackoffKeepsBatch, Hold
  <1>2. CASE Sent(rows)
    <2>1. handed' \in Seq(Alerts) /\ Len(handed') = Len(handed) + Len(rows)
      BY <1>0, <1>2 DEF Sent, TypeOK
    <2>2. queue' \in Seq(Alerts) /\ Len(queue') = 0
      BY <1>2 DEF Sent
    <2> QED
      BY <1>0, <1>2, <2>1, <2>2, CooldownAssumption
      DEF IInv, TypeOK, BackoffKeepsBatch, Sent
  <1>3. CASE Raised(rows)
    BY <1>0, <1>3, CooldownAssumption
    DEF IInv, TypeOK, BackoffKeepsBatch, Raised, CanSend
  <1> QED
    BY <1>1, <1>2, <1>3

\* Every step keeps the invariant.
LEMMA InvNext == IInv /\ [Next]_vars => IInv'
  <1> SUFFICES ASSUME IInv, [Next]_vars PROVE IInv'
    OBVIOUS
  <1>0. TypeOK /\ Len(queue) \in Nat /\ Len(handed) \in Nat
    BY DEF IInv, TypeOK
  <1>1. ASSUME NEW a \in Alerts, Enqueue(a) PROVE IInv'
    <2>0. Append(queue, a) \in Seq(Alerts) /\ Len(Append(queue, a)) = Len(queue) + 1
      BY <1>0 DEF TypeOK
    <2>1. PICK rows \in Seq(Alerts) : rows = Append(queue, a) /\ Len(rows) = Len(queue) + 1
      BY <2>0
    <2>2. Len(handed) + Len(rows) <= MaxAlerts /\ Len(rows) >= Len(queue)
      BY <1>0, <1>1, <2>1, BoundsAssumption DEF Enqueue
    <2>3. retryIn' \in {NoTask} \cup 0..Cooldown
      <3>1. retryIn' = retryIn \/ retryIn' = Cooldown
        BY <1>1 DEF Enqueue, ScheduleRetry
      <3>2. Cooldown \in 0..Cooldown
        BY CooldownAssumption
      <3>3. retryIn \in {NoTask} \cup 0..Cooldown
        BY <1>0 DEF TypeOK
      <3> QED
        BY <3>1, <3>2, <3>3
    <2>4. Hold(rows) \/ Sent(rows) \/ Raised(rows)
      BY <1>1, <2>1 DEF Enqueue
    <2> QED
      BY <2>2, <2>3, <2>4, FlushInv
  <1>2. CASE RetryWakes
    <2>1. retryIn' \in {NoTask} \cup 0..Cooldown
      BY <1>2 DEF RetryWakes
    <2>2. Hold(queue) \/ Sent(queue) \/ Raised(queue)
      BY <1>2 DEF RetryWakes
    <2>3. queue \in Seq(Alerts) /\ Len(handed) + Len(queue) <= MaxAlerts
      BY <1>0 DEF TypeOK
    <2> QED
      BY <1>0, <2>1, <2>2, <2>3, FlushInv
  <1>3. CASE PostAnswered
    BY <1>0, <1>3 DEF IInv, TypeOK, BackoffKeepsBatch, PostAnswered
  <1>4. CASE Tick
    BY <1>0, <1>4, CooldownAssumption DEF IInv, TypeOK, BackoffKeepsBatch, Tick, NoTask
  <1>5. CASE UNCHANGED vars
    BY <1>5 DEF IInv, TypeOK, BackoffKeepsBatch, vars
  <1> QED
    BY <1>1, <1>2, <1>3, <1>4, <1>5 DEF Next

\* Types, and the batch a failed send put back stays queued while backing off.
THEOREM Invariant == Spec => []IInv
  BY InvInit, InvNext, PTL DEF Spec

\* Every variable keeps its type and the bound on rows is respected.
THEOREM TypeCorrect == Spec => []TypeOK
  <1>1. IInv => TypeOK
    BY DEF IInv
  <1> QED
    BY <1>1, Invariant, PTL

\* While the sender backs off the unsent batch is still queued.
THEOREM Kept == Spec => []BackoffKeepsBatch
  <1>1. IInv => BackoffKeepsBatch
    BY DEF IInv
  <1> QED
    BY <1>1, Invariant, PTL

-----------------------------------------------------------------------------
\* Appending to the queue appends to the log, and an emptied queue leaves the
\* log in the handed rows.
LEMMA LogAppend ==
  ASSUME NEW s \in Seq(Alerts), NEW t \in Seq(Alerts), NEW a \in Alerts
  PROVE  /\ s \o Append(t, a) = Append(s \o t, a)
         /\ (s \o t) \o <<>> = s \o t
         /\ Len(s \o t) = Len(s) + Len(t)
         /\ s \o t \in Seq(Alerts)
         /\ Append(t, a) \in Seq(Alerts)
         /\ Len(Append(t, a)) = Len(t) + 1
  OBVIOUS

\* A flush of the queue, possibly with one row more, leaves the log as it is
\* or hands all of it over.
LEMMA FlushSteps ==
  ASSUME IInv, NEW rows \in Seq(Alerts), Hold(rows) \/ Sent(rows) \/ Raised(rows)
  PROVE  /\ handed' \o queue' = handed \o rows
         /\ \/ handed' = handed
            \/ /\ Len(handed') = Len(handed) + Len(rows)
               /\ Len(rows) >= BatchSize
  <1>0. handed \in Seq(Alerts)
    BY DEF IInv, TypeOK
  <1>1. CASE Hold(rows)
    BY <1>1 DEF Hold
  <1>2. CASE Sent(rows)
    <2>1. handed' = handed \o rows /\ queue' = <<>> /\ Len(rows) >= BatchSize
      BY <1>2 DEF Sent, CanSend
    <2> QED
      BY <1>0, <2>1
  <1>3. CASE Raised(rows)
    BY <1>3 DEF Raised
  <1> QED
    BY <1>1, <1>2, <1>3

\* Every step of the queue is a step of the channel, or none.
LEMMA ChannelStep ==
  IInv /\ [Next]_vars => [Channel!Next]_<<handed \o queue, Len(handed)>>
  <1> SUFFICES ASSUME IInv, [Next]_vars
               PROVE  \/ Channel!Next
                      \/ UNCHANGED <<handed \o queue, Len(handed)>>
    OBVIOUS
  <1>0. queue \in Seq(Alerts) /\ handed \in Seq(Alerts)
    BY DEF IInv, TypeOK
  <1>1. ASSUME NEW a \in Alerts, Enqueue(a) PROVE Channel!Next
    <2>1. /\ Append(queue, a) \in Seq(Alerts)
          /\ handed \o Append(queue, a) = Append(handed \o queue, a)
          /\ Len(Append(queue, a)) = Len(queue) + 1
          /\ Len(handed \o queue) = Len(handed) + Len(queue)
      BY <1>0, LogAppend
    <2>2. Hold(Append(queue, a)) \/ Sent(Append(queue, a)) \/ Raised(Append(queue, a))
      BY <1>1 DEF Enqueue
    <2>3. /\ handed' \o queue' = Append(handed \o queue, a)
          /\ \/ handed' = handed
             \/ /\ Len(handed') = Len(handed \o queue) + 1
                /\ Len(handed \o queue) + 1 - Len(handed) >= BatchSize
      <3>1. /\ handed' \o queue' = handed \o Append(queue, a)
            /\ \/ handed' = handed
               \/ /\ Len(handed') = Len(handed) + Len(Append(queue, a))
                  /\ Len(Append(queue, a)) >= BatchSize
        BY <2>1, <2>2, FlushSteps
      <3>2. Len(handed) \in Nat /\ Len(queue) \in Nat
        BY <1>0
      <3> QED
        BY <2>1, <3>1, <3>2, BatchSizeAssumption
    <2>4. Channel!Accept(a)
      BY <2>3 DEF Channel!Accept, Channel!HandOver
    <2> QED
      BY <2>4 DEF Channel!Next
  <1>2. CASE RetryWakes
    <2>1. Len(handed \o queue) = Len(handed) + Len(queue)
          /\ Len(handed) \in Nat /\ Len(queue) \in Nat
      BY <1>0
    <2>2. /\ handed' \o queue' = handed \o queue
          /\ \/ handed' = handed
             \/ /\ Len(handed') = Len(handed) + Len(queue)
                /\ Len(queue) >= BatchSize
      <3>1. Hold(queue) \/ Sent(queue) \/ Raised(queue)
        BY <1>2 DEF RetryWakes
      <3> QED
        BY <1>0, <3>1, FlushSteps
    <2>3. CASE handed' = handed
      BY <2>2, <2>3
    <2>4. CASE Len(handed') = Len(handed) + Len(queue) /\ Len(queue) >= BatchSize
      <3>1. Len(handed \o queue) - Len(handed) >= BatchSize
        BY <2>1, <2>4, BatchSizeAssumption
      <3>2. Channel!Retry
        BY <2>1, <2>2, <2>4, <3>1 DEF Channel!Retry, Channel!HandOver
      <3> QED
        BY <3>2 DEF Channel!Next
    <2> QED
      BY <2>2, <2>3, <2>4
  <1>3. CASE PostAnswered
    BY <1>3 DEF PostAnswered
  <1>4. CASE Tick
    BY <1>4 DEF Tick
  <1>5. CASE UNCHANGED vars
    BY <1>5 DEF vars
  <1> QED
    BY <1>1, <1>2, <1>3, <1>4, <1>5 DEF Next

\* Rows reach the client at most once, in order, in full batches: the queue
\* with its back-off and retries implements AlertChannel.
THEOREM Implements == Spec => ChannelSpec
  <1>1. Init => Channel!Init
    BY DEF Init, Channel!Init
  <1> QED
    BY <1>1, Invariant, ChannelStep, PTL DEF Spec, ChannelSpec, Channel!Spec

-----------------------------------------------------------------------------
(***************************************************************************)
(* The retry task and the back-off.  A send that raises starts both timers *)
(* with the same value; only a second raise, which finds the task still    *)
(* there, can part them.                                                   *)
(***************************************************************************)
Full == Len(queue) >= BatchSize

NothingWaits == raises = 0 => backoffLeft = 0 /\ retryIn = NoTask /\ ~Full

RetryDue == raises = 1 /\ Full => retryIn # NoTask /\ retryIn = backoffLeft

\* The retry that _schedule_missed_batch_retry_flush schedules after the first
\* failed send: before that send nothing waits, and as long as no other one
\* raises the batch that waits has a retry task, due in the moment the
\* back-off is over.
RetryScheduled == NothingWaits /\ RetryDue

\* A flush by the enqueueing of a row.
LEMMA FlushDue ==
  ASSUME IInv, RetryScheduled, NEW rows \in Seq(Alerts),
         \/ (Hold(rows) \/ Sent(rows)) /\ UNCHANGED retryIn
         \/ Raised(rows) /\ ScheduleRetry
  PROVE  RetryScheduled'
  <1>0. /\ raises \in Nat /\ backoffLeft \in 0..Cooldown
        /\ backoffLeft > 0 => Full
    BY DEF IInv, TypeOK, BackoffKeepsBatch, Full
  <1>1. CASE Hold(rows) /\ UNCHANGED retryIn
    <2>1. /\ backoffLeft > 0 \/ ~(Len(rows) >= BatchSize)
          /\ queue' = rows /\ backoffLeft' = backoffLeft /\ raises' = raises
          /\ retryIn' = retryIn
      BY <1>1, BatchSizeAssumption DEF Hold
    <2>2. Full' => Full
      BY <1>0, <2>1 DEF Full
    <2>3. raises = 0 => ~Full'
      BY <1>0, <2>1, <2>2 DEF RetryScheduled, NothingWaits
    <2> QED
      BY <2>1, <2>2, <2>3 DEF RetryScheduled, NothingWaits, RetryDue
  <1>2. CASE Sent(rows) /\ UNCHANGED retryIn
    <2>1. queue' = <<>> /\ backoffLeft' = 0 /\ raises' = raises /\ retryIn' = retryIn
      BY <1>2 DEF Sent
    <2>2. ~Full'
      BY <2>1, BatchSizeAssumption DEF Full
    <2> QED
      BY <2>1, <2>2 DEF RetryScheduled, NothingWaits, RetryDue
  <1>3. CASE Raised(rows) /\ ScheduleRetry
    <2>1. raises' = raises + 1 /\ backoffLeft' = Cooldown
      BY <1>3 DEF Raised
    <2>2. raises = 0 => retryIn' = Cooldown
      BY <1>3 DEF RetryScheduled, NothingWaits, ScheduleRetry
    <2> QED
      BY <1>0, <2>1, <2>2, CooldownAssumption
      DEF RetryScheduled, NothingWaits, RetryDue, NoTask
  <1> QED
    BY <1>1, <1>2, <1>3

\* The retry wakes when the back-off is over: it sends what is full.
LEMMA WakeSends ==
  ASSUME IInv, RetryScheduled, RetryWakes, raises <= 1
  PROVE  ~Full' \/ raises' > 1
  <1>0. /\ raises \in Nat /\ backoffLeft \in 0..Cooldown /\ retryIn = 0
        /\ backoffLeft > 0 => Full
    BY DEF IInv, TypeOK, BackoffKeepsBatch, Full, RetryWakes
  <1>1. raises = 1
    BY <1>0 DEF RetryScheduled, NothingWaits, NoTask
  <1>2. backoffLeft = 0
    BY <1>0, <1>1 DEF RetryScheduled, RetryDue
  <1>3. CASE Hold(queue)
    BY <1>2, <1>3, BatchSizeAssumption DEF Hold, Full, IInv, TypeOK
  <1>4. CASE Sent(queue)
    BY <1>4, BatchSizeAssumption DEF Sent, Full
  <1>5. CASE Raised(queue)
    BY <1>1, <1>5 DEF Raised
  <1> QED
    BY <1>3, <1>4, <1>5 DEF RetryWakes

\* Every step keeps the retry scheduled.
LEMMA ScheduledNext == IInv /\ RetryScheduled /\ [Next]_vars => RetryScheduled'
  <1> SUFFICES ASSUME IInv, RetryScheduled, [Next]_vars PROVE RetryScheduled'
    OBVIOUS
  <1>0. /\ raises \in Nat /\ backoffLeft \in 0..Cooldown /\ queue \in Seq(Alerts)
        /\ retryIn \in {NoTask} \cup 0..Cooldown
    BY DEF IInv, TypeOK
  <1>1. ASSUME NEW a \in Alerts, Enqueue(a) PROVE RetryScheduled'
    <2>1. Append(queue, a) \in Seq(Alerts)
      BY <1>0
    <2>2. \/ (Hold(Append(queue, a)) \/ Sent(Append(queue, a))) /\ UNCHANGED retryIn
          \/ Raised(Append(queue, a)) /\ ScheduleRetry
      BY <1>1 DEF Enqueue
    <2> QED
      BY <2>1, <2>2, FlushDue
  <1>2. CASE RetryWakes
    <2>1. raises' \in Nat /\ raises' >= raises
      BY <1>0, <1>2 DEF RetryWakes, Hold, Sent, Raised
    <2>2. raises # 0
      BY <1>2 DEF RetryScheduled, NothingWaits, RetryWakes, NoTask
    <2>3. raises' = 1 => ~Full'
      BY <1>0, <1>2, <2>1, <2>2, WakeSends
    <2> QED
      BY <1>0, <2>1, <2>2, <2>3 DEF RetryScheduled, NothingWaits, RetryDue
  <1>3. CASE PostAnswered
    BY <1>3 DEF RetryScheduled, NothingWaits, RetryDue, Full, PostAnswered
  <1>4. CASE Tick
    <2>1. raises' = raises /\ (Full' <=> Full)
      BY <1>4 DEF Tick, Full
    <2>2. retryIn # NoTask /\ retryIn = backoffLeft =>
            retryIn' # NoTask /\ retryIn' = backoffLeft'
      BY <1>0, <1>4, CooldownAssumption DEF Tick, NoTask
    <2>3. backoffLeft = 0 /\ retryIn = NoTask => backoffLeft' = 0 /\ retryIn' = NoTask
      BY <1>4 DEF Tick, NoTask
    <2> QED
      BY <2>1, <2>2, <2>3 DEF RetryScheduled, NothingWaits, RetryDue
  <1>5. CASE UNCHANGED vars
    BY <1>5 DEF RetryScheduled, NothingWaits, RetryDue, Full, vars
  <1> QED
    BY <1>1, <1>2, <1>3, <1>4, <1>5 DEF Next

\* After one failed send the batch that waits has a retry task, and the task
\* and the back-off run out together.
THEOREM Scheduled == Spec => []RetryScheduled
  <1>1. Init => RetryScheduled
    BY BatchSizeAssumption DEF Init, RetryScheduled, NothingWaits, RetryDue, Full
  <1> QED
    BY <1>1, ScheduledNext, Invariant, PTL DEF Spec

\* What fairness is granted for: every tick brings the retry of a full batch
\* nearer, and the retry itself hands the batch over, unless another send
\* raises.  No enqueueing in between undoes it.
RetryNearer ==
  [][raises <= 1 /\ Full =>
       \/ ~Full' \/ raises' > 1
       \/ /\ retryIn \in Nat /\ retryIn' \in Nat
          /\ retryIn' <= retryIn
          /\ ~RetryWakes
          /\ Tick => retryIn' < retryIn]_vars

\* The safety half of FullBatchRetried: a batch whose send raised is at most
\* Cooldown ticks and one wake of the retry away from its hand-over.
THEOREM Retried == Spec => RetryNearer
  <1>1. ASSUME IInv, RetryScheduled, [Next]_vars, raises <= 1, Full, Full', ~(raises' > 1)
        PROVE  /\ retryIn \in Nat /\ retryIn' \in Nat
               /\ retryIn' <= retryIn
               /\ ~RetryWakes
               /\ Tick => retryIn' < retryIn
    <2>0. /\ raises \in Nat /\ backoffLeft \in 0..Cooldown
          /\ retryIn \in {NoTask} \cup 0..Cooldown
      BY <1>1 DEF IInv, TypeOK
    <2>1. raises = 1 /\ retryIn \in 0..Cooldown /\ retryIn = backoffLeft
      BY <1>1, <2>0 DEF RetryScheduled, NothingWaits, RetryDue
    <2>2. ~RetryWakes
      BY <1>1, WakeSends
    <2>3. CASE Tick
      BY <2>0, <2>1, <2>2, <2>3, CooldownAssumption DEF Tick
    <2>4. CASE ~Tick
      <3>1. retryIn' = retryIn
        <4>1. ASSUME NEW a \in Alerts, Enqueue(a) PROVE retryIn' = retryIn
          BY <1>1, <2>1, <4>1 DEF Enqueue, Raised
        <4>2. CASE PostAnswered
          BY <4>2 DEF PostAnswered
        <4>3. CASE UNCHANGED vars
          BY <4>3 DEF vars
        <4> QED
          BY <1>1, <2>2, <2>4, <4>1, <4>2, <4>3 DEF Next
      <3> QED
        BY <2>1, <2>2, <2>4, <3>1, CooldownAssumption
    <2> QED
      BY <2>3, <2>4
  <1>2. IInv /\ RetryScheduled /\ [Next]_vars =>
          [raises <= 1 /\ Full =>
             \/ ~Full' \/ raises' > 1
             \/ /\ retryIn \in Nat /\ retryIn' \in Nat
                /\ retryIn' <= retryIn
                /\ ~RetryWakes
                /\ Tick => retryIn' < retryIn]_vars
    BY <1>1
  <1> QED
    BY <1>2, Scheduled, Invariant, PTL DEF Spec, RetryNearer
=============================================================================
