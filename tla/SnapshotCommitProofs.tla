------------------------ MODULE SnapshotCommitProofs ------------------------
(***************************************************************************)
(* Theorems about SnapshotCommit for every number of snapshots and of      *)
(* attempts.                                                               *)
(***************************************************************************)
EXTENDS SnapshotCommit, TLAPS

\* The invariant holds initially.
LEMMA InvInit == Init => IInv
  BY SnapshotsAssumption, AttemptsAssumption
  DEF Init, IInv, TypeOK, DeliveriesBounded, Progress, Positions

\* The steps before the call send nothing and keep the current snapshot.
LEMMA PrepareInv ==
  ASSUME IInv,
         \/ NextSnapshot
         \/ NameRejected
         \/ Uploaded
         \/ UploadRetries
         \/ UploadFails
         \/ Signed
         \/ SignFails
  PROVE  IInv'
  <1>0. TypeOK /\ Progress
    BY DEF IInv
  <1>1. /\ UNCHANGED <<current, received, returned, swallowed>>
        /\ stage \in {"next", "upload", "sign"}
        /\ stage' \in {"upload", "sign", "send", "failed"}
        /\ attempt' = 1 \/ attempt' = attempt + 1
        /\ stage' = "send" => attempt' = 1
    BY DEF NextSnapshot, NameRejected, Uploaded, UploadRetries, UploadFails, Signed,
           SignFails, Fail, GoTo
  <1>2. received[current] = 0
    BY <1>0, <1>1 DEF Progress
  <1>3. TypeOK'
    BY <1>0, <1>1 DEF TypeOK
  <1>4. DeliveriesBounded'
    BY <1>1 DEF IInv, DeliveriesBounded
  <1>5. Progress'
    BY <1>0, <1>1, <1>2, AttemptsAssumption DEF Progress, Passed
  <1> QED
    BY <1>3, <1>4, <1>5 DEF IInv

\* A call under way adds at most one delivery of the current snapshot.
LEMMA DeliverBound ==
  ASSUME IInv, stage = "send", AttemptRaises \/ Deliver
  PROVE  /\ received' \in [Positions -> Nat]
         /\ \A j \in Positions : j # current => received'[j] = received[j]
         /\ received'[current] <= attempt
         /\ attempt <= SendAttempts
         /\ \A j \in Positions : received'[j] <= SendAttempts
         /\ \A j \in Positions : received'[j] > 0 => j <= current
  <1>0. TypeOK /\ Progress /\ DeliveriesBounded
    BY DEF IInv
  <1>1. /\ received \in [Positions -> Nat] /\ current \in Positions
        /\ attempt \in Nat /\ SendAttempts \in Nat /\ Positions \subseteq Nat
    BY <1>0, SnapshotsAssumption, AttemptsAssumption DEF TypeOK, Positions
  <1>2. received[current] < attempt /\ attempt <= SendAttempts
    BY <1>0 DEF Progress
  <1>3. received' = [received EXCEPT ![current] = @ + 1] \/ received' = received
    BY DEF AttemptRaises, Deliver
  <1>4. /\ received' \in [Positions -> Nat]
        /\ \A j \in Positions : j # current => received'[j] = received[j]
        /\ received'[current] <= attempt
    BY <1>1, <1>2, <1>3
  <1>5. \A j \in Positions : received'[j] <= SendAttempts
    BY <1>0, <1>1, <1>2, <1>4 DEF DeliveriesBounded
  <1>6. \A j \in Positions : received'[j] > 0 => j <= current
    BY <1>0, <1>1, <1>4 DEF Progress
  <1> QED
    BY <1>2, <1>4, <1>5, <1>6

\* A call that returned or was swallowed moves to the next snapshot, or ends
\* the task.
LEMMA AdvanceInv ==
  ASSUME IInv, SendReturns \/ SendSwallowed
  PROVE  IInv'
  <1>0. TypeOK /\ Progress
    BY DEF IInv
  <1>1. stage = "send" /\ (AttemptRaises \/ Deliver) /\ Advance
    BY DEF SendReturns, SendSwallowed
  <1>2. /\ received' \in [Positions -> Nat]
        /\ \A j \in Positions : j # current => received'[j] = received[j]
        /\ \A j \in Positions : received'[j] <= SendAttempts
        /\ \A j \in Positions : received'[j] > 0 => j <= current
    BY <1>1, DeliverBound
  <1>3. /\ returned' \subseteq returned \cup {current}
        /\ returned \subseteq Positions /\ swallowed \subseteq Positions
        /\ swallowed \subseteq swallowed'
        /\ swallowed' \subseteq swallowed \cup {current}
    BY <1>0 DEF SendReturns, SendSwallowed, TypeOK
  <1>4. current \in Positions /\ current \in Nat /\ Snapshots \in Nat
    BY <1>0, SnapshotsAssumption DEF TypeOK, Positions
  <1>5. received'[current] > 0 \/ current \in swallowed'
    <2>1. CASE SendReturns
      <3>1. received'[current] = received[current] + 1 /\ received[current] \in Nat
        BY <1>0, <1>4, <2>1 DEF SendReturns, Deliver, TypeOK
      <3> QED
        BY <3>1
    <2>2. CASE SendSwallowed
      BY <2>2 DEF SendSwallowed
    <2> QED
      BY <2>1, <2>2
  <1>6. \A i \in 1..current : received'[i] > 0 \/ i \in swallowed'
    <2> SUFFICES ASSUME NEW i \in 1..current
                 PROVE  received'[i] > 0 \/ i \in swallowed'
      OBVIOUS
    <2>1. CASE i = current
      BY <1>5, <2>1
    <2>2. CASE i # current
      <3>1. i \in 1..current - 1 /\ i \in Positions
        BY <1>4, <2>2 DEF Positions
      <3>2. received[i] > 0 \/ i \in swallowed
        BY <1>0, <3>1 DEF Progress, Passed
      <3> QED
        BY <1>2, <1>3, <2>2, <3>1, <3>2
    <2> QED
      BY <2>1, <2>2
  <1>7. CASE current < Snapshots
    <2>1. current' = current + 1 /\ stage' = "next" /\ attempt' = 1
      BY <1>1, <1>7 DEF Advance, GoTo
    <2>2. TypeOK'
      BY <1>2, <1>3, <1>4, <1>7, <2>1 DEF TypeOK, Positions
    <2>3. current' \in Positions
      BY <1>4, <1>7, <2>1 DEF Positions
    <2>4. received'[current'] = 0
      BY <1>2, <1>4, <2>1, <2>3
    <2>5. Progress'
      <3>1. \A i \in 1..current' - 1 : Passed(i)'
        BY <1>4, <1>6, <2>1 DEF Passed
      <3>2. \A j \in Positions : received'[j] > 0 => j <= current'
        BY <1>2, <1>4, <2>1 DEF Positions
      <3> QED
        BY <2>1, <2>4, <3>1, <3>2 DEF Progress
    <2> QED
      BY <1>2, <2>1, <2>2, <2>5 DEF IInv, DeliveriesBounded
  <1>8. CASE current = Snapshots
    <2>1. current' = current /\ stage' = "done" /\ attempt' = 1
      BY <1>1, <1>4, <1>8 DEF Advance, GoTo
    <2>2. TypeOK'
      BY <1>2, <1>3, <1>4, <2>1 DEF TypeOK
    <2>3. \A i \in 1..current' - 1 : Passed(i)'
      BY <1>4, <1>6, <2>1 DEF Passed
    <2>4. Passed(current)'
      BY <1>5, <2>1 DEF Passed
    <2>5. Progress'
      BY <1>2, <1>8, <2>1, <2>3, <2>4 DEF Progress
    <2> QED
      BY <1>2, <2>1, <2>2, <2>5 DEF IInv, DeliveriesBounded
  <1> QED
    BY <1>4, <1>7, <1>8 DEF Positions

\* A call that raises is counted; the last one may end the task.
LEMMA RaisedInv ==
  ASSUME IInv, SendRetries \/ SendFails
  PROVE  IInv'
  <1>0. TypeOK /\ Progress
    BY DEF IInv
  <1>1. /\ stage = "send" /\ AttemptRaises
        /\ UNCHANGED <<current, returned, swallowed>>
        /\ \/ stage' = "send" /\ attempt' = attempt + 1 /\ ~(attempt >= SendAttempts)
           \/ stage' = "failed" /\ attempt' = 1
    BY DEF SendRetries, SendFails, GoTo, LastAttempt
  <1>2. /\ received' \in [Positions -> Nat]
        /\ \A j \in Positions : j # current => received'[j] = received[j]
        /\ received'[current] <= attempt
        /\ \A j \in Positions : received'[j] <= SendAttempts
        /\ \A j \in Positions : received'[j] > 0 => j <= current
    BY <1>1, DeliverBound
  <1>3. /\ attempt \in Nat /\ SendAttempts \in Nat /\ current \in Positions
        /\ received'[current] \in Nat
    BY <1>0, <1>2, AttemptsAssumption DEF TypeOK
  <1>4. TypeOK'
    BY <1>0, <1>1, <1>2, <1>3 DEF TypeOK
  <1>5. DeliveriesBounded'
    BY <1>2 DEF DeliveriesBounded
  <1>6. stage' = "send" => received'[current] < attempt' /\ attempt' <= SendAttempts
    BY <1>1, <1>2, <1>3
  <1>7. \A i \in 1..current' - 1 : Passed(i)'
    <2> SUFFICES ASSUME NEW i \in 1..current - 1 PROVE Passed(i)'
      BY <1>1
    <2>1. i \in Positions /\ i # current
      BY <1>3, SnapshotsAssumption DEF Positions
    <2> QED
      BY <1>0, <1>1, <1>2, <2>1 DEF Progress, Passed
  <1>8. Progress'
    BY <1>1, <1>2, <1>6, <1>7 DEF Progress
  <1> QED
    BY <1>4, <1>5, <1>8 DEF IInv

\* Every step keeps the invariant.
LEMMA InvNext == IInv /\ [Next]_vars => IInv'
  <1> SUFFICES ASSUME IInv, [Next]_vars PROVE IInv'
    OBVIOUS
  <1>1. CASE \/ NextSnapshot
             \/ NameRejected
             \/ Uploaded
             \/ UploadRetries
             \/ UploadFails
             \/ Signed
             \/ SignFails
    BY <1>1, PrepareInv
  <1>2. CASE SendReturns \/ SendSwallowed
    BY <1>2, AdvanceInv
  <1>3. CASE SendRetries \/ SendFails
    BY <1>3, RaisedInv
  <1>4. CASE UNCHANGED vars
    BY <1>4 DEF IInv, TypeOK, DeliveriesBounded, Progress, Passed, vars
  <1> QED
    BY <1>1, <1>2, <1>3, <1>4 DEF Next

\* Everything before the current snapshot arrived or was swallowed, and nothing
\* after it was sent.
THEOREM Invariant == Spec => []IInv
  BY InvInit, InvNext, PTL DEF Spec

\* Every variable keeps its type.
THEOREM TypeCorrect == Spec => []TypeOK
  <1>1. IInv => TypeOK
    BY DEF IInv
  <1> QED
    BY <1>1, Invariant, PTL

\* A snapshot that never arrived, although a later one did or the task counts as
\* a success, was given up in a closed stream, and for no other reason.
THEOREM LeftBehindOnlySwallowed == Spec => []LeftBehindSwallowed
  <1>1. IInv => LeftBehindSwallowed
    <2> SUFFICES ASSUME IInv, NEW i \in LeftBehind PROVE i \in swallowed
      BY DEF LeftBehindSwallowed
    <2>1. /\ i \in Positions /\ ~(received[i] > 0)
          /\ stage = "done" \/ \E j \in i + 1..Snapshots : received[j] > 0
          /\ Snapshots \in Nat /\ Positions \subseteq Nat
      BY SnapshotsAssumption DEF LeftBehind, Positions
    <2>2. current \in Positions /\ Progress
      BY DEF IInv, TypeOK
    <2>3. Passed(i)
      <3>1. CASE stage = "done"
        BY <2>1, <2>2, <3>1 DEF Progress, Positions
      <3>2. CASE \E j \in i + 1..Snapshots : received[j] > 0
        <4>1. PICK j \in i + 1..Snapshots : received[j] > 0
          BY <3>2
        <4>2. j \in Positions /\ i < j
          BY <2>1, <4>1 DEF Positions
        <4>3. j <= current
          BY <2>2, <4>1, <4>2 DEF Progress
        <4>4. i \in 1..current - 1
          BY <2>1, <2>2, <4>2, <4>3 DEF Positions
        <4> QED
          BY <2>2, <4>4 DEF Progress
      <3> QED
        BY <2>1, <3>1, <3>2
    <2> QED
      BY <2>1, <2>3 DEF Passed
  <1> QED
    BY <1>1, Invariant, PTL

\* One snapshot reaches the collector at most once per attempt.
THEOREM Bounded == Spec => []DeliveriesBounded
  <1>1. IInv => DeliveriesBounded
    BY DEF IInv
  <1> QED
    BY <1>1, Invariant, PTL

-----------------------------------------------------------------------------
(***************************************************************************)
(* The commit loop implements Delivery.                                    *)
(***************************************************************************)
Done == IF stage = "done" THEN Snapshots ELSE current - 1
Outcome == CASE stage = "done" -> "well" [] stage = "failed" -> "badly" [] OTHER -> "no"

\* While the loop runs, the snapshot after those it is done with is current.
LEMMA RunningDone ==
  ASSUME TypeOK, stage \in {"next", "upload", "sign", "send"}
  PROVE  Outcome = "no" /\ Done + 1 = current /\ current \in Int /\ current \in 1..Snapshots
  BY SnapshotsAssumption DEF TypeOK, Positions, Outcome, Done

\* A call under way may reach the collector once more.
LEMMA MayArrive ==
  ASSUME IInv, stage = "send", Deliver
  PROVE  Promise!Arrives(current)
  BY AttemptsAssumption DEF IInv, TypeOK, Progress, Deliver, Promise!Arrives, Positions

\* The steps before the call change nothing of the promise, or give up.
LEMMA PreparePromise ==
  ASSUME IInv, UNCHANGED <<current, received, returned>>,
         stage \in {"next", "upload", "sign"},
         stage' \in {"next", "upload", "sign", "send", "failed"}
  PROVE  [Promise!Next]_(Promise!delivery)
  <1>1. Outcome = "no" /\ Done + 1 = current /\ current \in Int
    BY RunningDone DEF IInv
  <1>2. Done' = Done
    BY DEF Done
  <1>3. CASE stage' = "failed"
    <2>1. Outcome' = "badly"
      BY <1>3 DEF Outcome
    <2>2. Promise!GiveUp(current)
      BY <1>2, <2>1 DEF Promise!GiveUp, Done, Outcome
    <2> QED
      BY <1>1, <2>2 DEF Promise!Next, Done, Outcome
  <1>4. CASE stage' # "failed"
    <2>1. Outcome' = "no"
      BY <1>4 DEF Outcome
    <2> QED
      BY <1>1, <1>2, <2>1 DEF Promise!delivery, Done, Outcome
  <1> QED
    BY <1>3, <1>4

\* Being done with the current snapshot is Finish.
LEMMA FinishPromise ==
  ASSUME IInv, SendReturns \/ SendSwallowed
  PROVE  Promise!Next
  <1>0. TypeOK /\ stage = "send" /\ Advance
    BY DEF IInv, SendReturns, SendSwallowed
  <1>1. Outcome = "no" /\ Done + 1 = current /\ current \in Int /\ current \in 1..Snapshots
    BY <1>0, RunningDone
  <1>2. Done' = current /\ Outcome' = IF current = Snapshots THEN "well" ELSE "no"
    <2>1. CASE current < Snapshots
      <3>1. current' = current + 1 /\ stage' = "next"
        BY <1>0, <2>1 DEF Advance, GoTo
      <3>2. Done' = current /\ Outcome' = "no"
        BY <1>1, <3>1 DEF Done, Outcome
      <3>3. current # Snapshots
        BY <1>1, <2>1, SnapshotsAssumption
      <3> QED
        BY <3>2, <3>3
    <2>2. CASE ~(current < Snapshots)
      <3>1. current = Snapshots
        BY <1>1, <2>2, SnapshotsAssumption
      <3>2. stage' = "done"
        BY <1>0, <2>2 DEF Advance, GoTo
      <3> QED
        BY <3>1, <3>2 DEF Done, Outcome
    <2> QED
      BY <2>1, <2>2
  <1>3. \/ Promise!Arrives(current) /\ returned' = returned \cup {current}
        \/ (Promise!Arrives(current) \/ UNCHANGED received) /\ UNCHANGED returned
    <2>1. CASE SendReturns
      BY <1>0, <2>1, MayArrive DEF SendReturns
    <2>2. CASE SendSwallowed
      BY <1>0, <2>2, MayArrive DEF SendSwallowed, AttemptRaises
    <2> QED
      BY <2>1, <2>2
  <1>4. Promise!Finish(current)
    BY <1>2, <1>3 DEF Promise!Finish, Done, Outcome
  <1> QED
    BY <1>1, <1>4 DEF Promise!Next, Done, Outcome

\* A call that raises may have arrived; the last one may give up.
LEMMA RaisedPromise ==
  ASSUME IInv, SendRetries \/ SendFails
  PROVE  [Promise!Next]_(Promise!delivery)
  <1>0. TypeOK /\ stage = "send" /\ AttemptRaises /\ UNCHANGED <<current, returned>>
    BY DEF IInv, SendRetries, SendFails
  <1>1. Outcome = "no" /\ Done + 1 = current /\ current \in Int
    BY <1>0, RunningDone
  <1>2. Promise!Arrives(current) \/ UNCHANGED received
    BY <1>0, MayArrive DEF AttemptRaises
  <1>3. CASE SendRetries
    <2>1. Done' = Done /\ Outcome' = Outcome
      BY <1>0, <1>3 DEF SendRetries, Done, Outcome
    <2>2. CASE Promise!Arrives(current)
      <3>1. Promise!Try(current)
        BY <1>0, <2>1, <2>2 DEF Promise!Try, Done, Outcome
      <3> QED
        BY <1>1, <3>1 DEF Promise!Next, Done, Outcome
    <2>3. CASE UNCHANGED received
      BY <1>0, <2>1, <2>3 DEF Promise!delivery, Done, Outcome
    <2> QED
      BY <1>2, <2>2, <2>3
  <1>4. CASE SendFails
    <2>1. stage' = "failed"
      BY <1>4 DEF SendFails, GoTo
    <2>2. Done' = Done /\ Outcome' = "badly"
      BY <1>0, <2>1 DEF Done, Outcome
    <2>3. Promise!GiveUp(current)
      BY <1>0, <1>2, <2>2 DEF Promise!GiveUp, Done, Outcome
    <2> QED
      BY <1>1, <2>3 DEF Promise!Next, Done, Outcome
  <1> QED
    BY <1>3, <1>4

\* Every step of the loop is a step of the promise, or none.
LEMMA PromiseStep == IInv /\ [Next]_vars => [Promise!Next]_(Promise!delivery)
  <1> SUFFICES ASSUME IInv, [Next]_vars PROVE [Promise!Next]_(Promise!delivery)
    OBVIOUS
  <1>1. CASE \/ NextSnapshot
             \/ NameRejected
             \/ Uploaded
             \/ UploadRetries
             \/ UploadFails
             \/ Signed
             \/ SignFails
    <2>1. /\ UNCHANGED <<current, received, returned>>
          /\ stage \in {"next", "upload", "sign"}
          /\ stage' \in {"next", "upload", "sign", "send", "failed"}
      BY <1>1 DEF NextSnapshot, NameRejected, Uploaded, UploadRetries, UploadFails,
                  Signed, SignFails, Fail, GoTo
    <2> QED
      BY <2>1, PreparePromise
  <1>2. CASE SendReturns \/ SendSwallowed
    BY <1>2, FinishPromise
  <1>3. CASE SendRetries \/ SendFails
    BY <1>3, RaisedPromise
  <1>4. CASE UNCHANGED vars
    <2>1. UNCHANGED <<current, received, returned, stage>>
      BY <1>4 DEF vars
    <2> QED
      BY <2>1 DEF Promise!delivery
  <1> QED
    BY <1>1, <1>2, <1>3, <1>4 DEF Next

\* Nothing has arrived and nothing is done with initially.
LEMMA PromiseInit == Init => Promise!Init
  BY DEF Init, Promise!Init, Positions

\* However uploads, signatures, replies and retries fail, the commit loop
\* keeps the promise of Delivery.
THEOREM Delivers == Spec => DeliverySpec
  BY Invariant, PromiseInit, PromiseStep, PTL DEF Spec, DeliverySpec, Promise!Spec

-----------------------------------------------------------------------------
(***************************************************************************)
(* Every step leaves less to do.                                           *)
(***************************************************************************)

\* The steps a snapshot can cost, and those the current one can still cost.
PerSnapshot == UploadAttempts + SendAttempts + 2

OfCurrent ==
  CASE stage = "next" -> PerSnapshot
    [] stage = "upload" -> SendAttempts + 2 + UploadAttempts - attempt
    [] stage = "sign" -> SendAttempts + 1
    [] stage = "send" -> SendAttempts + 1 - attempt
    [] OTHER -> 0

Over == stage \in {"done", "failed"}

WorkLeft == IF Over THEN 0 ELSE (Snapshots - current) * PerSnapshot + OfCurrent

\* Retries are counted in both loops, nothing is started over, and a task
\* that is not over has something left to do: it ends after a number of steps
\* the settings fix, whatever IPFS, the RPC and the collector do.
ShrinkingWork ==
  [][/\ WorkLeft \in Nat /\ WorkLeft' \in Nat
     /\ WorkLeft' < WorkLeft]_vars

\* The upload is retried within its limit.
UploadBounded == stage = "upload" => attempt <= UploadAttempts

\* Every step keeps the attempts of the upload within their limit.
LEMMA UploadNext == TypeOK /\ UploadBounded /\ [Next]_vars => UploadBounded'
  <1> SUFFICES ASSUME TypeOK, UploadBounded, [Next]_vars, stage' = "upload"
               PROVE  attempt' <= UploadAttempts
    BY DEF UploadBounded
  <1>1. CASE NextSnapshot
    BY <1>1, AttemptsAssumption DEF NextSnapshot, GoTo
  <1>2. CASE UploadRetries
    BY <1>2, AttemptsAssumption DEF UploadRetries, TypeOK
  <1>3. CASE UNCHANGED vars
    BY <1>3 DEF UploadBounded, vars
  <1> QED
    BY <1>1, <1>2, <1>3
    DEF Next, NameRejected, Uploaded, UploadFails, Signed, SignFails, Fail, GoTo, SendReturns,
        SendRetries, SendSwallowed, SendFails, Advance

\* What the current snapshot can still cost is at least one step and at most
\* what a snapshot costs.
LEMMA OfCurrentRange == IInv /\ UploadBounded /\ ~Over => OfCurrent \in 1..PerSnapshot
  <1> SUFFICES ASSUME IInv, UploadBounded, ~Over PROVE OfCurrent \in 1..PerSnapshot
    OBVIOUS
  <1>1. /\ UploadAttempts \in Nat \ {0} /\ SendAttempts \in Nat \ {0} /\ attempt \in Nat \ {0}
        /\ stage \in {"next", "upload", "sign", "send"}
        /\ stage = "send" => attempt <= SendAttempts
    BY AttemptsAssumption DEF IInv, TypeOK, Progress, Over
  <1>2. CASE stage = "next"
    BY <1>1, <1>2 DEF OfCurrent, PerSnapshot
  <1>3. CASE stage = "upload"
    BY <1>1, <1>3 DEF OfCurrent, PerSnapshot, UploadBounded
  <1>4. CASE stage = "sign"
    BY <1>1, <1>4 DEF OfCurrent, PerSnapshot
  <1>5. CASE stage = "send"
    BY <1>1, <1>5 DEF OfCurrent, PerSnapshot
  <1> QED
    BY <1>1, <1>2, <1>3, <1>4, <1>5

\* The work of the snapshots after the current one.
LEMMA AfterCurrent ==
  ASSUME TypeOK
  PROVE  /\ Snapshots - current \in Nat /\ PerSnapshot \in Nat
         /\ (Snapshots - current) * PerSnapshot \in Nat
         /\ current < Snapshots =>
              (Snapshots - current) * PerSnapshot
                = (Snapshots - (current + 1)) * PerSnapshot + PerSnapshot
  <1>1. Snapshots - current \in Nat /\ PerSnapshot \in Nat /\ Snapshots \in Nat /\ current \in Nat
    BY SnapshotsAssumption, AttemptsAssumption DEF TypeOK, Positions, PerSnapshot
  <1> QED
    BY <1>1

\* What is left to do is a number, and none once the task is over.
LEMMA WorkType ==
  ASSUME IInv, UploadBounded
  PROVE  WorkLeft \in Nat /\ (~Over => WorkLeft > 0)
  <1>1. CASE Over
    BY <1>1 DEF WorkLeft
  <1>2. CASE ~Over
    <2>1. OfCurrent \in 1..PerSnapshot
      BY <1>2, OfCurrentRange
    <2>2. (Snapshots - current) * PerSnapshot \in Nat /\ PerSnapshot \in Nat
      BY AfterCurrent DEF IInv
    <2>3. OfCurrent \in Nat /\ OfCurrent > 0
      BY <2>1, <2>2
    <2>4. WorkLeft = (Snapshots - current) * PerSnapshot + OfCurrent
      BY <1>2 DEF WorkLeft
    <2> QED
      BY <2>2, <2>3, <2>4
  <1> QED
    BY <1>1, <1>2

\* A step to the same snapshot that is not over, and that costs it something,
\* leaves less to do.
LEMMA SameSnapshotShrinks ==
  ASSUME IInv, UploadBounded, IInv', UploadBounded', ~Over, ~Over',
         current' = current, OfCurrent' < OfCurrent
  PROVE  WorkLeft' < WorkLeft
  <1> DEFINE after == (Snapshots - current) * PerSnapshot
  <1>1. after \in Nat /\ PerSnapshot \in Nat
    BY AfterCurrent DEF IInv
  <1>2. OfCurrent \in Nat /\ OfCurrent' \in Nat
    <2>1. OfCurrent \in 1..PerSnapshot
      BY OfCurrentRange
    <2>2. OfCurrent' \in 1..PerSnapshot'
      <3>1. (IInv /\ UploadBounded /\ ~Over => OfCurrent \in 1..PerSnapshot)'
        BY OfCurrentRange, PTL
      <3> QED
        BY <3>1
    <2> QED
      BY <1>1, <2>1, <2>2 DEF PerSnapshot
  <1>3. WorkLeft = after + OfCurrent /\ WorkLeft' = after + OfCurrent'
    BY DEF WorkLeft, PerSnapshot
  <1>4. \A a, b, c \in Nat : b < c => a + b < a + c
    OBVIOUS
  <1> HIDE DEF after
  <1> QED
    BY <1>1, <1>2, <1>3, <1>4

\* Moving on to the next snapshot leaves less to do.
LEMMA AdvanceShrinks ==
  ASSUME IInv, UploadBounded, stage = "send", Advance
  PROVE  WorkLeft' < WorkLeft
  <1> DEFINE after == (Snapshots - current) * PerSnapshot
  <1>0. ~Over /\ TypeOK /\ current \in 1..Snapshots
    BY DEF Over, IInv, TypeOK, Positions
  <1>1. CASE current < Snapshots
    <2>1. current' = current + 1 /\ stage' = "next"
      BY <1>1 DEF Advance, GoTo
    <2>2. after = (Snapshots - (current + 1)) * PerSnapshot + PerSnapshot
          /\ after \in Nat /\ PerSnapshot \in Nat
      BY <1>0, <1>1, AfterCurrent
    <2>3. WorkLeft' = (Snapshots - (current + 1)) * PerSnapshot + PerSnapshot
      BY <2>1 DEF WorkLeft, Over, OfCurrent, PerSnapshot
    <2>4. WorkLeft = after + OfCurrent
      BY <1>0 DEF WorkLeft
    <2>5. OfCurrent \in 1..PerSnapshot
      BY <1>0, OfCurrentRange
    <2>6. OfCurrent \in Nat /\ OfCurrent > 0
      BY <2>2, <2>5
    <2>7. WorkLeft' = after
      BY <2>2, <2>3
    <2> HIDE DEF after
    <2> QED
      BY <2>2, <2>4, <2>6, <2>7
  <1>2. CASE ~(current < Snapshots)
    <2>1. stage' = "done"
      BY <1>2 DEF Advance, GoTo
    <2>2. WorkLeft' = 0
      BY <2>1 DEF WorkLeft, Over
    <2> QED
      BY <1>0, <2>2, WorkType
  <1> QED
    BY <1>1, <1>2

\* Every step of the loop leaves less to do.
LEMMA StepShrinks ==
  ASSUME IInv, UploadBounded, IInv', UploadBounded', Next
  PROVE  WorkLeft' < WorkLeft
  <1>0. /\ UploadAttempts \in Nat \ {0} /\ SendAttempts \in Nat \ {0}
        /\ attempt \in Nat \ {0} /\ TypeOK
    BY AttemptsAssumption DEF IInv, TypeOK
  <1>1. CASE NameRejected \/ UploadFails \/ SignFails \/ SendFails
    <2>1. stage \in {"next", "upload", "sign", "send"} /\ stage' = "failed"
      BY <1>1 DEF NameRejected, UploadFails, SignFails, SendFails, Fail, GoTo
    <2>2. WorkLeft' = 0 /\ ~Over
      BY <2>1 DEF WorkLeft, Over
    <2> QED
      BY <2>2, WorkType
  <1>2. CASE SendReturns \/ SendSwallowed
    BY <1>2, AdvanceShrinks DEF SendReturns, SendSwallowed
  <1>3. CASE NextSnapshot \/ Uploaded \/ UploadRetries \/ Signed \/ SendRetries
    <2>1. current' = current /\ ~Over /\ ~Over'
      BY <1>3 DEF NextSnapshot, Uploaded, UploadRetries, Signed, SendRetries, GoTo, Over
    <2>2. OfCurrent' < OfCurrent
      <3>1. CASE NextSnapshot
        BY <1>0, <3>1 DEF NextSnapshot, GoTo, OfCurrent, PerSnapshot
      <3>2. CASE Uploaded
        BY <1>0, <3>2 DEF Uploaded, GoTo, OfCurrent, PerSnapshot, UploadBounded
      <3>3. CASE UploadRetries
        BY <1>0, <3>3 DEF UploadRetries, OfCurrent, PerSnapshot
      <3>4. CASE Signed
        BY <1>0, <3>4 DEF Signed, GoTo, OfCurrent, PerSnapshot
      <3>5. CASE SendRetries
        BY <1>0, <3>5 DEF SendRetries, OfCurrent, PerSnapshot
      <3> QED
        BY <1>3, <3>1, <3>2, <3>3, <3>4, <3>5
    <2> QED
      BY <2>1, <2>2, SameSnapshotShrinks
  <1> QED
    BY <1>1, <1>2, <1>3 DEF Next

\* A task is over after a bounded number of steps, however its calls fail.
THEOREM Shrinks == Spec => ShrinkingWork
  <1>1. Init => UploadBounded
    BY DEF Init, UploadBounded
  <1>2. IInv /\ UploadBounded /\ [Next]_vars => UploadBounded'
    BY UploadNext DEF IInv
  <1>3. IInv /\ UploadBounded => WorkLeft \in Nat
    BY WorkType
  <1>4. (IInv /\ UploadBounded => WorkLeft \in Nat)'
    BY <1>3, PTL
  <1>5. IInv /\ UploadBounded /\ IInv' /\ UploadBounded' /\ [Next]_vars
          => [/\ WorkLeft \in Nat /\ WorkLeft' \in Nat
              /\ WorkLeft' < WorkLeft]_vars
    BY <1>3, <1>4, StepShrinks
  <1> QED
    BY <1>1, <1>2, <1>5, Invariant, PTL DEF Spec, ShrinkingWork
=============================================================================
