--------------------------- MODULE SnapshotCommit ---------------------------
(***************************************************************************)
(* The commit loop of SnapshotAsyncWorker._process, and below it           *)
(* GenericAsyncWorker._commit_payload, _upload_to_ipfs,                    *)
(* _send_submission_to_collector and send_message: the snapshots compute   *)
(* returned for one task go, one after the other, to IPFS and to the local *)
(* collector, with the retries of each.                                    *)
(*                                                                         *)
(* Tasks share no state here, so one task is modelled.  The collector is   *)
(* external: a call may be lost, or reach it although its reply is lost.   *)
(***************************************************************************)
EXTENDS Integers

CONSTANTS
  Snapshots,       \* how many snapshots compute returned
  UploadAttempts,  \* stop_after_attempt of _upload_to_ipfs: 5
  SendAttempts,    \* stop_after_attempt of send_message: 3
  IpfsConfigured   \* is settings.ipfs.url set?

ASSUME SnapshotsAssumption == Snapshots \in Nat \ {0}
ASSUME AttemptsAssumption == {UploadAttempts, SendAttempts} \subseteq Nat \ {0}
ASSUME IpfsAssumption == IpfsConfigured \in BOOLEAN

Positions == 1..Snapshots

VARIABLES
  stage,      \* "next", "upload", "sign", "send", "done" or "failed"
  current,    \* the snapshot being committed
  attempt,    \* of the upload or of the call under way
  received,   \* external: how often the collector got each snapshot
  returned,   \* snapshots whose call returned: answered, and the time written
  swallowed   \* snapshots given up as StreamTerminatedError

vars == <<stage, current, attempt, received, returned, swallowed>>

Init ==
  /\ stage = "next"
  /\ current = 1
  /\ attempt = 1
  /\ received = [j \in Positions |-> 0]
  /\ returned = {}
  /\ swallowed = {}

-----------------------------------------------------------------------------
GoTo(s) == stage' = s /\ attempt' = 1

\* An exception that leaves the loop: the snapshots after it are never sent.
Fail ==
  /\ GoTo("failed")
  /\ UNCHANGED <<current, received, returned, swallowed>>

NextSnapshot ==
  /\ stage = "next"
  /\ GoTo(IF IpfsConfigured THEN "upload" ELSE "sign")
  /\ UNCHANGED <<current, received, returned, swallowed>>

\* The name compute gave the data source does not split into one or two.
NameRejected == stage = "next" /\ Fail

Uploaded ==
  /\ stage = "upload"
  /\ GoTo("sign")
  /\ UNCHANGED <<current, received, returned, swallowed>>

UploadRetries_NoLimit ==
  /\ stage = "upload"
  /\ attempt' = IF attempt < UploadAttempts THEN attempt + 1 ELSE 1
  /\ UNCHANGED <<stage, current, received, returned, swallowed>>

UploadRetries ==
  /\ stage = "upload"
  /\ attempt < UploadAttempts
  /\ attempt' = attempt + 1
  /\ UNCHANGED <<stage, current, received, returned, swallowed>>

\* The last attempt, or an IPFSAsyncClientError in any attempt.
UploadFails == stage = "upload" /\ Fail

\* generate_signature reads the head of the anchor chain, once per snapshot.
Signed ==
  /\ stage = "sign"
  /\ GoTo("send")
  /\ UNCHANGED <<current, received, returned, swallowed>>

SignFails == stage = "sign" /\ Fail

-----------------------------------------------------------------------------
(***************************************************************************)
(* One attempt of SubmitSnapshot.                                          *)
(***************************************************************************)
Deliver == received' = [received EXCEPT ![current] = @ + 1]

Advance_OnePast ==
  /\ current' = current + 1
  /\ GoTo(IF current < Snapshots THEN "next" ELSE "done")

Advance ==
  /\ current' = IF current < Snapshots THEN current + 1 ELSE current
  /\ GoTo(IF current < Snapshots THEN "next" ELSE "done")

SendReturns_WithoutReply ==
  /\ stage = "send"
  /\ Deliver \/ UNCHANGED received
  /\ returned' = returned \cup {current}
  /\ Advance
  /\ UNCHANGED swallowed

SendReturns ==
  /\ stage = "send"
  /\ Deliver
  /\ returned' = returned \cup {current}
  /\ Advance
  /\ UNCHANGED swallowed

\* The stream breaks before or after the collector got the message, or the
\* reply came and last_successful_submission.txt cannot be written: the
\* decorator sees an exception in each case, so that a snapshot the collector
\* answered may be sent again, and its task may fail.
AttemptRaises == Deliver \/ UNCHANGED received

LastAttempt_OffByOne == attempt > SendAttempts

LastAttempt == attempt >= SendAttempts

SendRetries ==
  /\ stage = "send"
  /\ ~LastAttempt
  /\ AttemptRaises
  /\ attempt' = attempt + 1
  /\ UNCHANGED <<stage, current, returned, swallowed>>

\* Only the name of the last attempt's exception shows in the RetryError: a
\* closed stream, before or after the snapshot got through, is passed over.
SendSwallowed ==
  /\ stage = "send"
  /\ LastAttempt
  /\ AttemptRaises
  /\ swallowed' = swallowed \cup {current}
  /\ Advance
  /\ UNCHANGED returned

SendFails_GoesOn ==
  /\ stage = "send"
  /\ LastAttempt
  /\ AttemptRaises
  /\ Advance
  /\ UNCHANGED <<returned, swallowed>>

SendFails ==
  /\ stage = "send"
  /\ LastAttempt
  /\ AttemptRaises
  /\ GoTo("failed")
  /\ UNCHANGED <<current, returned, swallowed>>

Next ==
  \/ NextSnapshot
  \/ NameRejected
  \/ Uploaded
  \/ UploadRetries
  \/ UploadFails
  \/ Signed
  \/ SignFails
  \/ SendReturns
  \/ SendRetries
  \/ SendSwallowed
  \/ SendFails

Spec == Init /\ [][Next]_vars

\* The retries are bounded by the code.  That each call returns or raises is
\* assumed of the RPC, IPFS and gRPC clients: SubmitSnapshot sets no timeout.
FairSpec == Spec /\ WF_vars(Next)

-----------------------------------------------------------------------------
(***************************************************************************)
(* Properties.                                                             *)
(***************************************************************************)

\* Types and ranges: the loop never commits past the last snapshot.
TypeOK ==
  /\ stage \in {"next", "upload", "sign", "send", "done", "failed"}
  /\ current \in Positions
  /\ attempt \in Nat \ {0}
  /\ received \in [Positions -> Nat]
  /\ returned \subseteq Positions
  /\ swallowed \subseteq Positions

\* Snapshots the collector never got although it got a later one of the same
\* task, or although process_task took the task for a success.
LeftBehind ==
  {i \in Positions :
     /\ received[i] = 0
     /\ stage = "done" \/ \E j \in i + 1..Snapshots : received[j] > 0}

\* A snapshot is left behind for one reason only: the last attempt of its call
\* ended in a closed stream, which the code takes for sent.  Any other failure
\* of an upload, a signature or a call ends the task before a later snapshot is
\* sent.  What a closed stream left behind did never arrive: nothing is
\* promised about it.
LeftBehindSwallowed == LeftBehind \subseteq swallowed

\* One snapshot reaches the collector at most once per attempt: lost replies,
\* and replies after which the success file could not be written, never make
\* it more.
DeliveriesBounded == \A j \in Positions : received[j] <= SendAttempts

\* The commit loop with all its retries implements the promise of Delivery:
\* in order, bounded, confirmed ones arrived, nothing after a task gave up.
Promise == INSTANCE Delivery WITH
  Attempts <- SendAttempts,
  arrived <- received,
  done <- IF stage = "done" THEN Snapshots ELSE current - 1,
  confirmed <- returned,
  ended <- CASE stage = "done" -> "well" [] stage = "failed" -> "badly" [] OTHER -> "no"
DeliverySpec == Promise!Spec

\* Every task ends, so that process_task can do its accounts.
TaskEnds == <>(stage \in {"done", "failed"})

\* What the invariants above rest on: everything before the current snapshot,
\* and at the end the last one too, arrived or was swallowed, nothing after the
\* current one was sent, and the attempts are counted.
Passed(i) == received[i] > 0 \/ i \in swallowed

Progress ==
  /\ \A i \in 1..current - 1 : Passed(i)
  /\ stage = "done" => current = Snapshots /\ Passed(current)
  /\ \A j \in Positions : received[j] > 0 => j <= current
  /\ stage \in {"next", "upload", "sign"} => received[current] = 0
  /\ stage = "send" => received[current] < attempt /\ attempt <= SendAttempts

IInv ==
  /\ TypeOK
  /\ DeliveriesBounded
  /\ Progress
=============================================================================
