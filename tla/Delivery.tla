------------------------------ MODULE Delivery ------------------------------
(***************************************************************************)
(* What one task promises about the snapshots compute returned, whatever   *)
(* uploads, signatures, lost replies and retries do: they reach the        *)
(* collector in order, if at all, and each at most Attempts times; the     *)
(* task is done with one before it sends the next, and one whose delivery  *)
(* it takes for confirmed has arrived.  It ends well exactly when it is    *)
(* done with all of them; when it gives up, those after the one it was at  *)
(* are never sent.                                                         *)
(***************************************************************************)
EXTENDS Integers

CONSTANTS Snapshots, Attempts

VARIABLES
  arrived,   \* how often each snapshot reached the collector
  done,      \* how many snapshots the task is done with
  confirmed, \* those whose call returned
  ended      \* "no", "well" or "badly"

delivery == <<arrived, done, confirmed, ended>>

Init ==
  /\ arrived = [j \in 1..Snapshots |-> 0]
  /\ done = 0
  /\ confirmed = {}
  /\ ended = "no"

Arrives(j) == arrived[j] < Attempts /\ arrived' = [arrived EXCEPT ![j] = @ + 1]

Try(j) == Arrives(j) /\ UNCHANGED <<done, confirmed, ended>>

\* Done with a snapshot: its call returned, or it is taken for sent although
\* no attempt returned, and then it may not have arrived.
Finish(j) ==
  /\ done' = j
  /\ ended' = IF j = Snapshots THEN "well" ELSE "no"
  /\ \/ Arrives(j) /\ confirmed' = confirmed \cup {j}
     \/ (Arrives(j) \/ UNCHANGED arrived) /\ UNCHANGED confirmed

GiveUp(j) ==
  /\ ended' = "badly"
  /\ Arrives(j) \/ UNCHANGED arrived
  /\ UNCHANGED <<done, confirmed>>

Next ==
  /\ ended = "no"
  /\ \E j \in {done + 1} : Try(j) \/ Finish(j) \/ GiveUp(j)

Spec == Init /\ [][Next]_delivery
=============================================================================
