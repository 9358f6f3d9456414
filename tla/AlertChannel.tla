---------------------------- MODULE AlertChannel ----------------------------
(***************************************************************************)
(* What the batched MISSED_SNAPSHOT alerts promise, whatever the back-off  *)
(* and the retries do: every row accepted is handed to the Telegram client *)
(* at most once, in the order of acceptance, together with every row still *)
(* waiting, and never fewer than BatchSize rows at a time.                 *)
(***************************************************************************)
EXTENDS Integers, Sequences

CONSTANTS Alerts, BatchSize

VARIABLES
  log,     \* rows accepted so far, in order
  handed   \* how many of them were handed to the client

Init == log = <<>> /\ handed = 0

HandOver(rows) == rows - handed >= BatchSize /\ handed' = rows

Accept(a) ==
  /\ log' = Append(log, a)
  /\ handed' = handed \/ HandOver(Len(log) + 1)

Retry == HandOver(Len(log)) /\ UNCHANGED log

Next == Retry \/ \E a \in Alerts : Accept(a)

Spec == Init /\ [][Next]_<<log, handed>>
=============================================================================
