---------------------------- MODULE EpochLedger ----------------------------
(***************************************************************************)
(* What the accounts of the snapshot worker promise, whatever the epochs   *)
(* do to each other over the one-row selection file: every task is settled *)
(* once; what is counted or reported is so at that moment and never again; *)
(* only tasks of selected epochs are counted.  A success ends the streak   *)
(* of misses before the misses of the same step start a new one.           *)
(*                                                                         *)
(* A task may be settled without an account, and a group of tasks may be   *)
(* reported without being counted: the worker promises no more.            *)
(***************************************************************************)
EXTENDS Integers, FiniteSets

CONSTANTS
  Tasks,      \* project types of all epochs
  Reporting   \* is there an operator to report misses to?

VARIABLES
  due,        \* the tasks of selected epochs
  open,       \* the tasks not settled yet
  reported,   \* the tasks the operator was told about
  missed,     \* misses counted
  succeeded,  \* successes counted
  streak      \* misses counted since the last success

ledger == <<due, open, reported, missed, succeeded, streak>>

Init ==
  /\ due \subseteq Tasks
  /\ open = Tasks
  /\ reported = {}
  /\ missed = 0
  /\ succeeded = 0
  /\ streak = 0

Report(rows) == reported' = IF Reporting THEN reported \cup rows ELSE reported

\* Settle some tasks: count the misses among them, and at most one success.
Account(tasks, misses, successes) ==
  /\ misses \cap successes = {}
  /\ Cardinality(successes) <= 1
  /\ open' = open \ tasks
  /\ missed' = missed + Cardinality(misses)
  /\ succeeded' = succeeded + Cardinality(successes)
  /\ streak' = Cardinality(misses) + (IF successes = {} THEN streak ELSE 0)
  /\ Report(misses)
  /\ UNCHANGED due

\* Settle some tasks and report them all, uncounted.
ReportOnly(tasks) ==
  /\ open' = open \ tasks
  /\ Report(tasks)
  /\ UNCHANGED <<due, missed, succeeded, streak>>

Next ==
  \E tasks \in SUBSET open :
    /\ tasks # {}
    /\ \/ ReportOnly(tasks)
       \/ \E misses \in SUBSET (tasks \cap due) :
            \E successes \in SUBSET (tasks \cap due) :
              Account(tasks, misses, successes)

Spec == Init /\ [][Next]_ledger
=============================================================================
