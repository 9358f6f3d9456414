--------------------------- MODULE HealthMonitor ---------------------------
(***************************************************************************)
(* EventDetectorProcess.check_last_submission and the loop that calls it,  *)
(* with the file slot_selection_status.txt that compute writes through     *)
(* SlotSelectionTracker.report_selection in the same process.              *)
(*                                                                         *)
(* A check awaits aiofiles, which reads in a thread, and judges what it    *)
(* got; the event loop may write a report meanwhile.  The file outlives    *)
(* the process, the failure count does not.                                *)
(*                                                                         *)
(* The operator is told of an old row, and of an RPC that fails in the     *)
(* loop, through one sender with one cooldown.  Its POST is synchronous;   *)
(* one that fails is only logged and counts as sent.                       *)
(*                                                                         *)
(* Time is counted in ticks; ages stop where nothing depends on them.      *)
(***************************************************************************)
EXTENDS Integers

CONSTANTS
  StuckAfter,   \* age of the row that still counts as active: 600 s
  CheckEvery,   \* time that must be over before the next check: 120 s
  MaxFailures,  \* failed checks that make the next one exit: 3
  Cooldown      \* notification_cooldown: 300 s unless configured otherwise

ASSUME ThresholdsAssumption == {StuckAfter, CheckEvery, MaxFailures} \subseteq Nat \ {0}

VARIABLES
  running,     \* is the process alive?
  file,        \* "missing", "row", or "torn": not readable as JSON
  rowAge,      \* time since the timestamp in the file
  sinceCheck,  \* time since last_status_check_time
  reading,     \* "no", or what the file was when a check opened it
  rewritten,   \* was the file written since that check opened it?
  failures,    \* failure_count
  sinceGood,   \* history: time since the process started or a check was good
  sinceNotice, \* time since last_notification_time, 0 in a new process
  told,        \* history: was the operator told something since then?
  unread       \* history: was a file unreadable since then?

notices == <<sinceNotice, told, unread>>
vars == <<running, file, rowAge, sinceCheck, reading, rewritten, failures,
          sinceGood, notices>>

Period == CheckEvery + 1
Grace == (MaxFailures + 1) * Period

\* The failures that end a process outlast a cooldown.
ASSUME CooldownAssumption == Cooldown \in 0..MaxFailures * Period

Older(age, top) == IF age < top THEN age + 1 ELSE age

Init ==
  /\ running = TRUE
  /\ file \in {"missing", "row", "torn"}
  /\ rowAge \in 0..StuckAfter + 1
  /\ sinceCheck = 0
  /\ reading = "no"
  /\ rewritten = FALSE
  /\ failures = 0
  /\ sinceGood = 0
  /\ sinceNotice = Cooldown
  /\ told = FALSE
  /\ unread = FALSE

\* External: the clock.  aiofiles answers within a tick.
Tick ==
  /\ reading = "no"
  /\ rowAge' = Older(rowAge, StuckAfter + 1)
  /\ sinceCheck' = Older(sinceCheck, Period)
  /\ sinceGood' = Older(sinceGood, Grace)
  /\ sinceNotice' = Older(sinceNotice, Cooldown)
  /\ UNCHANGED <<running, file, reading, rewritten, failures, told, unread>>

\* compute reports a selection.  The write may fail once the file has been
\* truncated; the error is swallowed.
Report ==
  /\ running
  /\ \/ file' = "row" /\ rowAge' = 0
     \/ file' = "torn" /\ UNCHANGED rowAge
  /\ rewritten' = (reading # "no")
  /\ UNCHANGED <<running, sinceCheck, reading, failures, sinceGood, notices>>

-----------------------------------------------------------------------------
(***************************************************************************)
(* _send_telegram_epoch_processing_notification, with Telegram configured. *)
(***************************************************************************)
Notify_ClockAnyway ==
  /\ told' = (told \/ sinceNotice >= Cooldown)
  /\ sinceNotice' = 0

Notify ==
  IF sinceNotice >= Cooldown
  THEN sinceNotice' = 0 /\ told' = TRUE
  ELSE UNCHANGED <<sinceNotice, told>>

\* The head or the events of some blocks cannot be fetched.
LoopReports ==
  /\ running
  /\ reading = "no"
  /\ Notify
  /\ UNCHANGED <<running, file, rowAge, sinceCheck, reading, rewritten, failures,
                 sinceGood, unread>>

-----------------------------------------------------------------------------
(***************************************************************************)
(* An iteration of _detect_events that finds the check due.                *)
(***************************************************************************)
Due == running /\ reading = "no" /\ sinceCheck > CheckEvery

TooManyFailures_OneLate == failures > MaxFailures

TooManyFailures == failures >= MaxFailures

CheckExits ==
  /\ Due
  /\ TooManyFailures
  /\ running' = FALSE
  /\ UNCHANGED <<file, rowAge, sinceCheck, reading, rewritten, failures, sinceGood, notices>>

\* No file: only a warning.
CheckFindsNoFile ==
  /\ Due
  /\ ~TooManyFailures
  /\ file = "missing"
  /\ sinceCheck' = 0
  /\ UNCHANGED <<running, file, rowAge, reading, rewritten, failures, sinceGood, notices>>

Verdict ==
  CASE file # "row" -> "torn"
    [] file = "row" /\ rowAge <= StuckAfter -> "active"
    [] OTHER -> "old"

CheckOpensFile_ResetsCount ==
  /\ Due
  /\ ~TooManyFailures
  /\ file # "missing"
  /\ reading' = Verdict
  /\ rewritten' = FALSE
  /\ failures' = 0
  /\ UNCHANGED <<running, file, rowAge, sinceCheck, sinceGood, notices>>

CheckOpensFile ==
  /\ Due
  /\ ~TooManyFailures
  /\ file # "missing"
  /\ reading' = Verdict
  /\ rewritten' = FALSE
  /\ UNCHANGED <<running, file, rowAge, sinceCheck, failures, sinceGood, notices>>

CheckDone ==
  /\ reading # "no"
  /\ reading' = "no"
  /\ sinceCheck' = 0
  /\ UNCHANGED <<running, file, rowAge, rewritten>>

\* The row is too old, the operator is told.
CheckFindsOldRow ==
  /\ CheckDone
  /\ reading = "old"
  /\ Notify
  /\ failures' = failures + 1
  /\ UNCHANGED <<sinceGood, unread>>

\* The file was not readable when the check opened it, or a report truncated
\* it under the reader: nobody is told.
CheckReadFails ==
  /\ CheckDone
  /\ reading = "torn" \/ rewritten
  /\ failures' = failures + 1
  /\ unread' = TRUE
  /\ UNCHANGED <<sinceGood, sinceNotice, told>>

\* What was read is the row the check opened, or one written since.
ReadActive == reading = "active" \/ (rewritten /\ file = "row")

CheckFindsActivity_KeepsCount ==
  /\ CheckDone
  /\ ReadActive
  /\ sinceGood' = 0
  /\ told' = FALSE
  /\ unread' = FALSE
  /\ UNCHANGED <<failures, sinceNotice>>

CheckFindsActivity ==
  /\ CheckDone
  /\ ReadActive
  /\ sinceGood' = 0
  /\ told' = FALSE
  /\ unread' = FALSE
  /\ failures' = 0
  /\ UNCHANGED sinceNotice

\* docker compose: restart: always.
Restart ==
  /\ ~running
  /\ running' = TRUE
  /\ sinceCheck' = 0
  /\ failures' = 0
  /\ sinceGood' = 0
  /\ sinceNotice' = Cooldown
  /\ told' = FALSE
  /\ unread' = FALSE
  /\ UNCHANGED <<file, rowAge, reading, rewritten>>

Check ==
  \/ CheckExits
  \/ CheckFindsNoFile
  \/ CheckOpensFile
  \/ CheckFindsOldRow
  \/ CheckReadFails
  \/ CheckFindsActivity

Next ==
  \/ Tick
  \/ Report
  \/ LoopReports
  \/ Check
  \/ Restart

Spec == Init /\ [][Next]_vars

\* The clock advances and the loop comes round: its other awaits are RPC
\* calls with a timeout and sleeps.  Nothing obliges compute to report.
FairSpec == Spec /\ WF_vars(Tick) /\ WF_vars(Check)

-----------------------------------------------------------------------------
(***************************************************************************)
(* Properties.                                                             *)
(***************************************************************************)

\* Types, and the bounds that make the clock finite: the count of failed
\* checks stops at the limit that ends the process.
TypeOK ==
  /\ running \in BOOLEAN
  /\ file \in {"missing", "row", "torn"}
  /\ rowAge \in 0..StuckAfter + 1
  /\ sinceCheck \in 0..Period
  /\ reading \in {"no", "active", "old", "torn"}
  /\ rewritten \in BOOLEAN
  /\ failures \in 0..MaxFailures
  /\ sinceGood \in 0..Grace
  /\ sinceNotice \in 0..Cooldown
  /\ told \in BOOLEAN
  /\ unread \in BOOLEAN

\* The process is never ended sooner than MaxFailures + 1 check periods after
\* it started or was last found active: one torn read, a write racing the
\* read or a late iteration of the loop does not shorten its grace.
ExitAfterGrace == ~running => sinceGood >= Grace

\* No process ends unannounced: after the last good check the operator was
\* told something before the exit, although a notice before that check and
\* those of a failing RPC share the cooldown.  Only a file that could not be
\* read is never reported.
ToldBeforeExit == ~running => told \/ unread

\* A node that reported once and then stops is ended, unless it reports
\* again, whatever the checks read in between.
StuckNodeExits ==
  running /\ file # "missing" /\ rowAge > StuckAfter
    ~> ~running \/ rowAge <= StuckAfter

\* What ExitAfterGrace rests on: each failure took a whole period.
FailuresTakeTime == sinceGood >= failures * Period + sinceCheck

ExitJustified == ~running => failures >= MaxFailures /\ sinceCheck = Period

\* What ToldBeforeExit rests on: a notice that holds others back is as old as
\* the last good check, and the last failure comes after its cooldown.
OldNotice == told \/ sinceNotice = Cooldown \/ sinceNotice >= sinceGood

ToldAtLimit == failures = MaxFailures => told \/ unread

DueWhileReading == reading # "no" => running /\ sinceCheck = Period /\ failures < MaxFailures

IInv ==
  /\ TypeOK
  /\ FailuresTakeTime
  /\ ExitJustified
  /\ DueWhileReading
  /\ OldNotice
  /\ ToldAtLimit
=============================================================================
