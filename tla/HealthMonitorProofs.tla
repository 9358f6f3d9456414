------------------------ MODULE HealthMonitorProofs ------------------------
(***************************************************************************)
(* Theorems about HealthMonitor for every pair of thresholds and every     *)
(* limit on the failures.                                                  *)
(***************************************************************************)
EXTENDS HealthMonitor, TLAPS

\* The two halves of the invariant: when checks fail, and who is told.
Times == TypeOK /\ FailuresTakeTime /\ ExitJustified /\ DueWhileReading

Notices == OldNotice /\ ToldAtLimit

\* One more failure is one more period, and failures below the limit leave
\* room for it.
LEMMA Periods ==
  /\ Period \in Nat \ {0} /\ Grace \in Nat /\ Cooldown \in Nat
  /\ Grace = (MaxFailures + 1) * Period
  /\ \A f \in Nat : f * Period \in Nat /\ (f + 1) * Period = f * Period + Period
  /\ \A f \in 0..MaxFailures : f * Period + Period <= Grace
  <1>1. Period \in Nat \ {0}
    BY ThresholdsAssumption DEF Period
  <1>2. MaxFailures \in Nat
    BY ThresholdsAssumption
  <1>3. Grace = (MaxFailures + 1) * Period
    BY DEF Grace
  <1>4. \A f, p \in Nat : f * p \in Nat /\ (f + 1) * p = f * p + p
    OBVIOUS
  <1>5. \A f, g, p \in Nat : f <= g => f * p <= g * p
    OBVIOUS
  <1>6. ASSUME NEW f \in 0..MaxFailures PROVE f * Period + Period <= Grace
    <2>1. f \in Nat /\ f + 1 \in Nat /\ MaxFailures + 1 \in Nat /\ f + 1 <= MaxFailures + 1
      BY <1>2
    <2>2. (f + 1) * Period <= (MaxFailures + 1) * Period
      BY <1>1, <1>5, <2>1
    <2>3. (f + 1) * Period = f * Period + Period
      BY <1>1, <1>4, <2>1
    <2> QED
      BY <1>3, <2>2, <2>3
  <1>7. MaxFailures + 1 \in Nat
    BY <1>2
  <1>8. Grace \in Nat
    BY <1>1, <1>3, <1>4, <1>7
  <1>9. Cooldown \in Nat
    BY <1>1, <1>2, <1>4, CooldownAssumption
  <1> QED
    BY <1>1, <1>3, <1>4, <1>6, <1>8, <1>9

\* The invariant holds initially.
LEMMA InvInit == Init => IInv
  <1>1. Period \in Nat /\ Grace \in Nat /\ 0 * Period = 0 /\ Cooldown \in 0..Cooldown
    BY Periods
  <1>2. ASSUME Init PROVE TypeOK
    <2>1. /\ 0 \in 0..Period /\ 0 \in 0..MaxFailures /\ 0 \in 0..Grace
          /\ Cooldown \in 0..Cooldown
      BY <1>1, ThresholdsAssumption
    <2> QED
      BY <1>2, <2>1 DEF Init, TypeOK
  <1>3. Init => FailuresTakeTime /\ ExitJustified /\ DueWhileReading
    BY <1>1 DEF Init, FailuresTakeTime, ExitJustified, DueWhileReading
  <1>4. Init => OldNotice /\ ToldAtLimit
    BY ThresholdsAssumption DEF Init, OldNotice, ToldAtLimit
  <1> QED
    BY <1>2, <1>3, <1>4 DEF IInv

\* The sender keeps the types, whether it sends or not.
LEMMA NotifyTypes ==
  TypeOK /\ Notify => sinceNotice' \in 0..Cooldown /\ told' \in BOOLEAN
  <1> SUFFICES ASSUME TypeOK, Notify PROVE sinceNotice' \in 0..Cooldown /\ told' \in BOOLEAN
    OBVIOUS
  <1>1. Cooldown \in Nat
    BY Periods
  <1>2. CASE sinceNotice >= Cooldown
    BY <1>1, <1>2 DEF Notify
  <1>3. CASE ~(sinceNotice >= Cooldown)
    BY <1>3 DEF Notify, TypeOK
  <1> QED
    BY <1>2, <1>3

\* Every step keeps what it says of times.
LEMMA TimesNext == Times /\ [Next]_vars => Times'
  <1> SUFFICES ASSUME Times, [Next]_vars PROVE Times'
    OBVIOUS
  <1>0. TypeOK /\ failures \in Nat /\ failures * Period \in Nat
    BY Periods, ThresholdsAssumption DEF Times, TypeOK
  <1>00. /\ Period \in Nat \ {0} /\ Grace \in Nat /\ 0 * Period = 0
         /\ MaxFailures \in Nat \ {0} /\ StuckAfter \in Nat /\ Cooldown \in Nat
    BY Periods, ThresholdsAssumption
  <1>1. CASE Tick
    <2>1. failures' = failures /\ running' = running /\ reading' = reading
      BY <1>1 DEF Tick
    <2>2. TypeOK'
      BY <1>0, <1>1, Periods, ThresholdsAssumption DEF TypeOK, Tick, Older
    <2>3. failures * Period + Period <= Grace
      BY <1>0, Periods DEF TypeOK
    <2>4. sinceGood \in Nat /\ sinceCheck \in Nat /\ sinceCheck <= Period
      BY <1>0, Periods DEF TypeOK
    <2>5. sinceGood' >= failures * Period + sinceCheck'
      BY <1>0, <1>1, <2>3, <2>4, Periods DEF Times, FailuresTakeTime, Tick, Older
    <2>6. ExitJustified' /\ DueWhileReading'
      BY <1>1, <2>4, Periods DEF Times, ExitJustified, DueWhileReading, Tick, Older
    <2> QED
      BY <2>1, <2>2, <2>5, <2>6 DEF Times, FailuresTakeTime
  <1>2. CASE Report
    BY <1>0, <1>2, ThresholdsAssumption
    DEF Times, TypeOK, FailuresTakeTime, ExitJustified, DueWhileReading, Report, notices
  <1>3. CASE CheckExits
    <2>1. sinceCheck = Period
      BY <1>0, <1>3, ThresholdsAssumption DEF TypeOK, CheckExits, Due, Period
    <2> QED
      BY <1>3, <2>1
      DEF Times, TypeOK, FailuresTakeTime, ExitJustified, DueWhileReading,
          CheckExits, Due, TooManyFailures, notices
  <1>4. CASE CheckFindsNoFile
    <2>1. TypeOK' /\ ExitJustified' /\ DueWhileReading'
      BY <1>4, Periods
      DEF Times, TypeOK, ExitJustified, DueWhileReading, CheckFindsNoFile, Due, notices
    <2>2. sinceGood \in Nat /\ sinceCheck \in Nat
      BY <1>0, Periods DEF TypeOK
    <2>3. sinceGood >= failures * Period
      BY <1>0, <2>2 DEF Times, FailuresTakeTime
    <2> QED
      BY <1>0, <1>4, <2>1, <2>3 DEF Times, FailuresTakeTime, CheckFindsNoFile
  <1>5. CASE CheckOpensFile
    <2>1. sinceCheck = Period
      BY <1>0, <1>5, ThresholdsAssumption DEF TypeOK, CheckOpensFile, Due, Period
    <2>2. failures < MaxFailures
      BY <1>0, <1>5, ThresholdsAssumption DEF CheckOpensFile, TooManyFailures
    <2> QED
      BY <1>5, <2>1, <2>2
      DEF Times, TypeOK, FailuresTakeTime, ExitJustified, DueWhileReading, CheckOpensFile, Due, Verdict,
          notices
  <1>6. CASE CheckFindsOldRow \/ CheckReadFails
    <2>1. /\ running /\ sinceCheck = Period /\ failures < MaxFailures
          /\ failures' = failures + 1 /\ sinceCheck' = 0 /\ sinceGood' = sinceGood
          /\ reading' = "no"
          /\ UNCHANGED <<running, file, rowAge, rewritten>>
      BY <1>6 DEF Times, DueWhileReading, CheckFindsOldRow, CheckReadFails, CheckDone
    <2>2. TypeOK'
      <3>1. failures' \in 0..MaxFailures /\ sinceCheck' \in 0..Period
        BY <1>0, <1>00, <2>1 DEF TypeOK
      <3>2. sinceNotice' \in 0..Cooldown /\ told' \in BOOLEAN /\ unread' \in BOOLEAN
        <4>1. CASE CheckFindsOldRow
          BY <1>0, <4>1, NotifyTypes DEF CheckFindsOldRow, TypeOK
        <4>2. CASE CheckReadFails
          BY <1>0, <4>2 DEF CheckReadFails, TypeOK
        <4> QED
          BY <1>6, <4>1, <4>2
      <3> QED
        BY <1>0, <2>1, <3>1, <3>2 DEF TypeOK
    <2>3. failures' * Period = failures * Period + Period
      BY <1>0, <2>1, Periods
    <2>4. sinceGood >= failures * Period + Period
      BY <2>1 DEF Times, FailuresTakeTime
    <2>5. FailuresTakeTime'
      BY <1>0, <2>1, <2>3, <2>4, Periods DEF FailuresTakeTime
    <2> QED
      BY <2>1, <2>2, <2>5 DEF Times, ExitJustified, DueWhileReading
  <1>7. CASE CheckFindsActivity \/ Restart
    <2>1. /\ failures' = 0 /\ sinceCheck' = 0 /\ sinceGood' = 0
          /\ running' = TRUE /\ reading' = "no"
          /\ UNCHANGED <<file, rowAge, rewritten>>
          /\ sinceNotice' \in 0..Cooldown /\ told' \in BOOLEAN /\ unread' \in BOOLEAN
      <3>1. CASE CheckFindsActivity
        BY <1>0, <3>1
        DEF Times, DueWhileReading, TypeOK, CheckFindsActivity, CheckDone
      <3>2. CASE Restart
        <4>1. Cooldown \in 0..Cooldown
          BY <1>00
        <4> QED
          BY <1>0, <3>2, <4>1 DEF Times, DueWhileReading, TypeOK, Restart
      <3> QED
        BY <1>7, <3>1, <3>2
    <2>2. TypeOK'
      <3>1. 0 \in 0..MaxFailures /\ 0 \in 0..Period /\ 0 \in 0..Grace
        BY <1>00
      <3> QED
        BY <1>0, <2>1, <3>1 DEF TypeOK
    <2>3. FailuresTakeTime'
      BY <1>00, <2>1 DEF FailuresTakeTime
    <2> QED
      BY <2>1, <2>2, <2>3 DEF Times, ExitJustified, DueWhileReading
  <1>8. CASE LoopReports
    <2>1. sinceNotice' \in 0..Cooldown /\ told' \in BOOLEAN
      BY <1>0, <1>8, NotifyTypes DEF LoopReports
    <2>2. UNCHANGED <<running, file, rowAge, sinceCheck, reading, rewritten, failures,
                      sinceGood, unread>>
      BY <1>8 DEF LoopReports
    <2> QED
      BY <1>0, <2>1, <2>2
      DEF Times, TypeOK, FailuresTakeTime, ExitJustified, DueWhileReading
  <1>9. CASE UNCHANGED vars
    BY <1>9
    DEF Times, TypeOK, FailuresTakeTime, ExitJustified, DueWhileReading, vars, notices
  <1> QED
    BY <1>1, <1>2, <1>3, <1>4, <1>5, <1>6, <1>7, <1>8, <1>9 DEF Next, Check

\* Every step keeps what it says of notices.  The case that matters is the
\* last failure: the notice that would hold its own back is as old as the last
\* good check, and the failures since took longer than the cooldown.
LEMMA NoticesNext == IInv /\ [Next]_vars => Notices'
  <1> SUFFICES ASSUME IInv, [Next]_vars PROVE Notices'
    OBVIOUS
  <1>0. /\ TypeOK /\ Cooldown \in Nat /\ Grace \in Nat /\ MaxFailures \in Nat \ {0}
        /\ sinceNotice \in 0..Cooldown /\ sinceGood \in 0..Grace
        /\ failures \in 0..MaxFailures
    BY Periods, ThresholdsAssumption DEF IInv, TypeOK
  <1>1. CASE Tick
    BY <1>0, <1>1 DEF IInv, Notices, OldNotice, ToldAtLimit, Tick, Older
  <1>2. CASE Report \/ CheckExits \/ CheckFindsNoFile \/ CheckOpensFile \/ UNCHANGED vars
    BY <1>2
    DEF IInv, Notices, OldNotice, ToldAtLimit, Report, CheckExits, CheckFindsNoFile,
        CheckOpensFile, vars, notices
  <1>3. CASE LoopReports
    BY <1>3 DEF IInv, Notices, OldNotice, ToldAtLimit, LoopReports, Notify
  <1>4. CASE CheckFindsOldRow
    <2>1. failures' = failures + 1 /\ unread' = unread /\ sinceGood' = sinceGood /\ Notify
      BY <1>4 DEF CheckFindsOldRow
    <2>2. OldNotice'
      BY <2>1 DEF IInv, OldNotice, Notify
    <2>3. ASSUME failures' = MaxFailures PROVE told'
      <3>1. sinceCheck = Period
        BY <1>4 DEF IInv, DueWhileReading, CheckFindsOldRow, CheckDone
      <3>2. failures \in Nat /\ failures + 1 = MaxFailures
        BY <1>0, <2>1, <2>3
      <3>3. failures * Period + Period = MaxFailures * Period
        BY <3>2, Periods
      <3>4. sinceGood >= MaxFailures * Period
        BY <3>1, <3>3 DEF IInv, FailuresTakeTime
      <3>5. MaxFailures * Period \in Nat /\ Cooldown <= MaxFailures * Period
        BY <1>0, Periods, CooldownAssumption
      <3>6. told \/ sinceNotice >= Cooldown
        BY <1>0, <3>4, <3>5 DEF IInv, OldNotice
      <3> QED
        BY <2>1, <3>6 DEF Notify
    <2> QED
      BY <2>2, <2>3 DEF Notices, ToldAtLimit
  <1>5. CASE CheckReadFails
    BY <1>5 DEF IInv, Notices, OldNotice, ToldAtLimit, CheckReadFails
  <1>6. CASE CheckFindsActivity \/ Restart
    BY <1>0, <1>6
    DEF IInv, Notices, OldNotice, ToldAtLimit, CheckFindsActivity, Restart
  <1> QED
    BY <1>1, <1>2, <1>3, <1>4, <1>5, <1>6 DEF Next, Check

\* Every step keeps the invariant.
LEMMA InvNext == IInv /\ [Next]_vars => IInv'
  BY TimesNext, NoticesNext DEF IInv, Times, Notices

\* Each failure on the count took a whole check period.
THEOREM Invariant == Spec => []IInv
  BY InvInit, InvNext, PTL DEF Spec

\* Every variable keeps its type; the failure count stops at its limit.
THEOREM TypeCorrect == Spec => []TypeOK
  <1>1. IInv => TypeOK
    BY DEF IInv
  <1> QED
    BY <1>1, Invariant, PTL

\* No process is ended before its grace is over.
THEOREM GraceKept == Spec => []ExitAfterGrace
  <1>1. IInv => ExitAfterGrace
    <2> SUFFICES ASSUME IInv, ~running PROVE sinceGood >= Grace
      BY DEF ExitAfterGrace
    <2>1. failures = MaxFailures /\ sinceCheck = Period
      BY ThresholdsAssumption DEF IInv, TypeOK, ExitJustified
    <2>2. sinceGood \in Nat /\ MaxFailures \in Nat
      BY Periods, ThresholdsAssumption DEF IInv, TypeOK
    <2>3. sinceGood >= MaxFailures * Period + Period
      BY <2>1 DEF IInv, FailuresTakeTime
    <2>4. Grace = MaxFailures * Period + Period
      BY <2>2, Periods
    <2> QED
      BY <2>3, <2>4
  <1> QED
    BY <1>1, Invariant, PTL

\* No process ends unannounced, for any cooldown that the failures outlast.
THEOREM Announced == Spec => []ToldBeforeExit
  <1>1. IInv => ToldBeforeExit
    BY ThresholdsAssumption
    DEF IInv, TypeOK, ExitJustified, ToldAtLimit, ToldBeforeExit
  <1> QED
    BY <1>1, Invariant, PTL

-----------------------------------------------------------------------------
(***************************************************************************)
(* What keeps a node that stopped reporting on its way out.                *)
(***************************************************************************)

\* A check judges a row active only while the row is young: it was so when
\* the check opened the file, and a report that rewrote it since made it new.
ReadingFresh ==
  ReadActive /\ reading # "no" => rowAge <= StuckAfter

\* While a process lives and the row stays too old, no check and no report
\* takes a failure off the count, and every check that ends adds one: after
\* MaxFailures such checks the next one ends the process.
StaleChecksCount ==
  [][running /\ running' /\ rowAge > StuckAfter /\ rowAge' > StuckAfter
       => /\ failures' >= failures
          /\ reading # "no" /\ reading' = "no" => failures' = failures + 1]_vars

\* Every step keeps a reading as fresh as it claims.
LEMMA ReadingNext == TypeOK /\ ReadingFresh /\ [Next]_vars => ReadingFresh'
  <1> SUFFICES ASSUME TypeOK, ReadingFresh, [Next]_vars PROVE ReadingFresh'
    OBVIOUS
  <1>0. StuckAfter \in Nat /\ rowAge \in Nat
    BY ThresholdsAssumption DEF TypeOK
  <1>1. CASE Report
    BY <1>0, <1>1 DEF Report, ReadingFresh, ReadActive
  <1>2. CASE CheckOpensFile
    BY <1>2 DEF CheckOpensFile, Verdict, ReadingFresh, ReadActive
  <1>3. CASE CheckFindsOldRow \/ CheckReadFails \/ CheckFindsActivity
    BY <1>3 DEF CheckFindsOldRow, CheckReadFails, CheckFindsActivity, CheckDone, ReadingFresh
  <1>4. CASE Tick
    BY <1>4 DEF Tick, ReadingFresh
  <1>5. CASE LoopReports \/ CheckExits \/ CheckFindsNoFile \/ Restart \/ UNCHANGED vars
    BY <1>5 DEF LoopReports, CheckExits, CheckFindsNoFile, Restart, vars, notices,
                ReadingFresh, ReadActive
  <1> QED
    BY <1>1, <1>2, <1>3, <1>4, <1>5 DEF Next, Check

\* A stale row is never forgiven: the safety half of StuckNodeExits.
THEOREM StaleCounted == Spec => StaleChecksCount
  <1>1. Init => ReadingFresh
    BY DEF Init, ReadingFresh
  <1>2. TypeOK /\ ReadingFresh /\ [Next]_vars =>
          [running /\ running' /\ rowAge > StuckAfter /\ rowAge' > StuckAfter
             => /\ failures' >= failures
                /\ reading # "no" /\ reading' = "no" => failures' = failures + 1]_vars
    <2> SUFFICES ASSUME TypeOK, ReadingFresh, Next, running, running',
                        rowAge > StuckAfter, rowAge' > StuckAfter
                 PROVE  /\ failures' >= failures
                        /\ reading # "no" /\ reading' = "no" => failures' = failures + 1
      OBVIOUS
    <2>0. failures \in Nat /\ StuckAfter \in Nat /\ rowAge \in Nat
      BY ThresholdsAssumption DEF TypeOK
    <2>1. CASE CheckFindsOldRow \/ CheckReadFails
      BY <2>0, <2>1 DEF CheckFindsOldRow, CheckReadFails
    <2>2. CASE CheckFindsActivity
      BY <2>0, <2>2 DEF CheckFindsActivity, CheckDone, ReadingFresh
    <2>3. CASE Tick \/ Report \/ LoopReports \/ CheckExits \/ CheckFindsNoFile \/ CheckOpensFile
      <3>1. failures' = failures /\ (reading' = reading \/ reading = "no")
        BY <2>3 DEF Tick, Report, LoopReports, CheckExits, CheckFindsNoFile, CheckOpensFile, Due
      <3> QED
        BY <2>0, <3>1
    <2>4. CASE Restart
      BY <2>4 DEF Restart
    <2> QED
      BY <2>1, <2>2, <2>3, <2>4 DEF Next, Check
  <1>3. TypeOK /\ ReadingFresh /\ [Next]_vars => ReadingFresh'
    BY ReadingNext
  <1> QED
    BY <1>1, <1>2, <1>3, TypeCorrect, PTL DEF Spec, StaleChecksCount
=============================================================================
