------------------------- MODULE EpochLedgerProofs -------------------------
(***************************************************************************)
(* EpochPipeline implements EpochLedger, for every set of epochs, project  *)
(* types and preloaders, with or without an operator to report to.         *)
(***************************************************************************)
EXTENDS EpochPipelineProofs

Due == {k \in Tasks : slotSelected[k[1]]}
Open == {k \in Tasks : ~Settled(k)}
Reported == {k \in Tasks : alerts[k] > 0}

\* Tasks leave the open set and never come back.
LEMMA OpenShrinks ==
  ASSUME Structure, [Next]_vars
  PROVE  Open' \subseteq Open /\ Due' = Due
  <1>1. Open' \subseteq Open
    BY SettledStays DEF Open, Settled
  <1>2. Due' = Due
    <2>1. CASE Tasks = {}
      BY <2>1 DEF Due
    <2>2. CASE Tasks # {}
      <3>1. PICK k \in Tasks : TRUE
        BY <2>2
      <3>2. slotSelected' = slotSelected
        BY <3>1, SettledStays
      <3> QED
        BY <3>2 DEF Due
    <2> QED
      BY <2>1, <2>2
  <1> QED
    BY <1>1, <1>2

\* What enqueueing rows does to the set of tasks reported.
LEMMA EnqueueReports ==
  ASSUME TypeOK, NEW rows \in SUBSET Tasks, Enqueue(rows)
  PROVE  Reported' = IF TelegramConfigured THEN Reported \cup rows ELSE Reported
  BY DEF TypeOK, Enqueue, Reported

\* A step that moves tasks out of the open set, counts some of them and
\* reports what it counts is an account of the ledger.
LEMMA AccountStep ==
  ASSUME Open' \subseteq Open, Due' = Due,
         NEW misses \in SUBSET (Due \cap (Open \ Open')),
         NEW successes \in SUBSET (Due \cap (Open \ Open')),
         misses \cap successes = {}, Cardinality(successes) <= 1,
         totalMissed' = totalMissed + Cardinality(misses),
         totalSuccessful' = totalSuccessful + Cardinality(successes),
         consecutiveMissed' =
           Cardinality(misses) + (IF successes = {} THEN consecutiveMissed ELSE 0),
         Reported' = IF TelegramConfigured THEN Reported \cup misses ELSE Reported,
         Open' # Open
  PROVE  Ledger!Next
  <1> DEFINE tasks == Open \ Open'
  <1>1. tasks \in SUBSET Open /\ tasks # {} /\ Open' = Open \ tasks
    OBVIOUS
  <1>2. misses \in SUBSET (tasks \cap Due) /\ successes \in SUBSET (tasks \cap Due)
    OBVIOUS
  <1>3. Ledger!Account(tasks, misses, successes)
    <2>1. /\ Ledger!Cardinality(misses) = Cardinality(misses)
          /\ Ledger!Cardinality(successes) = Cardinality(successes)
      BY DEF Ledger!Cardinality, Cardinality
    <2> QED
      BY <1>1, <2>1 DEF Ledger!Account, Ledger!Report, Open, Due, Reported
  <1> HIDE DEF tasks
  <1> QED
    BY <1>1, <1>2, <1>3 DEF Ledger!Next, Open, Due

\* A step that counts and reports nothing settles tasks without an account,
\* or does not show in the ledger at all.
LEMMA SilentStep ==
  ASSUME TypeOK, Open' \subseteq Open, Due' = Due,
         UNCHANGED <<totalMissed, consecutiveMissed, totalSuccessful, alerts>>
  PROVE  [Ledger!Next]_(Ledger!ledger)
  <1>1. Reported' = Reported
    BY DEF Reported
  <1>2. CASE Open' = Open
    BY <1>1, <1>2 DEF Ledger!ledger, Open, Due, Reported
  <1>3. CASE Open' # Open
    <2>1. Cardinality({}) = 0
      BY FS_EmptySet
    <2>2. totalMissed \in Nat /\ consecutiveMissed \in Nat /\ totalSuccessful \in Nat
      BY DEF TypeOK
    <2>3. {} \in SUBSET (Due \cap (Open \ Open'))
      OBVIOUS
    <2> QED
      BY <1>1, <1>3, <2>1, <2>2, <2>3, AccountStep
  <1> QED
    BY <1>2, <1>3

\* The rows a task lets go, and the task itself, are open before the step
\* that ends the task and settled after it.
LEMMA EndSettles ==
  ASSUME Structure, [Next]_vars, NEW e \in Epochs, NEW p \in Projects, Active(e, p),
         NEW end \in {"ok", "failed"}, task' = [task EXCEPT ![<<e, p>>] = end],
         Reconcile(e), SelectedRow(e)
  PROVE  /\ Rows(e) \subseteq Due \cap (Open \ Open')
         /\ <<e, p>> \in Due \cap (Open \ Open')
         /\ <<e, p>> \notin Rows(e)
  <1>0. TypeOK
    BY DEF Structure
  <1>1. slotSelected[e] /\ deferred'[e] = {}
    BY <1>0, SelectedRowTrue DEF Reconcile, RowsKept, SelectedRow, TypeOK
  <1>2. \A q \in deferred[e] : q \in Projects /\ task[<<e, q>>] = "skipped"
    BY <1>0 DEF Structure, DeferredSkipped, TypeOK
  <1>3. Rows(e) \subseteq Due \cap (Open \ Open')
    <2> SUFFICES ASSUME NEW q \in deferred[e]
                 PROVE  <<e, q>> \in Due \cap (Open \ Open')
      BY DEF Rows
    <2>1. <<e, q>> \in Tasks /\ <<e, q>> # <<e, p>>
      BY <1>2 DEF Active, Tasks
    <2>2. task'[<<e, q>>] = "skipped"
      BY <1>0, <1>2, <2>1 DEF TypeOK
    <2> QED
      BY <1>1, <1>2, <2>1, <2>2 DEF Due, Open, Settled, MissSettled
  <1>4. <<e, p>> \in Due \cap (Open \ Open')
    BY <1>0, <1>1 DEF Due, Open, Settled, MissSettled, Active, Tasks, TypeOK
  <1>5. <<e, p>> \notin Rows(e)
    BY <1>2 DEF Rows, Active
  <1> QED
    BY <1>3, <1>4, <1>5

\* A failing task: its miss and the rows it lets go, counted and reported.
LEMMA FailStep ==
  ASSUME Structure, [Next]_vars, NEW e \in Epochs, NEW p \in Projects,
         Active(e, p), Fail(e, p)
  PROVE  [Ledger!Next]_(Ledger!ledger)
  <1>0. TypeOK /\ Open' \subseteq Open /\ Due' = Due
    BY OpenShrinks DEF Structure
  <1>1. CASE ~SelectedRow(e)
    BY <1>0, <1>1, SilentStep DEF Fail, counters
  <1>2. CASE SelectedRow(e)
    <2> DEFINE misses == Rows(e) \cup {<<e, p>>}
    <2>1. misses \in SUBSET (Due \cap (Open \ Open')) /\ <<e, p>> \notin Rows(e)
      BY <1>2, EndSettles DEF Fail
    <2>2. Cardinality(misses) = 1 + Cardinality(deferred[e])
      <3>1. /\ IsFiniteSet(Rows(e)) /\ Cardinality(Rows(e)) = Cardinality(deferred[e])
            /\ Cardinality(deferred[e]) \in Nat
        BY <1>0, RowsFinite, DeferredFinite
      <3>2. Cardinality(Rows(e) \cup {<<e, p>>}) = Cardinality(Rows(e)) + 1
        BY <2>1, <3>1, FS_AddElement
      <3> QED
        BY <3>1, <3>2
    <2>3. misses \subseteq Tasks
      BY <2>1 DEF Due
    <2>4. Reported' = IF TelegramConfigured THEN Reported \cup misses ELSE Reported
      <3>1. Enqueue({<<e, p>>} \cup Rows(e)) /\ {<<e, p>>} \cup Rows(e) = misses
        BY <1>2 DEF Fail
      <3> HIDE DEF misses
      <3> QED
        BY <1>0, <2>3, <3>1, EnqueueReports
    <2>5. /\ totalMissed' = totalMissed + Cardinality(misses)
          /\ consecutiveMissed' = Cardinality(misses) + consecutiveMissed
          /\ totalSuccessful' = totalSuccessful
      <3>1. Cardinality(deferred[e]) \in Nat
            /\ totalMissed \in Nat /\ consecutiveMissed \in Nat
        BY <1>0, DeferredFinite DEF TypeOK
      <3>2. /\ totalMissed' = totalMissed + 1 + Cardinality(deferred[e])
            /\ consecutiveMissed' = consecutiveMissed + 1 + Cardinality(deferred[e])
            /\ totalSuccessful' = totalSuccessful
        BY <1>2 DEF Fail
      <3> HIDE DEF misses
      <3> QED
        BY <2>2, <3>1, <3>2
    <2>6. Cardinality({}) = 0 /\ totalSuccessful \in Nat
      BY <1>0, FS_EmptySet DEF TypeOK
    <2>7. Open' # Open
      BY <2>1
    <2>8. {} \in SUBSET (Due \cap (Open \ Open')) /\ misses \cap {} = {}
      OBVIOUS
    <2>9. /\ totalSuccessful' = totalSuccessful + Cardinality({})
          /\ Cardinality({}) <= 1
      BY <2>5, <2>6
    <2>10. misses \in SUBSET (Due \cap (Open \ Open'))
      BY <2>1
    <2> HIDE DEF misses
    <2>11. consecutiveMissed' =
             Cardinality(misses) + (IF {} = {} THEN consecutiveMissed ELSE 0)
      BY <2>5
    <2> QED
      BY <1>0, <2>4, <2>5, <2>7, <2>8, <2>9, <2>10, <2>11, AccountStep
  <1> QED
    BY <1>1, <1>2

\* A succeeding task: one success, and the rows it lets go as a new streak.
LEMMA SucceedStep ==
  ASSUME Structure, [Next]_vars, NEW e \in Epochs, NEW p \in Projects,
         Active(e, p), Succeed(e, p)
  PROVE  [Ledger!Next]_(Ledger!ledger)
  <1>0. TypeOK /\ Open' \subseteq Open /\ Due' = Due
    BY OpenShrinks DEF Structure
  <1>1. CASE ~SelectedRow(e)
    BY <1>0, <1>1, SilentStep DEF Succeed, counters
  <1>2. CASE SelectedRow(e)
    <2>1. /\ Rows(e) \in SUBSET (Due \cap (Open \ Open'))
          /\ {<<e, p>>} \in SUBSET (Due \cap (Open \ Open'))
          /\ Rows(e) \cap {<<e, p>>} = {}
      BY <1>2, EndSettles DEF Succeed
    <2>2. Cardinality(Rows(e)) = Cardinality(deferred[e]) /\ Cardinality(deferred[e]) \in Nat
          /\ Cardinality({<<e, p>>}) = 1
      BY <1>0, RowsFinite, DeferredFinite, FS_Singleton
    <2>3. Rows(e) \in SUBSET Tasks
      BY <2>1 DEF Due
    <2>4. Reported' = IF TelegramConfigured THEN Reported \cup Rows(e) ELSE Reported
      BY <1>0, <1>2, <2>3, EnqueueReports DEF Succeed
    <2>5. /\ totalMissed' = totalMissed + Cardinality(Rows(e))
          /\ consecutiveMissed' = Cardinality(Rows(e))
          /\ totalSuccessful' = totalSuccessful + 1
      BY <1>2, <2>2 DEF Succeed
    <2>6. Open' # Open
      BY <2>1
    <2> DEFINE misses == Rows(e)
               successes == {<<e, p>>}
    <2>7. /\ misses \in SUBSET (Due \cap (Open \ Open'))
          /\ successes \in SUBSET (Due \cap (Open \ Open'))
          /\ misses \cap successes = {}
      BY <2>1
    <2>8. /\ totalMissed' = totalMissed + Cardinality(misses)
          /\ totalSuccessful' = totalSuccessful + Cardinality(successes)
          /\ Cardinality(successes) <= 1
          /\ consecutiveMissed' = Cardinality(misses)
               + (IF successes = {} THEN consecutiveMissed ELSE 0)
          /\ Reported' = IF TelegramConfigured THEN Reported \cup misses ELSE Reported
      <3>1. successes # {}
        OBVIOUS
      <3>2. Cardinality(misses) \in Nat /\ Cardinality(successes) = 1
        BY <2>2
      <3>3. /\ totalMissed' = totalMissed + Cardinality(misses)
            /\ consecutiveMissed' = Cardinality(misses)
            /\ totalSuccessful' = totalSuccessful + 1
            /\ Reported' = IF TelegramConfigured THEN Reported \cup misses ELSE Reported
        BY <2>4, <2>5
      <3> HIDE DEF misses, successes
      <3> QED
        BY <3>1, <3>2, <3>3
    <2> HIDE DEF misses, successes
    <2> QED
      BY <1>0, <2>6, <2>7, <2>8, AccountStep
  <1> QED
    BY <1>1, <1>2

\* Distribution: an epoch no project runs for is reported and settled, rows
\* of any other epoch stay open.
LEMMA DistributeStep ==
  ASSUME Structure, [Next]_vars, NEW e \in Epochs, PreloadersDone(e)
  PROVE  [Ledger!Next]_(Ledger!ledger)
  <1>0. TypeOK /\ Open' \subseteq Open /\ Due' = Due
    BY OpenShrinks DEF Structure
  <1>1. PICK failed \in SUBSET Preloaders :
          /\ Distribute(e, SkippedBy(failed))
          /\ \/ alerts' = alerts
             \/ /\ SkippedBy(failed) = Projects
                /\ deferred' = [deferred EXCEPT ![e] = {}]
                /\ Enqueue({e} \X (deferred[e] \cup SkippedBy(failed)))
    BY DEF PreloadersDone
  <1>2. UNCHANGED <<totalMissed, consecutiveMissed, totalSuccessful>>
    BY <1>1 DEF Distribute
  <1>3. CASE alerts' = alerts
    BY <1>0, <1>2, <1>3, SilentStep
  <1>4. CASE /\ SkippedBy(failed) = Projects
             /\ deferred' = [deferred EXCEPT ![e] = {}]
             /\ Enqueue({e} \X (deferred[e] \cup SkippedBy(failed)))
    <2>1. \A p \in Projects : task[<<e, p>>] = "idle"
      BY DEF PreloadersDone, Structure, IdleUntilDistributed
    <2>2. deferred[e] = {}
      BY <1>0, <2>1 DEF Structure, DeferredSkipped, TypeOK
    <2>3. Enqueue({e} \X Projects)
      BY <1>4, <2>2
    <2>4. {e} \X Projects \in SUBSET Tasks
      BY DEF Tasks
    <2>5. Reported' = IF TelegramConfigured THEN Reported \cup ({e} \X Projects) ELSE Reported
      BY <1>0, <2>3, <2>4, EnqueueReports
    <2>6. /\ task' = [k \in Tasks |-> IF k[1] # e THEN task[k] ELSE "skipped"]
          /\ deferred' = [deferred EXCEPT ![e] = {}]
      BY <1>1, <1>4 DEF Distribute, Tasks
    <2>7. {e} \X Projects \subseteq Open
      BY <2>1, <2>4 DEF Open, Settled, MissSettled
    <2>8. Open' = Open \ ({e} \X Projects)
      <3> SUFFICES ASSUME NEW k \in Tasks
                   PROVE  k \in Open' <=> k \in Open /\ k \notin {e} \X Projects
        BY DEF Open
      <3>1. k = <<k[1], k[2]>> /\ k[1] \in Epochs /\ k[2] \in Projects
        BY DEF Tasks
      <3>2. CASE k[1] = e
        <4>1. task'[k] = "skipped" /\ deferred'[k[1]] = {}
          BY <1>0, <2>6, <3>2 DEF TypeOK
        <4> QED
          BY <3>1, <3>2, <4>1 DEF Open, Settled, MissSettled
      <3>3. CASE k[1] # e
        <4>1. task'[k] = task[k] /\ deferred'[k[1]] = deferred[k[1]]
          BY <1>0, <2>6, <3>1, <3>3 DEF TypeOK
        <4> QED
          BY <3>1, <3>3, <4>1 DEF Open, Settled, MissSettled
      <3> QED
        BY <3>2, <3>3
    <2>9. CASE Projects = {}
      BY <1>0, <1>2, <2>5, <2>8, <2>9 DEF Ledger!ledger, Open, Due, Reported
    <2>10. CASE Projects # {}
      <3> DEFINE tasks == {e} \X Projects
      <3>1. tasks \in SUBSET Open /\ tasks # {}
        <4>1. PICK p \in Projects : TRUE
          BY <2>10
        <4>2. <<e, p>> \in tasks
          BY <4>1
        <4> QED
          BY <2>7, <4>2
      <3>2. Ledger!ReportOnly(tasks)
        BY <1>0, <1>2, <2>5, <2>8 DEF Ledger!ReportOnly, Ledger!Report, Open, Due, Reported
      <3> HIDE DEF tasks
      <3> QED
        BY <3>1, <3>2 DEF Ledger!Next, Open
    <2> QED
      BY <2>9, <2>10
  <1> QED
    BY <1>1, <1>3, <1>4

\* Every step of the pipeline is a step of the ledger, or none.
LEMMA LedgerStep == Structure /\ [Next]_vars => [Ledger!Next]_(Ledger!ledger)
  <1> SUFFICES ASSUME Structure, [Next]_vars PROVE [Ledger!Next]_(Ledger!ledger)
    OBVIOUS
  <1>0. TypeOK /\ Cases /\ Open' \subseteq Open /\ Due' = Due
    BY StepCases, OpenShrinks DEF Structure
  <1>1. ASSUME NEW e \in Epochs, StartEpoch(e) PROVE [Ledger!Next]_(Ledger!ledger)
    BY <1>0, <1>1, SilentStep DEF StartEpoch, counters
  <1>2. ASSUME NEW e \in Epochs, NEW p \in Projects,
               ReportSelection(e, p) \/ ComputeReturnsData(e, p)
        PROVE  [Ledger!Next]_(Ledger!ledger)
    BY <1>0, <1>2, SilentStep DEF ReportSelection, ComputeReturnsData, counters
  <1>3. CASE UNCHANGED vars
    BY <1>0, <1>3, SilentStep DEF vars, counters
  <1> QED
    BY <1>0, <1>1, <1>2, <1>3, DistributeStep, FailStep, SucceedStep DEF Cases

\* Nothing is settled, counted or reported initially.
LEMMA LedgerInit == Init => Ledger!Init
  BY DEF Init, Ledger!Init, Settled, MissSettled

\* The accounts of the snapshot worker implement the ledger: every task is
\* settled once, and counted and reported in that step or never.
THEOREM ImplementsLedger == Spec => LedgerSpec
  <1>1. IInv => Structure
    BY DEF IInv, Structure
  <1> QED
    BY <1>1, Invariant, LedgerInit, LedgerStep, PTL DEF Spec, LedgerSpec, Ledger!Spec

-----------------------------------------------------------------------------
(***************************************************************************)
(* The accounts taken together.                                            *)
(***************************************************************************)

\* The report adds up: misses, successes and the tasks of selected epochs that
\* are not settled yet are never more than the tasks there are, so that no task
\* shows up as both a miss and a success, nor before it ended.
BooksBalance ==
  totalMissed + totalSuccessful + Cardinality(Due \cap Open) <= Cardinality(Due)

\* Finite sets that have nothing in common add up.
LEMMA TwoDisjoint ==
  ASSUME NEW A, NEW B, IsFiniteSet(A), IsFiniteSet(B), A \cap B = {}
  PROVE  /\ IsFiniteSet(A \cup B)
         /\ Cardinality(A) \in Nat /\ Cardinality(B) \in Nat
         /\ Cardinality(A \cup B) = Cardinality(A) + Cardinality(B)
  <1>1. Cardinality(A) \in Nat /\ Cardinality(B) \in Nat
    BY FS_CardinalityType
  <1>2. Cardinality(A \cap B) = 0
    BY FS_EmptySet
  <1>3. /\ IsFiniteSet(A \cup B)
        /\ Cardinality(A \cup B) = Cardinality(A) + Cardinality(B) - Cardinality(A \cap B)
    BY FS_Union
  <1> QED
    BY <1>1, <1>2, <1>3

\* So do three of them, within a whole.
LEMMA ThreeDisjoint ==
  ASSUME NEW whole, IsFiniteSet(whole),
         NEW A \in SUBSET whole, NEW B \in SUBSET whole, NEW C \in SUBSET whole,
         A \cap B = {}, A \cap C = {}, B \cap C = {}
  PROVE  /\ Cardinality(A) + Cardinality(B) + Cardinality(C) <= Cardinality(whole)
         /\ Cardinality(A) \in Nat /\ Cardinality(B) \in Nat
         /\ Cardinality(C) \in Nat /\ Cardinality(whole) \in Nat
  <1>1. IsFiniteSet(A) /\ IsFiniteSet(B) /\ IsFiniteSet(C) /\ Cardinality(whole) \in Nat
    BY FS_Subset, FS_CardinalityType
  <1>2. (A \cup B) \cap C = {} /\ (A \cup B) \cup C \in SUBSET whole
    OBVIOUS
  <1>3. /\ IsFiniteSet(A \cup B)
        /\ Cardinality(A) \in Nat /\ Cardinality(B) \in Nat
        /\ Cardinality(A \cup B) = Cardinality(A) + Cardinality(B)
    BY <1>1, TwoDisjoint
  <1>4. /\ Cardinality(C) \in Nat
        /\ Cardinality((A \cup B) \cup C) = Cardinality(A \cup B) + Cardinality(C)
    BY <1>1, <1>2, <1>3, TwoDisjoint
  <1>5. Cardinality((A \cup B) \cup C) <= Cardinality(whole)
    BY <1>2, FS_Subset
  <1> QED
    BY <1>1, <1>3, <1>4, <1>5

\* Misses, successes and open tasks add up to no more than the tasks due.
THEOREM Balance == Spec => []BooksBalance
  <1>1. IInv => BooksBalance
    <2> SUFFICES ASSUME IInv PROVE BooksBalance
      OBVIOUS
    <2>1. IsFiniteSet(Due)
      <3>1. IsFiniteSet(Tasks)
        BY EpochsAssumption, ProjectsAssumption, FS_Product DEF Tasks
      <3>2. Due \in SUBSET Tasks
        BY DEF Due
      <3> QED
        BY <3>1, <3>2, FS_Subset
    <2>2. /\ JustifiedMisses \in SUBSET Due
          /\ JustifiedSuccesses \in SUBSET Due
          /\ Due \cap Open \in SUBSET Due
      BY DEF Due, JustifiedMisses, JustifiedSuccesses
    <2>3. /\ JustifiedMisses \cap JustifiedSuccesses = {}
          /\ JustifiedMisses \cap (Due \cap Open) = {}
          /\ JustifiedSuccesses \cap (Due \cap Open) = {}
      BY DEF JustifiedMisses, JustifiedSuccesses, Open, Settled, MissSettled
    <2>4. /\ Cardinality(JustifiedMisses) + Cardinality(JustifiedSuccesses)
               + Cardinality(Due \cap Open) <= Cardinality(Due)
          /\ Cardinality(JustifiedMisses) \in Nat /\ Cardinality(JustifiedSuccesses) \in Nat
          /\ Cardinality(Due \cap Open) \in Nat /\ Cardinality(Due) \in Nat
      BY <2>1, <2>2, <2>3, ThreeDisjoint
    <2>5. /\ totalMissed \in Nat /\ totalSuccessful \in Nat
          /\ totalMissed <= Cardinality(JustifiedMisses)
          /\ totalSuccessful <= Cardinality(JustifiedSuccesses)
      BY DEF IInv, TypeOK, CountersJustified
    <2> QED
      BY <2>4, <2>5 DEF BooksBalance
  <1> QED
    BY <1>1, Invariant, PTL

\* The streak the report shows is part of the total: a success ends it before
\* the misses of the same step are added to both.
StreakWithinTotal == consecutiveMissed <= totalMissed

\* No step adds more to the streak than to the total.
THEOREM Streak == Spec => []StreakWithinTotal
  <1>1. Init => StreakWithinTotal
    BY DEF Init, StreakWithinTotal
  <1>2. IInv /\ StreakWithinTotal /\ [Next]_vars => StreakWithinTotal'
    <2> SUFFICES ASSUME IInv, StreakWithinTotal, [Next]_vars
                 PROVE  consecutiveMissed' <= totalMissed'
      BY DEF StreakWithinTotal
    <2>0. /\ Cases /\ TypeOK
          /\ totalMissed \in Nat /\ consecutiveMissed \in Nat
          /\ consecutiveMissed <= totalMissed
      BY StepCases DEF IInv, TypeOK, StreakWithinTotal
    <2>1. ASSUME NEW e \in Epochs, NEW p \in Projects, Fail(e, p) \/ Succeed(e, p)
          PROVE  consecutiveMissed' <= totalMissed'
      <3>1. Cardinality(deferred[e]) \in Nat
        BY <2>0, DeferredFinite
      <3>2. CASE Fail(e, p)
        BY <2>0, <3>1, <3>2 DEF Fail, counters
      <3>3. CASE Succeed(e, p)
        BY <2>0, <3>1, <3>3 DEF Succeed, counters
      <3> QED
        BY <2>1, <3>2, <3>3
    <2>2. ASSUME NEW e \in Epochs, StartEpoch(e) \/ PreloadersDone(e)
          PROVE  consecutiveMissed' <= totalMissed'
      BY <2>0, <2>2 DEF StartEpoch, PreloadersDone, Distribute, counters
    <2>3. ASSUME NEW e \in Epochs, NEW p \in Projects,
                 ReportSelection(e, p) \/ ComputeReturnsData(e, p)
          PROVE  consecutiveMissed' <= totalMissed'
      BY <2>0, <2>3 DEF ReportSelection, ComputeReturnsData, counters
    <2>4. CASE UNCHANGED vars
      BY <2>0, <2>4 DEF vars, counters
    <2> QED
      BY <2>0, <2>1, <2>2, <2>3, <2>4 DEF Cases
  <1> QED
    BY <1>1, <1>2, Invariant, PTL DEF Spec
=============================================================================
