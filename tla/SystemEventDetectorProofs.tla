---------------------- MODULE SystemEventDetectorProofs ----------------------
(***************************************************************************)
(* Theorems about SystemEventDetector for every chain of events, catch-up  *)
(* limit and lag of the RPC nodes, with and without crashes.               *)
(***************************************************************************)
EXTENDS SystemEventDetector, FiniteSetTheorems, TLAPS

\* A set of days up to a block is finite, and so is each of its subsets.
LEMMA DaysFinite ==
  ASSUME NEW h \in Nat
  PROVE  /\ IsFiniteSet(DaysUpTo(h))
         /\ Cardinality(DaysUpTo(h)) \in Nat
         /\ \A S \in SUBSET DaysUpTo(h) : IsFiniteSet(S) /\ Cardinality(S) \in Nat
  <1>1. IsFiniteSet(1..h)
    BY FS_Interval
  <1>2. DaysUpTo(h) \in SUBSET (1..h)
    BY DEF DaysUpTo
  <1>3. ASSUME NEW S \in SUBSET (1..h) PROVE IsFiniteSet(S) /\ Cardinality(S) \in Nat
    BY <1>1, FS_Subset, FS_CardinalityType
  <1> QED
    BY <1>2, <1>3

\* The days the process knows of are finitely many.
LEMMA DaysKnownFinite ==
  ASSUME TypeOK
  PROVE  /\ IsFiniteSet(DaysKnown)
         /\ Cardinality(DaysKnown) \in Nat
  <1>1. Len(chain) \in Nat /\ DaysKnown \in SUBSET DaysUpTo(Len(chain))
    BY DEF TypeOK, DaysKnown
  <1> QED
    BY <1>1, DaysFinite

\* The invariant holds initially.
LEMMA InvInit == Init => IInv
  <1> SUFFICES ASSUME Init PROVE IInv
    OBVIOUS
  <1>0. PICK k \in Kinds : chain = <<k>>
    BY DEF Init
  <1>1. chain \in Seq(Kinds) /\ Len(chain) = 1
    BY <1>0
  <1>2. TypeOK
    BY <1>1, BlocksAssumption DEF Init, TypeOK, Unset
  <1>3. DispatchedOnce /\ NothingLost /\ FreshUntilPoll /\ SleepingFetched /\ DayCovers
    BY DEF Init, DispatchedOnce, NothingLost, FreshUntilPoll, SleepingFetched, DayCovers, Unset
  <1> QED
    BY <1>2, <1>3 DEF IInv

\* A block that is mined changes nothing the process looked at.
LEMMA MineInv ==
  ASSUME IInv, Mine
  PROVE  IInv'
  <1>0. TypeOK /\ Len(chain) \in Nat
    BY DEF IInv, TypeOK
  <1>1. PICK k \in Kinds : chain' = Append(chain, k)
    BY DEF Mine
  <1>2. /\ chain' \in Seq(Kinds)
        /\ Len(chain') = Len(chain) + 1
        /\ \A b \in 1..Len(chain) : chain'[b] = chain[b]
    BY <1>0, <1>1 DEF TypeOK
  <1>3. TypeOK'
    BY <1>0, <1>2, BlocksAssumption DEF TypeOK, Mine, local
  <1>4. DispatchedOnce' /\ FreshUntilPoll' /\ SleepingFetched'
    BY DEF IInv, Mine, local, DispatchedOnce, FreshUntilPoll, SleepingFetched
  <1>5. NothingLost'
    BY <1>0, <1>2 DEF IInv, TypeOK, Mine, local, NothingLost
  <1>6. DaysKnown' = DaysKnown
    BY <1>0, <1>2 DEF TypeOK, Mine, local, DaysKnown, DaysUpTo
  <1>7. DayCovers'
    BY <1>6 DEF IInv, Mine, local, DayCovers
  <1> QED
    BY <1>3, <1>4, <1>5, <1>7 DEF IInv

\* What dayCounter returns covers every day it includes.
LEMMA ReadDayInv ==
  ASSUME IInv, ReadDay
  PROVE  IInv'
  <1>0. TypeOK /\ lastProcessed = 0
    BY DEF IInv, TypeOK, ReadDay, FreshUntilPoll
  <1>1. PICK h \in Heads : day' = Cardinality(DaysUpTo(h)) /\ counted' = h
    BY DEF ReadDay
  <1>2. h \in 1..Len(chain) /\ h \in Nat
    BY <1>0 DEF Heads, TypeOK
  <1>3. day' \in Nat
    BY <1>1, <1>2, DaysFinite
  <1>4. TypeOK'
    BY <1>0, <1>1, <1>2, <1>3 DEF TypeOK, ReadDay
  <1>5. DispatchedOnce' /\ NothingLost' /\ SleepingFetched'
    BY DEF IInv, ReadDay, DispatchedOnce, NothingLost, SleepingFetched
  <1>6. FreshUntilPoll'
    BY DEF IInv, ReadDay, FreshUntilPoll
  <1>7. DaysKnown' = DaysUpTo(h)
    BY <1>0, <1>1, <1>2 DEF TypeOK, ReadDay, DaysKnown, DaysUpTo
  <1>8. DayCovers'
    BY <1>1, <1>3, <1>7 DEF DayCovers
  <1> QED
    BY <1>4, <1>5, <1>6, <1>8 DEF IInv

\* Moving the mark forward skips exactly the blocks between.
LEMMA PollInv ==
  ASSUME IInv, NEW head \in Heads, Poll(head)
  PROVE  IInv'
  <1>0. TypeOK /\ FreshUntilPoll /\ head \in 1..Len(chain) /\ Len(chain) \in Nat
    BY DEF IInv, TypeOK, Heads
  <1> DEFINE last == IF lastProcessed = 0 THEN FirstMark(head) ELSE lastProcessed
             start == CatchUp(last, head)
  <1>1. /\ pc = "poll" /\ last < head
        /\ pc' = "fetch" /\ current' = head /\ lastProcessed' = start
        /\ skipped' = skipped \cup (lastProcessed + 1 .. start)
        /\ UNCHANGED <<chain, handled, sleeping, day, counted>>
    BY <1>0 DEF Poll, UpToDate, TypeOK, FirstMark
  <1>2. last \in Nat /\ lastProcessed \in Nat /\ last >= lastProcessed
    BY <1>0 DEF TypeOK, FirstMark
  <1>3. start \in Nat /\ start >= lastProcessed /\ start < head /\ head - start <= MaxGap
    BY <1>0, <1>1, <1>2, BlocksAssumption DEF CatchUp
  <1> HIDE DEF last, start
  <1>4. TypeOK'
    <2>1. skipped' \subseteq 1..lastProcessed'
      <3>1. skipped \subseteq 1..lastProcessed
        BY <1>0 DEF TypeOK
      <3> QED
        BY <1>1, <1>2, <1>3, <3>1
    <2>2. current' - lastProcessed' \in 1..MaxGap
      BY <1>0, <1>1, <1>3, BlocksAssumption
    <2> QED
      BY <1>0, <1>1, <1>3, <2>1, <2>2 DEF TypeOK
  <1>5. 1..lastProcessed' \ skipped' = 1..lastProcessed \ skipped
    BY <1>0, <1>1, <1>2, <1>3 DEF TypeOK
  <1>6. DispatchedOnce'
    BY <1>1, <1>5 DEF IInv, DispatchedOnce
  <1>7. NothingLost'
    BY <1>0, <1>1, <1>2, <1>3 DEF IInv, NothingLost, TypeOK
  <1>8. FreshUntilPoll' /\ SleepingFetched'
    BY <1>0, <1>1, <1>2, <1>3 DEF IInv, FreshUntilPoll, SleepingFetched
  <1>9. DaysKnown' = DaysKnown
    BY <1>1, <1>5 DEF DaysKnown, DaysUpTo
  <1>10. DayCovers'
    BY <1>1, <1>9 DEF IInv, DayCovers
  <1> QED
    BY <1>4, <1>6, <1>7, <1>8, <1>10 DEF IInv

\* A batch dispatches the blocks after the mark, each for the first time.
LEMMA FetchInv ==
  ASSUME IInv, FetchSucceeds
  PROVE  IInv'
  <1>0. TypeOK /\ Len(chain) \in Nat /\ lastProcessed \in Nat /\ current \in Nat
    BY DEF IInv, TypeOK
  <1>1. /\ pc = "fetch" /\ pc' = "poll" /\ lastProcessed' = current
        /\ handled' = [b \in Blocks |-> IF b \in Events THEN handled[b] + 1 ELSE handled[b]]
        /\ sleeping' = sleeping \cup {b \in Events : chain[b] = "epoch"}
        /\ day' = day + DayStarts
        /\ UNCHANGED <<chain, current, counted, skipped>>
    BY DEF FetchSucceeds
  <1>2. /\ lastProcessed < current
        /\ day # Unset /\ day \in Nat
        /\ Events \subseteq lastProcessed + 1 .. current
        /\ Events \subseteq Blocks
        /\ current <= MaxBlock
    <2>1. day # Unset /\ day \in Nat
      BY <1>0, <1>1 DEF IInv, TypeOK, FreshUntilPoll
    <2>2. current <= MaxBlock /\ current - lastProcessed \in 1..MaxGap
      BY <1>0, <1>1, BlocksAssumption DEF TypeOK
    <2>3. Events \subseteq lastProcessed + 1 .. current
      BY DEF Events, Fetched
    <2> QED
      BY <1>0, <2>1, <2>2, <2>3, BlocksAssumption DEF Blocks
  <1>3. IsFiniteSet(Events) /\ DayStarts \in Nat
    <2>1. IsFiniteSet(lastProcessed + 1 .. current)
      BY <1>0, FS_Interval
    <2>2. IsFiniteSet(Events)
      BY <1>2, <2>1, FS_Subset
    <2>3. {b \in Events : chain[b] \in {"day", "dayOther"}} \in SUBSET Events
      OBVIOUS
    <2> QED
      BY <2>2, <2>3, FS_Subset, FS_CardinalityType DEF DayStarts
  <1>4. TypeOK'
    <2>1. handled' \in [Blocks -> Nat] /\ sleeping' \subseteq Blocks
      <3>1. handled \in [Blocks -> Nat] /\ sleeping \subseteq Blocks
        BY <1>0 DEF TypeOK
      <3>2. handled' \in [Blocks -> Nat]
        BY <1>1, <3>1
      <3>3. {b \in Events : chain[b] = "epoch"} \subseteq Blocks
        BY <1>2
      <3> QED
        BY <1>1, <3>1, <3>2, <3>3
    <2>2. skipped' \subseteq 1..lastProcessed'
      <3>1. skipped \subseteq 1..lastProcessed
        BY <1>0 DEF TypeOK
      <3> QED
        BY <1>0, <1>1, <1>2, <3>1
    <2>3. day' \in Nat
      BY <1>1, <1>2, <1>3
    <2> QED
      BY <1>0, <1>1, <2>1, <2>2, <2>3 DEF TypeOK
  <1>5. DispatchedOnce'
    <2> SUFFICES ASSUME NEW b \in Blocks
                 PROVE  handled'[b] <= IF b \in 1..lastProcessed' \ skipped' THEN 1 ELSE 0
      BY DEF DispatchedOnce
    <2>1. handled[b] \in Nat /\ handled[b] <= IF b \in 1..lastProcessed \ skipped THEN 1 ELSE 0
      BY <1>0 DEF IInv, DispatchedOnce, TypeOK
    <2>2. CASE b \in Events
      <3>1. b \in lastProcessed + 1 .. current /\ skipped \subseteq 1..lastProcessed
        BY <1>0, <1>2, <2>2 DEF TypeOK
      <3>2. handled[b] = 0 /\ handled'[b] = 1
        BY <1>0, <1>1, <2>1, <2>2, <3>1
      <3>3. b \in 1..lastProcessed' \ skipped'
        BY <1>0, <1>1, <3>1
      <3> QED
        BY <3>2, <3>3
    <2>3. CASE b \notin Events
      BY <1>0, <1>1, <1>2, <2>1, <2>3 DEF TypeOK
    <2> QED
      BY <2>2, <2>3
  <1>6. NothingLost'
    <2> SUFFICES ASSUME NEW b \in 1..current, chain[b] \in {"epoch", "day", "task"}
                 PROVE  b \in skipped \/ handled'[b] = 1
      BY <1>1 DEF NothingLost
    <2>0. b \in Blocks
      BY <1>0, <1>2, BlocksAssumption DEF Blocks
    <2>1. CASE b <= lastProcessed
      <3>1. b \notin Events
        BY <1>0, <1>2, <2>1
      <3> QED
        BY <1>0, <1>1, <2>0, <2>1, <3>1 DEF IInv, NothingLost
    <2>2. CASE b > lastProcessed
      <3>1. b \in Events
        BY <1>0, <2>2 DEF Events, Fetched
      <3>2. handled[b] \in Nat /\ handled[b] <= 0
        BY <1>0, <2>0, <2>2 DEF IInv, DispatchedOnce, TypeOK
      <3> QED
        BY <1>1, <2>0, <3>1, <3>2
    <2> QED
      BY <1>0, <2>1, <2>2
  <1>7. FreshUntilPoll' /\ SleepingFetched'
    <2>1. FreshUntilPoll'
      BY <1>1, <1>2, <1>3 DEF FreshUntilPoll, Unset
    <2>2. sleeping \subseteq 1..lastProcessed
      BY DEF IInv, SleepingFetched
    <2>3. {b \in Events : chain[b] = "epoch"} \subseteq 1..current
      <3>1. lastProcessed + 1 .. current \subseteq 1..current
        BY <1>0
      <3> QED
        BY <1>2, <3>1
    <2>4. 1..lastProcessed \subseteq 1..current
      BY <1>0, <1>2
    <2>5. sleeping' \subseteq 1..lastProcessed'
      BY <1>1, <2>2, <2>3, <2>4
    <2> QED
      BY <2>1, <2>5 DEF SleepingFetched
  <1>8. DayCovers'
    <2> DEFINE New == {b \in Events : chain[b] \in {"day", "dayOther"}}
    <2>1. DaysKnown' \subseteq DaysKnown \cup New
      BY <1>0, <1>1, <1>2 DEF DaysKnown, DaysUpTo, Events, Fetched
    <2>2. IsFiniteSet(New) /\ Cardinality(New) \in Nat /\ DayStarts = Cardinality(New)
      BY <1>3, FS_Subset, FS_CardinalityType DEF DayStarts
    <2>3. IsFiniteSet(DaysKnown) /\ Cardinality(DaysKnown) \in Nat
      BY <1>0, DaysKnownFinite
    <2>4. /\ IsFiniteSet(DaysKnown \cup New)
          /\ Cardinality(DaysKnown \cup New) <= Cardinality(DaysKnown) + Cardinality(New)
      <3> HIDE DEF New
      <3>1. /\ IsFiniteSet(DaysKnown \cup New)
            /\ Cardinality(DaysKnown \cup New)
                 = Cardinality(DaysKnown) + Cardinality(New) - Cardinality(DaysKnown \cap New)
        BY <2>2, <2>3, FS_Union
      <3>2. Cardinality(DaysKnown \cap New) \in Nat
        BY <2>3, FS_Subset, FS_CardinalityType
      <3> QED
        BY <2>2, <2>3, <3>1, <3>2
    <2>5. Cardinality(DaysKnown') <= Cardinality(DaysKnown \cup New)
      <3> HIDE DEF New
      <3> QED
        BY <2>1, <2>4, FS_Subset
    <2>6. Cardinality(DaysKnown') \in Nat
      <3> HIDE DEF New
      <3> QED
        BY <2>1, <2>4, FS_Subset, FS_CardinalityType
    <2>7. Cardinality(DaysKnown) <= day
      BY <1>2 DEF IInv, DayCovers
    <2>8. Cardinality(DaysKnown \cup New) \in Nat
      BY <2>4, FS_CardinalityType
    <2> HIDE DEF New
    <2> QED
      BY <1>1, <1>2, <2>2, <2>3, <2>4, <2>5, <2>6, <2>7, <2>8 DEF DayCovers
  <1> QED
    BY <1>4, <1>5, <1>6, <1>7, <1>8 DEF IInv

\* A restarted process knows nothing.
LEMMA RestartInv ==
  ASSUME IInv, Restart
  PROVE  IInv'
  <1>1. TypeOK'
    BY DEF IInv, TypeOK, Restart, Unset
  <1>2. DispatchedOnce' /\ NothingLost' /\ FreshUntilPoll' /\ SleepingFetched' /\ DayCovers'
    BY DEF Restart, DispatchedOnce, NothingLost, FreshUntilPoll, SleepingFetched,
           DayCovers, Unset
  <1> QED
    BY <1>1, <1>2 DEF IInv

\* The other steps leave the mark, the skipped blocks and the day alone.
LEMMA OtherInv ==
  ASSUME IInv,
         \/ ReadDayFails
         \/ Simulate
         \/ FetchFails
         \/ \E b \in Blocks : EpochWakes(b)
         \/ UNCHANGED vars
  PROVE  IInv'
  <1>1. /\ sleeping' \subseteq sleeping
        /\ \/ pc' = pc
           \/ pc = "boot" /\ pc' = "warmup" /\ sleeping' = sleeping
           \/ pc = "warmup" /\ pc' = "poll" /\ day # Unset
           \/ pc = "fetch" /\ pc' = "poll"
        /\ UNCHANGED <<chain, lastProcessed, current, handled, day, counted, skipped>>
    BY DEF ReadDayFails, Simulate, FetchFails, EpochWakes, vars, local
  <1>2. TypeOK'
    BY <1>1 DEF IInv, TypeOK
  <1>3. DispatchedOnce' /\ NothingLost' /\ FreshUntilPoll' /\ SleepingFetched'
    BY <1>1 DEF IInv, DispatchedOnce, NothingLost, FreshUntilPoll, SleepingFetched
  <1>4. DaysKnown' = DaysKnown
    BY <1>1 DEF DaysKnown, DaysUpTo
  <1>5. DayCovers'
    BY <1>1, <1>4 DEF IInv, DayCovers
  <1> QED
    BY <1>2, <1>3, <1>5 DEF IInv

\* Every step keeps the invariant.
LEMMA InvNext == IInv /\ [Next]_vars => IInv'
  <1> SUFFICES ASSUME IInv, [Next]_vars PROVE IInv'
    OBVIOUS
  <1>1. CASE Mine
    BY <1>1, MineInv
  <1>2. CASE ReadDay
    BY <1>2, ReadDayInv
  <1>3. CASE SimulateFails \/ Crash
    BY <1>3, RestartInv DEF SimulateFails, Crash
  <1>4. CASE \E head \in Heads : Poll(head)
    BY <1>4, PollInv
  <1>5. CASE FetchSucceeds
    BY <1>5, FetchInv
  <1>6. CASE \/ ReadDayFails
             \/ Simulate
             \/ FetchFails
             \/ \E b \in Blocks : EpochWakes(b)
             \/ UNCHANGED vars
    BY <1>6, OtherInv
  <1> QED
    BY <1>1, <1>2, <1>3, <1>4, <1>5, <1>6 DEF Next

\* The inductive invariant of the polling loop.
THEOREM Invariant == Spec => []IInv
  BY InvInit, InvNext, PTL DEF Spec

\* Every variable keeps its type and a fetch its bounds.
THEOREM TypeCorrect == Spec => []TypeOK
  <1>1. IInv => TypeOK
    BY DEF IInv
  <1> QED
    BY <1>1, Invariant, PTL

\* No process dispatches an event twice.
THEOREM Once == Spec => []DispatchedOnce
  <1>1. IInv => DispatchedOnce
    BY DEF IInv
  <1> QED
    BY <1>1, Invariant, PTL

\* No event up to the mark is lost unless its block was skipped on purpose.
THEOREM Complete == Spec => []NothingLost
  <1>1. IInv => NothingLost
    BY DEF IInv
  <1> QED
    BY <1>1, Invariant, PTL

\* An epoch that wakes finds a day that includes every day known up to it.
THEOREM DayCurrent == Spec => []DayNotBehind
  <1>1. IInv => DayNotBehind
    <2> SUFFICES ASSUME IInv PROVE DayNotBehind
      OBVIOUS
    <2>1. TypeOK /\ (sleeping # {} => day # Unset)
      BY DEF IInv, FreshUntilPoll, TypeOK
    <2>2. ASSUME NEW b \in sleeping
          PROVE  day >= Cardinality({d \in DaysKnown : d <= b})
      <3> DEFINE S == {d \in DaysKnown : d <= b}
      <3>1. day \in Nat /\ day >= Cardinality(DaysKnown)
        BY <2>1, <2>2 DEF IInv, DayCovers, TypeOK
      <3>2. IsFiniteSet(DaysKnown) /\ Cardinality(DaysKnown) \in Nat
        BY <2>1, DaysKnownFinite
      <3>3. S \in SUBSET DaysKnown
        OBVIOUS
      <3> HIDE DEF S
      <3>4. Cardinality(S) <= Cardinality(DaysKnown) /\ Cardinality(S) \in Nat
        BY <3>2, <3>3, FS_Subset, FS_CardinalityType
      <3>5. day >= Cardinality(S)
        BY <3>1, <3>2, <3>4
      <3> QED
        BY <3>5 DEF S
    <2> QED
      BY <2>1, <2>2 DEF DayNotBehind
  <1> QED
    BY <1>1, Invariant, PTL

-----------------------------------------------------------------------------
(***************************************************************************)
(* The mark only moves on, and in the order of the chain.                  *)
(***************************************************************************)

\* What a poll that finds new blocks does to the mark: it moves it forward to
\* a block below the head, and what lies between is skipped.
LEMMA PollMark ==
  ASSUME TypeOK, NEW head \in Heads, Poll(head)
  PROVE  /\ lastProcessed' \in Nat
         /\ lastProcessed <= lastProcessed'
         /\ 1..lastProcessed' \ skipped' = 1..lastProcessed \ skipped
         /\ \A b \in skipped' \ skipped : lastProcessed = 0 \/ b + MaxGap <= current'
         /\ UNCHANGED <<chain, handled, sleeping, day, counted>>
  <1>0. head \in 1..Len(chain) /\ Len(chain) \in Nat /\ lastProcessed \in Nat
        /\ skipped \subseteq 1..lastProcessed
    BY DEF TypeOK, Heads
  <1> DEFINE last == IF lastProcessed = 0 THEN FirstMark(head) ELSE lastProcessed
             start == CatchUp(last, head)
  <1>1. /\ last < head
        /\ current' = head /\ lastProcessed' = start
        /\ skipped' = skipped \cup (lastProcessed + 1 .. start)
        /\ UNCHANGED <<chain, handled, sleeping, day, counted>>
    BY <1>0 DEF Poll, UpToDate, FirstMark
  <1>2. last \in Nat /\ last >= lastProcessed
        /\ (lastProcessed # 0 => last = lastProcessed)
    BY <1>0 DEF FirstMark
  <1>3. start \in Nat /\ start >= last /\ (start = last \/ start = head - MaxGap)
    BY <1>0, <1>1, <1>2, BlocksAssumption DEF CatchUp
  <1> HIDE DEF last, start
  <1>4. 1..lastProcessed' \ skipped' = 1..lastProcessed \ skipped
    BY <1>0, <1>1, <1>2, <1>3
  <1>5. ASSUME NEW b \in skipped' \ skipped, lastProcessed # 0
        PROVE  b + MaxGap <= current'
    <2>1. b \in lastProcessed + 1 .. start /\ b <= start /\ b > last
      BY <1>0, <1>1, <1>2, <1>3, <1>5
    <2> QED
      BY <1>0, <1>1, <1>2, <1>3, <2>1, BlocksAssumption
  <1> QED
    BY <1>1, <1>2, <1>3, <1>4, <1>5, <1>0

\* In the life of a process the mark never moves back: a fetch that failed, a
\* head that fell behind and a catch-up leave it or move it on.
MarkOnward == [][lastProcessed' >= lastProcessed \/ pc' = "boot"]_vars

\* Events are handed on in the order of the chain: nothing is dispatched for
\* a block before one that already was.
DispatchedInOrder ==
  [][\A b, c \in Blocks : handled'[b] > handled[b] /\ handled[c] > 0 => c < b]_vars

\* The loop gives a block up only before its first poll, or when the head is
\* MaxGap blocks ahead of it or more.
GivenUpFarBehind ==
  [][\A b \in skipped' \ skipped : lastProcessed = 0 \/ b + MaxGap <= current']_vars

\* The mark of a process never moves back.
THEOREM Onward == Spec => MarkOnward
  <1>1. TypeOK /\ [Next]_vars => [lastProcessed' >= lastProcessed \/ pc' = "boot"]_vars
    <2> SUFFICES ASSUME TypeOK, Next PROVE lastProcessed' >= lastProcessed \/ pc' = "boot"
      OBVIOUS
    <2>0. lastProcessed \in Nat /\ current \in Nat
      BY DEF TypeOK
    <2>1. CASE \E head \in Heads : Poll(head)
      BY <2>0, <2>1, PollMark
    <2>2. CASE FetchSucceeds
      <3>1. current - lastProcessed \in 1..MaxGap /\ lastProcessed' = current
        BY <2>2 DEF TypeOK, FetchSucceeds
      <3> QED
        BY <2>0, <3>1, BlocksAssumption
    <2>3. CASE SimulateFails \/ Crash
      BY <2>3 DEF SimulateFails, Crash, Restart
    <2>4. CASE \/ Mine \/ ReadDay \/ ReadDayFails \/ Simulate \/ FetchFails
               \/ \E b \in Blocks : EpochWakes(b)
      <3>1. lastProcessed' = lastProcessed
        BY <2>4 DEF Mine, local, ReadDay, ReadDayFails, Simulate, FetchFails, EpochWakes
      <3> QED
        BY <2>0, <3>1
    <2> QED
      BY <2>1, <2>2, <2>3, <2>4 DEF Next
  <1> QED
    BY <1>1, TypeCorrect, PTL DEF Spec, MarkOnward

\* Only a batch dispatches, and only blocks past the mark.
LEMMA OnlyFetchDispatches ==
  ASSUME TypeOK, Next, NEW b \in Blocks, handled'[b] > handled[b]
  PROVE  FetchSucceeds /\ b \in Events
  <1>0. handled \in [Blocks -> Nat]
    BY DEF TypeOK
  <1>1. CASE FetchSucceeds
    BY <1>0, <1>1 DEF FetchSucceeds
  <1>2. CASE SimulateFails \/ Crash
    <2>1. handled'[b] = 0
      BY <1>2 DEF SimulateFails, Crash, Restart
    <2> QED
      BY <1>0, <2>1
  <1>3. CASE \/ Mine \/ ReadDay \/ ReadDayFails \/ Simulate \/ FetchFails
             \/ \E head \in Heads : Poll(head)
             \/ \E c \in Blocks : EpochWakes(c)
    <2>1. handled' = handled
      BY <1>3 DEF Mine, local, ReadDay, ReadDayFails, Simulate, FetchFails, Poll, EpochWakes
    <2> QED
      BY <1>0, <2>1
  <1> QED
    BY <1>1, <1>2, <1>3 DEF Next

\* Events reach the distributor in the order of the chain.
THEOREM InOrder == Spec => DispatchedInOrder
  <1>1. IInv /\ [Next]_vars =>
          [\A b, c \in Blocks : handled'[b] > handled[b] /\ handled[c] > 0 => c < b]_vars
    <2> SUFFICES ASSUME IInv, Next, NEW b \in Blocks, NEW c \in Blocks,
                        handled'[b] > handled[b], handled[c] > 0
                 PROVE  c < b
      OBVIOUS
    <2>0. TypeOK /\ DispatchedOnce /\ lastProcessed \in Nat /\ handled[c] \in Nat
      BY DEF IInv, TypeOK
    <2>1. b \in lastProcessed + 1 .. current
      BY <2>0, OnlyFetchDispatches DEF Events, Fetched
    <2>2. c \in 1..lastProcessed
      BY <2>0 DEF DispatchedOnce
    <2> QED
      BY <2>0, <2>1, <2>2, BlocksAssumption DEF Blocks
  <1> QED
    BY <1>1, Invariant, PTL DEF Spec, DispatchedInOrder

\* A block is given up only far behind the head.
THEOREM FarBehind == Spec => GivenUpFarBehind
  <1>1. TypeOK /\ [Next]_vars =>
          [\A b \in skipped' \ skipped : lastProcessed = 0 \/ b + MaxGap <= current']_vars
    <2> SUFFICES ASSUME TypeOK, Next, NEW b \in skipped' \ skipped
                 PROVE  lastProcessed = 0 \/ b + MaxGap <= current'
      OBVIOUS
    <2>1. CASE \E head \in Heads : Poll(head)
      BY <2>1, PollMark
    <2>2. CASE SimulateFails \/ Crash
      BY <2>2 DEF SimulateFails, Crash, Restart
    <2>3. CASE \/ Mine \/ ReadDay \/ ReadDayFails \/ Simulate \/ FetchFails \/ FetchSucceeds
               \/ \E c \in Blocks : EpochWakes(c)
      BY <2>3 DEF Mine, local, ReadDay, ReadDayFails, Simulate, FetchFails,
                  FetchSucceeds, EpochWakes
    <2> QED
      BY <2>1, <2>2, <2>3 DEF Next
  <1> QED
    BY <1>1, TypeCorrect, PTL DEF Spec, GivenUpFarBehind

-----------------------------------------------------------------------------
(***************************************************************************)
(* What was dispatched, and what the day counter shows, exactly.           *)
(***************************************************************************)
Dispatched == {"epoch", "day", "dayOther", "task"}
DayKinds == {"day", "dayOther"}

\* The blocks whose events were fetched.
Seen == 1..lastProcessed \ skipped

SeenOf(kinds) == {b \in Seen : chain[b] \in kinds}

\* An event was dispatched exactly once if its block was fetched and its kind
\* passes the filter, and never otherwise.
HandledExactly ==
  \A b \in Blocks : handled[b] = IF b \in SeenOf(Dispatched) THEN 1 ELSE 0

\* The day epochs are stamped with is the one the protocol state showed at
\* start plus one for each day event fetched since: of any data market, and
\* also of a day dayCounter had already included when it was read.
DayExact ==
  day # Unset =>
    day = Cardinality(DaysUpTo(counted)) + Cardinality(SeenOf(DayKinds))

Exact == HandledExactly /\ DayExact

\* Fetched blocks are finitely many.
LEMMA SeenFinite ==
  ASSUME TypeOK, NEW kinds
  PROVE  IsFiniteSet(SeenOf(kinds)) /\ Cardinality(SeenOf(kinds)) \in Nat
  <1>1. IsFiniteSet(1..lastProcessed)
    BY FS_Interval DEF TypeOK
  <1>2. SeenOf(kinds) \subseteq 1..lastProcessed
    BY DEF SeenOf, Seen
  <1> QED
    BY <1>1, <1>2, FS_Subset, FS_CardinalityType

\* A batch adds its own events to those seen, and none was seen before.
LEMMA FetchSees ==
  ASSUME IInv, FetchSucceeds, NEW kinds \in SUBSET Dispatched
  PROVE  /\ SeenOf(kinds)' = SeenOf(kinds) \cup {b \in Events : chain[b] \in kinds}
         /\ SeenOf(kinds) \cap {b \in Events : chain[b] \in kinds} = {}
  <1>1. /\ lastProcessed \in Nat /\ current \in Nat /\ current >= lastProcessed
        /\ skipped \subseteq 1..lastProcessed
        /\ lastProcessed' = current /\ UNCHANGED <<chain, skipped>>
    <2>1. TypeOK /\ pc = "fetch"
      BY DEF IInv, FetchSucceeds
    <2>2. current - lastProcessed \in 1..MaxGap /\ lastProcessed \in Nat /\ current \in Nat
      BY <2>1 DEF TypeOK
    <2> QED
      BY <2>1, <2>2, BlocksAssumption DEF TypeOK, FetchSucceeds
  <1>2. 1..current \ skipped = (1..lastProcessed \ skipped) \cup (lastProcessed + 1 .. current)
    BY <1>1
  <1>3. (1..lastProcessed \ skipped) \cap (lastProcessed + 1 .. current) = {}
    BY <1>1
  <1>4. {b \in Events : chain[b] \in kinds} = {b \in lastProcessed + 1 .. current : chain[b] \in kinds}
    BY DEF Events, Fetched, Dispatched
  <1>5. SeenOf(kinds)' = {b \in 1..current \ skipped : chain[b] \in kinds}
    BY <1>1 DEF SeenOf, Seen
  <1> QED
    BY <1>2, <1>3, <1>4, <1>5 DEF SeenOf, Seen

\* Every step keeps the account of events and of days exact.
LEMMA ExactNext == IInv /\ Exact /\ [Next]_vars => Exact'
  <1> SUFFICES ASSUME IInv, Exact, [Next]_vars PROVE Exact'
    OBVIOUS
  <1>0. TypeOK /\ HandledExactly /\ DayExact /\ Len(chain) \in Nat
        /\ lastProcessed \in Nat /\ counted \in Nat
    BY DEF IInv, Exact, TypeOK
  <1>1. CASE Mine
    <2>1. PICK k \in Kinds : chain' = Append(chain, k)
      BY <1>1 DEF Mine
    <2>2. \A b \in 1..Len(chain) : chain'[b] = chain[b]
      BY <1>0, <2>1 DEF TypeOK
    <2>3. UNCHANGED local
      BY <1>1 DEF Mine
    <2>4. lastProcessed <= Len(chain) /\ counted <= Len(chain)
      BY <1>0 DEF TypeOK
    <2>5. \A kinds : SeenOf(kinds)' = SeenOf(kinds)
      BY <1>0, <2>2, <2>3, <2>4 DEF SeenOf, Seen, local
    <2>6. DaysUpTo(counted)' = DaysUpTo(counted)
      BY <1>0, <2>2, <2>3, <2>4 DEF DaysUpTo, local
    <2> QED
      BY <1>0, <2>3, <2>5, <2>6 DEF Exact, HandledExactly, DayExact, local
  <1>2. CASE ReadDay
    <2>1. PICK h \in Heads : day' = Cardinality(DaysUpTo(h)) /\ counted' = h
      BY <1>2 DEF ReadDay
    <2>2. lastProcessed = 0 /\ UNCHANGED <<chain, lastProcessed, handled, skipped>>
      BY <1>2 DEF IInv, FreshUntilPoll, ReadDay
    <2>3. HandledExactly'
      BY <1>0, <2>2 DEF HandledExactly, SeenOf, Seen
    <2>4. SeenOf(DayKinds)' = {}
      BY <2>2 DEF SeenOf, Seen
    <2>5. DaysUpTo(counted)' = DaysUpTo(h) /\ h \in Nat
      BY <1>0, <2>1, <2>2 DEF DaysUpTo, Heads
    <2>6. Cardinality(DaysUpTo(h)) \in Nat /\ Cardinality({}) = 0
      BY <2>5, DaysFinite, FS_EmptySet
    <2>7. DayExact'
      BY <2>1, <2>4, <2>5, <2>6 DEF DayExact
    <2> QED
      BY <2>3, <2>7 DEF Exact
  <1>3. CASE SimulateFails \/ Crash
    <2>1. Restart
      BY <1>3 DEF SimulateFails, Crash
    <2> QED
      BY <2>1 DEF Restart, Exact, HandledExactly, DayExact, SeenOf, Seen
  <1>4. CASE \E head \in Heads : Poll(head)
    <2>1. Seen' = Seen /\ UNCHANGED <<chain, handled, day, counted>>
      BY <1>0, <1>4, PollMark DEF Seen
    <2>2. \A kinds : SeenOf(kinds)' = SeenOf(kinds)
      BY <2>1 DEF SeenOf
    <2>3. DaysUpTo(counted)' = DaysUpTo(counted)
      BY <2>1 DEF DaysUpTo
    <2> QED
      BY <1>0, <2>1, <2>2, <2>3 DEF Exact, HandledExactly, DayExact
  <1>5. CASE FetchSucceeds
    <2> DEFINE new == {b \in Events : chain[b] \in DayKinds}
    <2>1. SeenOf(Dispatched)' = SeenOf(Dispatched) \cup {b \in Events : chain[b] \in Dispatched}
          /\ SeenOf(Dispatched) \cap {b \in Events : chain[b] \in Dispatched} = {}
      BY <1>5, FetchSees
    <2>2. SeenOf(DayKinds)' = SeenOf(DayKinds) \cup new /\ SeenOf(DayKinds) \cap new = {}
      BY <1>5, FetchSees DEF DayKinds, Dispatched
    <2>3. Events = {b \in Events : chain[b] \in Dispatched}
      BY DEF Events, Dispatched
    <2>4. HandledExactly'
      <3>1. \A b \in Blocks : handled'[b] = IF b \in Events THEN handled[b] + 1 ELSE handled[b]
        BY <1>5 DEF FetchSucceeds
      <3>2. \A b \in Blocks : b \in SeenOf(Dispatched)' <=> b \in SeenOf(Dispatched) \/ b \in Events
        BY <2>1, <2>3
      <3>3. \A b \in Blocks : b \in Events => handled[b] = 0
        BY <1>0, <2>1, <2>3 DEF HandledExactly
      <3>4. \A b \in Blocks : b \notin Events => handled'[b] = handled[b]
        BY <3>1
      <3>5. \A b \in Blocks : b \in Events => handled'[b] = 1
        BY <3>1, <3>3
      <3> QED
        BY <1>0, <3>2, <3>4, <3>5 DEF HandledExactly
    <2>5. Cardinality(SeenOf(DayKinds)') = Cardinality(SeenOf(DayKinds)) + DayStarts
          /\ DayStarts \in Nat
      <3>1. IsFiniteSet(SeenOf(DayKinds)) /\ Cardinality(SeenOf(DayKinds)) \in Nat
        BY <1>0, SeenFinite
      <3>2. IsFiniteSet(new)
        <4>1. IsFiniteSet(lastProcessed + 1 .. current)
          BY <1>0, FS_Interval DEF TypeOK
        <4>2. new \subseteq lastProcessed + 1 .. current
          BY DEF Events, Fetched
        <4> QED
          BY <4>1, <4>2, FS_Subset
      <3>3. DayStarts = Cardinality(new)
        BY DEF DayStarts, DayKinds
      <3> HIDE DEF new
      <3>4. Cardinality(SeenOf(DayKinds) \cap new) = 0
        BY <2>2, FS_EmptySet
      <3>5. Cardinality(SeenOf(DayKinds) \cup new) =
              Cardinality(SeenOf(DayKinds)) + Cardinality(new)
                - Cardinality(SeenOf(DayKinds) \cap new)
        BY <3>1, <3>2, FS_Union
      <3>6. Cardinality(new) \in Nat
        BY <3>2, FS_CardinalityType
      <3> QED
        BY <2>2, <3>1, <3>3, <3>4, <3>5, <3>6
    <2>6. DayExact'
      <3>1. day' = day + DayStarts /\ day # Unset /\ UNCHANGED <<chain, counted>>
        BY <1>5 DEF FetchSucceeds, IInv, FreshUntilPoll
      <3>2. DaysUpTo(counted)' = DaysUpTo(counted)
        BY <3>1 DEF DaysUpTo
      <3>3. Cardinality(DaysUpTo(counted)) \in Nat /\ Cardinality(SeenOf(DayKinds)) \in Nat
        BY <1>0, DaysFinite, SeenFinite
      <3>4. day = Cardinality(DaysUpTo(counted)) + Cardinality(SeenOf(DayKinds))
        BY <1>0, <3>1 DEF DayExact
      <3> QED
        BY <2>5, <3>1, <3>2, <3>3, <3>4 DEF DayExact
    <2> QED
      BY <2>4, <2>6 DEF Exact
  <1>6. CASE \/ ReadDayFails \/ Simulate \/ FetchFails
             \/ \E b \in Blocks : EpochWakes(b)
             \/ UNCHANGED vars
    <2>1. UNCHANGED <<chain, lastProcessed, handled, day, counted, skipped>>
      BY <1>6 DEF ReadDayFails, Simulate, FetchFails, EpochWakes, vars, local
    <2> QED
      BY <1>0, <2>1 DEF Exact, HandledExactly, DayExact, SeenOf, Seen, DaysUpTo
  <1> QED
    BY <1>1, <1>2, <1>3, <1>4, <1>5, <1>6 DEF Next

\* Each fetched event that passes the filter is dispatched exactly once, and
\* the day counter is exactly what was read plus the day events fetched.
THEOREM Accounted == Spec => [](HandledExactly /\ DayExact)
  <1>1. Init => Exact
    BY DEF Init, Exact, HandledExactly, DayExact, SeenOf, Seen
  <1>2. IInv /\ Exact /\ [Next]_vars => Exact'
    BY ExactNext
  <1>3. Exact => HandledExactly /\ DayExact
    BY DEF Exact
  <1> QED
    BY <1>1, <1>2, <1>3, Invariant, PTL DEF Spec

-----------------------------------------------------------------------------
(***************************************************************************)
(* How far the day counter may be ahead.                                   *)
(***************************************************************************)

\* No block is fetched that was older than the lag of a node when dayCounter
\* was read.
FetchedLate ==
  /\ pc = "fetch" \/ lastProcessed > 0 => lastProcessed + 1 + HeadLag >= counted
  /\ \A b \in Seen : b + HeadLag >= counted

\* A first mark is set within the lag of the head, and later ones move on.
LEMMA PollLate ==
  ASSUME TypeOK, FetchedLate, NEW head \in Heads, Poll(head)
  PROVE  lastProcessed' + 1 + HeadLag >= counted'
  <1>0. /\ head \in Nat /\ Len(chain) \in Nat /\ counted \in Nat /\ HeadLag \in Nat
        /\ lastProcessed \in Nat
        /\ head + HeadLag >= Len(chain) /\ counted <= Len(chain)
    BY BlocksAssumption DEF TypeOK, Heads
  <1>1. counted' = counted /\ lastProcessed' \in Nat /\ lastProcessed <= lastProcessed'
    BY PollMark
  <1>2. CASE lastProcessed = 0
    <2>1. lastProcessed' >= head - 1
      BY <1>0, <1>2, BlocksAssumption DEF Poll, FirstMark, CatchUp
    <2>2. \A m, h, g, n, c \in Nat : m >= h - 1 /\ h + g >= n /\ c <= n => m + 1 + g >= c
      OBVIOUS
    <2> QED
      BY <1>0, <1>1, <2>1, <2>2
  <1>3. CASE lastProcessed # 0
    <2>1. lastProcessed + 1 + HeadLag >= counted
      BY <1>0, <1>3 DEF FetchedLate
    <2>2. \A m, l, g, c \in Nat : l <= m /\ l + 1 + g >= c => m + 1 + g >= c
      OBVIOUS
    <2> QED
      BY <1>0, <1>1, <2>1, <2>2
  <1> QED
    BY <1>2, <1>3

\* Every step keeps what is fetched within the lag.
LEMMA FetchedLateNext == IInv /\ FetchedLate /\ [Next]_vars => FetchedLate'
  <1> SUFFICES ASSUME IInv, FetchedLate, [Next]_vars PROVE FetchedLate'
    OBVIOUS
  <1>0. /\ TypeOK /\ FreshUntilPoll
        /\ lastProcessed \in Nat /\ current \in Nat /\ counted \in Nat /\ HeadLag \in Nat
    BY BlocksAssumption DEF IInv, TypeOK
  <1>1. CASE ReadDay
    BY <1>0, <1>1 DEF ReadDay, FreshUntilPoll, FetchedLate, Seen
  <1>2. CASE SimulateFails \/ Crash
    BY <1>0, <1>2 DEF SimulateFails, Crash, Restart, FetchedLate, Seen
  <1>3. CASE \E head \in Heads : Poll(head)
    <2>1. PICK head \in Heads : Poll(head)
      BY <1>3
    <2>2. /\ counted' = counted
          /\ lastProcessed' \in Nat /\ lastProcessed <= lastProcessed'
      BY <1>0, <2>1, PollMark
    <2>4. Seen' = Seen
      BY <1>0, <2>1, PollMark DEF Seen
    <2>3. lastProcessed' + 1 + HeadLag >= counted'
      BY <1>0, <2>1, PollLate
    <2> QED
      BY <2>2, <2>3, <2>4 DEF FetchedLate
  <1>4. CASE FetchSucceeds
    <2>1. /\ lastProcessed' = current /\ UNCHANGED <<counted, skipped>>
          /\ pc = "fetch" /\ current > lastProcessed
      <3>1. pc = "fetch" /\ current - lastProcessed \in 1..MaxGap
        BY <1>0, <1>4 DEF FetchSucceeds, TypeOK
      <3> QED
        BY <1>0, <1>4, <3>1, BlocksAssumption DEF FetchSucceeds
    <2>2. lastProcessed + 1 + HeadLag >= counted
      BY <2>1 DEF FetchedLate
    <2>3. Seen' \subseteq Seen \cup (lastProcessed + 1 .. current)
      BY <1>0, <2>1 DEF Seen
    <2>4. \A b \in Seen' : b + HeadLag >= counted'
      BY <1>0, <2>1, <2>2, <2>3 DEF FetchedLate
    <2> QED
      BY <1>0, <2>1, <2>2, <2>4 DEF FetchedLate
  <1>5. CASE \/ Mine \/ ReadDayFails \/ Simulate \/ FetchFails
             \/ \E b \in Blocks : EpochWakes(b)
             \/ UNCHANGED vars
    <2>1. /\ UNCHANGED <<lastProcessed, counted, skipped>>
          /\ pc' = "fetch" => pc = "fetch"
      BY <1>5 DEF Mine, ReadDayFails, Simulate, FetchFails, EpochWakes, vars, local
    <2> QED
      BY <2>1 DEF FetchedLate, Seen
  <1> QED
    BY <1>1, <1>2, <1>3, <1>4, <1>5 DEF Next

\* The size of two finite sets that share nothing is the sum of theirs.
LEMMA DisjointSum ==
  ASSUME NEW A, NEW B, IsFiniteSet(A), IsFiniteSet(B), A \cap B = {}
  PROVE  /\ IsFiniteSet(A \cup B)
         /\ Cardinality(A) \in Nat /\ Cardinality(B) \in Nat
         /\ Cardinality(A \cup B) = Cardinality(A) + Cardinality(B)
  <1>1. Cardinality(A \cap B) = 0
    BY FS_EmptySet
  <1>2. Cardinality(A) \in Nat /\ Cardinality(B) \in Nat
    BY FS_CardinalityType
  <1>3. /\ IsFiniteSet(A \cup B)
        /\ Cardinality(A \cup B) = Cardinality(A) + Cardinality(B) - Cardinality(A \cap B)
    BY FS_Union
  <1> QED
    BY <1>1, <1>2, <1>3

\* Each day event fetched is a day the process did not know, a day dayCounter
\* had included in one of its last blocks, or a day of another market.
LEMMA AheadByCauses ==
  ASSUME IInv, DayExact, FetchedLate, day # Unset
  PROVE  day <= Cardinality(DaysKnown) + Cardinality(RecountedDays) + Cardinality(ForeignDays)
  <1> DEFINE read == DaysUpTo(counted)
             new == {b \in SeenOf({"day"}) : b > counted}
             again == {b \in SeenOf({"day"}) : b <= counted}
  <1>0. /\ TypeOK /\ counted \in Nat /\ Len(chain) \in Nat /\ lastProcessed \in Nat
        /\ counted <= Len(chain) /\ lastProcessed <= Len(chain)
    BY DEF IInv, TypeOK
  <1>1. /\ IsFiniteSet(read) /\ IsFiniteSet(RecountedDays)
        /\ Cardinality(RecountedDays) \in Nat
    BY <1>0, DaysFinite DEF RecountedDays
  <1>2. IsFiniteSet(SeenOf({"day"})) /\ IsFiniteSet(ForeignDays)
    <2>1. IsFiniteSet(SeenOf({"dayOther"}))
      BY <1>0, SeenFinite
    <2>2. ForeignDays = SeenOf({"dayOther"})
      BY DEF ForeignDays, SeenOf, Seen
    <2> QED
      BY <1>0, <2>1, <2>2, SeenFinite
  <1>3. IsFiniteSet(new) /\ IsFiniteSet(again)
    <2>1. new \subseteq SeenOf({"day"}) /\ again \subseteq SeenOf({"day"})
      OBVIOUS
    <2> HIDE DEF new, again
    <2> QED
      BY <1>2, <2>1, FS_Subset
  <1>4. /\ SeenOf(DayKinds) = (new \cup again) \cup ForeignDays
        /\ new \cap again = {} /\ (new \cup again) \cap ForeignDays = {}
    <2>1. \A b \in SeenOf({"day"}) : b \in Nat
      BY DEF SeenOf, Seen
    <2>2. new \cup again = SeenOf({"day"}) /\ new \cap again = {}
      BY <1>0, <2>1
    <2>3. SeenOf(DayKinds) = SeenOf({"day"}) \cup ForeignDays
      BY DEF SeenOf, Seen, DayKinds, ForeignDays
    <2>4. SeenOf({"day"}) \cap ForeignDays = {}
      BY DEF SeenOf, ForeignDays
    <2> HIDE DEF new, again
    <2> QED
      BY <2>2, <2>3, <2>4
  <1>5. DaysKnown = read \cup new /\ read \cap new = {}
    BY <1>0 DEF DaysKnown, DaysUpTo, SeenOf, Seen
  <1>6. again \subseteq RecountedDays
    BY <1>0 DEF SeenOf, Seen, RecountedDays, DaysUpTo, FetchedLate
  <1>7. day = Cardinality(read) + Cardinality(SeenOf(DayKinds))
    BY DEF DayExact
  <1> HIDE DEF read, new, again
  <1>8. /\ Cardinality(DaysKnown) = Cardinality(read) + Cardinality(new)
        /\ Cardinality(read) \in Nat /\ Cardinality(new) \in Nat
    BY <1>1, <1>3, <1>5, DisjointSum
  <1>9. /\ IsFiniteSet(new \cup again)
        /\ Cardinality(new \cup again) = Cardinality(new) + Cardinality(again)
        /\ Cardinality(again) \in Nat
    BY <1>3, <1>4, DisjointSum
  <1>10. /\ Cardinality(SeenOf(DayKinds)) = Cardinality(new \cup again) + Cardinality(ForeignDays)
         /\ Cardinality(ForeignDays) \in Nat
    BY <1>2, <1>4, <1>9, DisjointSum
  <1>11. Cardinality(again) <= Cardinality(RecountedDays)
    BY <1>1, <1>6, FS_Subset
  <1> QED
    BY <1>1, <1>7, <1>8, <1>9, <1>10, <1>11

\* The day is ahead of the days the process knows of only by days of other
\* markets and by days its first head made it count twice.
THEOREM DayBounded == Spec => []DayNotAhead
  <1>1. Init => Exact /\ FetchedLate
    BY BlocksAssumption
    DEF Init, Exact, HandledExactly, DayExact, FetchedLate, SeenOf, Seen
  <1>2. IInv /\ Exact /\ FetchedLate /\ [Next]_vars => Exact' /\ FetchedLate'
    BY ExactNext, FetchedLateNext
  <1>3. IInv /\ Exact /\ FetchedLate => DayNotAhead
    BY AheadByCauses DEF Exact, DayNotAhead
  <1> QED
    BY <1>1, <1>2, <1>3, Invariant, PTL DEF Spec
=============================================================================
