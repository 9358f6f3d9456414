------------------------ MODULE SystemEventDetector ------------------------
(***************************************************************************)
(* EventDetectorProcess: the loop that polls the anchor chain for blocks,  *)
(* fetches and filters the events of the blocks it has not seen, and hands *)
(* them to ProcessorDistributor.process_event.                             *)
(*                                                                         *)
(* The head is read before get_events is awaited and used after it.  The   *)
(* tasks of one batch are created in log order without an await between    *)
(* them and each runs to its first await before the loop polls again: the  *)
(* whole batch is one step.  An epoch then sleeps for 20 seconds, and is   *)
(* stamped with the day the counter shows when it wakes.                   *)
(*                                                                         *)
(* Nothing is persisted: a restarted process starts over at the head.      *)
(***************************************************************************)
EXTENDS Integers, Sequences, FiniteSets

CONSTANTS
  Kinds,         \* the kinds of events that occur in a run
  MaxBlock,      \* bound: blocks mined in a run
  MaxGap,        \* blocks the loop is ready to catch up with: 10 in the code
  HeadLag        \* bound: blocks an RPC node may be behind the chain

\* The suffix Other marks another data market, snapshotter or slot.
AllKinds == {"none", "epoch", "epochOther", "day", "dayOther", "task", "taskOther"}

ASSUME KindsAssumption == Kinds \subseteq AllKinds
ASSUME BlocksAssumption == {MaxBlock, MaxGap} \subseteq Nat \ {0} /\ HeadLag \in Nat

Unset == -1
Blocks == 1..MaxBlock

VARIABLES
  chain,          \* external: the event of each block
  pc,             \* "boot", "warmup" (30 s, then the simulation), "poll", "fetch"
  lastProcessed,  \* _last_processed_block, 0 for None: the code tests for both
  current,        \* current_block, meaningful while a fetch is awaited
  handled,        \* how often this process dispatched the event of a block
  sleeping,       \* blocks of the epochs in the 20 s sleep
  day,            \* _current_day; Unset: the attribute does not exist
  counted,        \* head that dayCounter was read at
  skipped         \* blocks this process decided never to fetch

local == <<pc, lastProcessed, current, handled, sleeping, day, counted, skipped>>
vars == <<chain, local>>

Heads == {h \in 1..Len(chain) : h + HeadLag >= Len(chain)}

DaysUpTo(h) == {d \in 1..h : chain[d] = "day"}

Init ==
  /\ \E k \in Kinds : chain = <<k>>
  /\ pc = "boot"
  /\ lastProcessed = 0
  /\ current = 0
  /\ handled = [b \in Blocks |-> 0]
  /\ sleeping = {}
  /\ day = Unset
  /\ counted = 0
  /\ skipped = {}

\* External: the anchor chain grows, one tracked event per block at most.
Mine ==
  /\ Len(chain) < MaxBlock
  /\ \E k \in Kinds : chain' = Append(chain, k)
  /\ UNCHANGED local

-----------------------------------------------------------------------------
(***************************************************************************)
(* init: the distributor reads dayCounter; a failure is logged only, and   *)
(* leaves _current_day undefined.  The simulated epoch then raises an      *)
(* AttributeError, the process exits and its container is restarted.  A    *)
(* simulation that fails for another reason is one of the crashes.         *)
(***************************************************************************)
ReadDay ==
  /\ pc = "boot"
  /\ \E h \in Heads :
       /\ day' = Cardinality(DaysUpTo(h))
       /\ counted' = h
  /\ pc' = "warmup"
  /\ UNCHANGED <<chain, lastProcessed, current, handled, sleeping, skipped>>

ReadDayFails ==
  /\ pc = "boot"
  /\ pc' = "warmup"
  /\ UNCHANGED <<chain, lastProcessed, current, handled, sleeping, day, counted, skipped>>

Simulate_NoDayNeeded ==
  /\ pc = "warmup"
  /\ pc' = "poll"
  /\ UNCHANGED <<chain, lastProcessed, current, handled, sleeping, day, counted, skipped>>

Simulate ==
  /\ pc = "warmup"
  /\ day # Unset
  /\ pc' = "poll"
  /\ UNCHANGED <<chain, lastProcessed, current, handled, sleeping, day, counted, skipped>>

Restart ==
  /\ pc' = "boot"
  /\ lastProcessed' = 0
  /\ current' = 0
  /\ handled' = [b \in Blocks |-> 0]
  /\ sleeping' = {}
  /\ day' = Unset
  /\ counted' = 0
  /\ skipped' = {}
  /\ UNCHANGED chain

SimulateFails == pc = "warmup" /\ day = Unset /\ Restart

\* A signal, sys.exit(1) in the health check, the death of the container.
Crash == pc # "boot" /\ Restart

-----------------------------------------------------------------------------
(***************************************************************************)
(* _detect_events.  A head that cannot be read changes nothing.            *)
(***************************************************************************)
UpToDate_HeadAgain(last, head) == last > head

UpToDate_OffByOne(last, head) == last >= head - 1

UpToDate(last, head) == last >= head

CatchUp_Uncapped(last, head) == last

CatchUp(last, head) == IF head - last >= MaxGap THEN head - MaxGap ELSE last

FirstMark_Genesis(head) == 0

\* _last_processed_block before the first poll: the head itself is fetched.
FirstMark(head) == head - 1

Poll(head) ==
  LET last == IF lastProcessed = 0 THEN FirstMark(head) ELSE lastProcessed
      start == CatchUp(last, head)
  IN  /\ pc = "poll"
      /\ ~UpToDate(last, head)
      /\ pc' = "fetch"
      /\ current' = head
      /\ lastProcessed' = start
      /\ skipped' = skipped \cup (lastProcessed + 1 .. start)
      /\ UNCHANGED <<chain, handled, sleeping, day, counted>>

FetchFails_Advances ==
  /\ pc = "fetch"
  /\ pc' = "poll"
  /\ lastProcessed' = current
  /\ UNCHANGED <<chain, current, handled, sleeping, day, counted, skipped>>

FetchFails ==
  /\ pc = "fetch"
  /\ pc' = "poll"
  /\ UNCHANGED <<chain, lastProcessed, current, handled, sleeping, day, counted, skipped>>

Fetched_Inclusive == (lastProcessed .. current) \ {0}

Fetched == lastProcessed + 1 .. current

\* get_events: the day events of every data market pass the filter.  The
\* node that answers is assumed to know the logs of every block asked for.
Events == {b \in Fetched : chain[b] \in {"epoch", "day", "dayOther", "task"}}

\* process_event: a day event bumps the counter, a task event is only logged.
DayStarts_None == 0

DayStarts == Cardinality({b \in Events : chain[b] \in {"day", "dayOther"}})

FetchSucceeds ==
  /\ pc = "fetch"
  /\ pc' = "poll"
  /\ handled' = [b \in Blocks |-> IF b \in Events THEN handled[b] + 1 ELSE handled[b]]
  /\ sleeping' = sleeping \cup {b \in Events : chain[b] = "epoch"}
  /\ day' = day + DayStarts
  /\ lastProcessed' = current
  /\ UNCHANGED <<chain, current, counted, skipped>>

EpochWakes_AnyOrder(b) ==
  /\ b \in sleeping
  /\ sleeping' = sleeping \ {b}
  /\ UNCHANGED <<chain, pc, lastProcessed, current, handled, day, counted, skipped>>

\* The sleeps end in the order they began; _epoch_release_processor then
\* reads the day.
EpochWakes(b) ==
  /\ b \in sleeping
  /\ \A c \in sleeping : b <= c
  /\ sleeping' = sleeping \ {b}
  /\ UNCHANGED <<chain, pc, lastProcessed, current, handled, day, counted, skipped>>

Next ==
  \/ Mine
  \/ ReadDay
  \/ ReadDayFails
  \/ Simulate
  \/ SimulateFails
  \/ Crash
  \/ \E head \in Heads : Poll(head)
  \/ FetchFails
  \/ FetchSucceeds
  \/ \E b \in Blocks : EpochWakes(b)

Spec == Init /\ [][Next]_vars

(***************************************************************************)
(* The loop keeps polling and wakes what slept enough; the RPC answers     *)
(* again and again, with the true head again and again, but may fail or    *)
(* lag between any two answers.                                            *)
(***************************************************************************)
Fairness ==
  /\ SF_vars(ReadDay)
  /\ WF_vars(Simulate)
  /\ WF_vars(SimulateFails)
  /\ SF_vars(Poll(Len(chain)))
  /\ SF_vars(FetchSucceeds)
  /\ \A b \in Blocks : WF_vars(EpochWakes(b))

FairSpec == Spec /\ Fairness

-----------------------------------------------------------------------------
(***************************************************************************)
(* Properties.                                                             *)
(***************************************************************************)

\* Types and ranges; a fetch asks for at least one block and at most MaxGap.
TypeOK ==
  /\ chain \in Seq(Kinds)
  /\ Len(chain) \in 1..MaxBlock
  /\ pc \in {"boot", "warmup", "poll", "fetch"}
  /\ lastProcessed \in 0..Len(chain)
  /\ current \in 0..Len(chain)
  /\ handled \in [Blocks -> Nat]
  /\ sleeping \subseteq Blocks
  /\ day \in Nat \cup {Unset}
  /\ counted \in 0..Len(chain)
  /\ skipped \subseteq 1..lastProcessed
  /\ pc = "fetch" => current - lastProcessed \in 1..MaxGap

\* One process never dispatches an event twice, whatever the node lags, the
\* fetches that fail after _last_processed_block was moved and the catch-up:
\* nothing past the mark was dispatched, and nothing skipped.
DispatchedOnce ==
  \A b \in Blocks : handled[b] <= IF b \in 1..lastProcessed \ skipped THEN 1 ELSE 0

\* No event is lost silently: up to _last_processed_block, an event of the
\* data market or of the slot was dispatched unless the loop chose to skip
\* its block (before the first poll, or MaxGap or more blocks behind the head).
NothingLost ==
  \A b \in 1..lastProcessed :
    chain[b] \in {"epoch", "day", "task"} => b \in skipped \/ handled[b] = 1

DaysKnown == {d \in DaysUpTo(Len(chain)) :
                d <= counted \/ d \in 1..lastProcessed \ skipped}

\* The day an epoch is about to be stamped with is never behind the days the
\* process could know of: those dayCounter included when it was read and
\* those started in a block that was not skipped.  An epoch never meets an
\* undefined counter.
DayNotBehind ==
  /\ sleeping # {} => day # Unset
  /\ \A b \in sleeping : day >= Cardinality({d \in DaysKnown : d <= b})

\* The day is never ahead of the days the process knows of by more than two
\* causes explain: days of other data markets it fetched, and days in the last
\* blocks dayCounter included, which a lagging first head fetches once more.
\* Neither failed fetches nor catch-up ever add a day.
RecountedDays == {d \in DaysUpTo(counted) : d + HeadLag >= counted}

ForeignDays == {b \in 1..lastProcessed \ skipped : chain[b] = "dayOther"}

DayNotAhead ==
  day # Unset =>
    day <= Cardinality(DaysKnown) + Cardinality(RecountedDays) + Cardinality(ForeignDays)

\* What the invariants above rest on: nothing is known before dayCounter was
\* read, an epoch that sleeps was fetched, and the counter covers every day
\* the process knows of.
FreshUntilPoll ==
  /\ pc \in {"boot", "warmup"} => lastProcessed = 0 /\ sleeping = {}
  /\ pc \notin {"boot", "warmup"} => day # Unset
  /\ pc = "boot" => day = Unset

SleepingFetched == sleeping \subseteq 1..lastProcessed

DayCovers == day # Unset => day >= Cardinality(DaysKnown)

IInv ==
  /\ TypeOK
  /\ DispatchedOnce
  /\ NothingLost
  /\ FreshUntilPoll
  /\ SleepingFetched
  /\ DayCovers

\* A process that lives processes every block that exists, and every epoch it
\* dispatched wakes, however the fetches fail and the node lags in between.
EventHandled ==
  \A b \in Blocks :
    pc # "boot" /\ b <= Len(chain)
      ~> pc = "boot" \/ (b <= lastProcessed /\ b \notin sleeping)

(***************************************************************************)
(* What the documentation says and the code does not do.                   *)
(***************************************************************************)

\* Docstring of get_events: events are filtered by data market address.
DispatchedOwn ==
  \A b \in 1..Len(chain) : handled[b] > 0 => chain[b] # "dayOther"
=============================================================================
