---------------------------- MODULE PeriodicWork ----------------------------
(***************************************************************************)
(* The time of periodic_work (src/src/record.cc:17-34).  Ticks are to fall *)
(* on a grid of period Interval that starts with the loop; each sleep is   *)
(* computed from the clock, so that a late tick does not delay the later   *)
(* ones.  A tick takes any time, the thread may lose the processor between *)
(* any two steps, and sleep_for sleeps at least as long as it was told to. *)
(*                                                                         *)
(* Recorder models what a tick does; here it is an interval of time.       *)
(***************************************************************************)
EXTENDS Integers

CONSTANTS
  Interval,   \* interval.count(): the tick interval, in units of the clock
  MaxClock,   \* bound on the clock
  Never       \* "no tick has begun yet"

\* periodic_work divides by interval.count().  The options the program is run
\* with must give a positive one: -i 0 does (record.cc:8), a value whose
\* nanoseconds do not fit 63 bits need not.
ASSUME PeriodicWorkAssumption ==
  /\ Interval \in Nat \ {0}
  /\ MaxClock \in Nat
  /\ Never \notin Int

VARIABLES
  pc,            \* "loop", "tick", "awake" (about to sleep), "sleep", "stopped"
  clock,         \* steady_clock
  start_ts,      \* start_ts_ns
  tick_counter,
  dur_to_sleep,
  wake,          \* the earliest time at which sleep_for may return
  stop,          \* env.shutdown
  reached        \* history: how far the last tick has come: when it read the
                 \* clock, then when it returned; or Never

vars == <<pc, clock, start_ts, tick_counter, dur_to_sleep, wake, stop, reached>>

Init ==
  /\ pc = "loop"
  /\ clock \in 0..Interval
  /\ start_ts = clock
  /\ tick_counter = 0
  /\ dur_to_sleep = 0
  /\ wake = clock
  /\ stop = FALSE
  /\ reached = Never

\* The slot of the grid that the time t falls in.
Slot(t) == (t - start_ts) \div Interval

\* The while condition holds, and tick() reads the clock (record.cc:43).
BeginTick ==
  /\ pc = "loop" /\ ~stop
  /\ pc' = "tick"
  /\ reached' = clock
  /\ UNCHANGED <<clock, start_ts, tick_counter, dur_to_sleep, wake, stop>>

\* A sleep of no time when the tick ends on the grid.
BugToNextSlot(t) ==
  (Interval - ((t - start_ts) % Interval)) % Interval

\* The sign is wrong: the time since the last grid point is added.
BugToSlotAfterNext(t) == Interval + ((t - start_ts) % Interval)

ToNextSlot(t) == Interval - ((t - start_ts) % Interval)

\* tick() returns, and the time to sleep is computed from the clock.
EndTick ==
  /\ pc = "tick"
  /\ pc' = "awake"
  /\ tick_counter' = tick_counter + 1
  /\ dur_to_sleep' = ToNextSlot(clock)
  /\ reached' = clock
  /\ UNCHANGED <<clock, start_ts, wake, stop>>

\* sleep_for takes its own reading of the clock.
Sleep ==
  /\ pc = "awake"
  /\ pc' = "sleep"
  /\ wake' = clock + dur_to_sleep
  /\ UNCHANGED <<clock, start_ts, tick_counter, dur_to_sleep, stop, reached>>

Wake ==
  /\ pc = "sleep"
  /\ clock >= wake
  /\ pc' = "loop"
  /\ UNCHANGED <<clock, start_ts, tick_counter, dur_to_sleep, wake, stop, reached>>

Stop ==
  /\ pc = "loop" /\ stop
  /\ pc' = "stopped"
  /\ UNCHANGED <<clock, start_ts, tick_counter, dur_to_sleep, wake, stop, reached>>

Signal ==
  /\ ~stop
  /\ stop' = TRUE
  /\ UNCHANGED <<pc, clock, start_ts, tick_counter, dur_to_sleep, wake, reached>>

\* Time passes, by any amount, whatever the thread is at.
Pass ==
  /\ \E t \in clock + 1..MaxClock : clock' = t
  /\ UNCHANGED <<pc, start_ts, tick_counter, dur_to_sleep, wake, stop, reached>>

Next ==
  BeginTick \/ EndTick \/ Sleep \/ Wake \/ Stop \/ Signal \/ Pass

Spec == Init /\ [][Next]_vars

-----------------------------------------------------------------------------
\* Every variable has its type; a sleep is never longer than a period.
TypeOK ==
  /\ pc \in {"loop", "tick", "awake", "sleep", "stopped"}
  /\ clock \in Nat /\ start_ts \in Nat /\ start_ts <= clock
  /\ tick_counter \in Nat
  /\ dur_to_sleep \in 0..Interval
  /\ wake \in Nat
  /\ stop \in BOOLEAN
  /\ reached \in Nat \cup {Never}

\* A tick begins in a later slot of the grid than the one in which the tick
\* before it ended, and so than the one in which that began: the timestamps of
\* the output increase from tick to tick (summarize.cc divides by their
\* difference), and the slots that a tick overran are not made up for by a burst
\* of short ticks.
OneTickPerSlot ==
  [][pc = "loop" /\ pc' = "tick" /\ reached # Never
       => Slot(clock) > Slot(reached)]_vars

\* The number of a tick is never ahead of the time: the k-th tick (from 0) does
\* not begin before k periods have passed.  So the m-th refresh of the map (from
\* 0), at tick m * n_ticks_to_refresh (record.cc:48), waits for that many periods;
\* n_ticks_to_refresh being rounded down (record.cc:10), they may be less than m
\* refresh intervals.
NeverAhead == pc \in {"loop", "tick"} => tick_counter <= Slot(clock)
=============================================================================
