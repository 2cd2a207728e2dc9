------------------------- MODULE PeriodicWorkProofs -------------------------
(***************************************************************************)
(* The properties of PeriodicWork for every interval and every clock.      *)
(*                                                                         *)
(* The argument: a sleep that begins at the time t after a tick that ended *)
(* at or before t lasts until the next point of the grid after that end;   *)
(* from then on the clock is Due, that is, in a later slot than the one    *)
(* the tick ended in and in no earlier one than the number of the next     *)
(* tick.  Being due is not lost as time passes.                            *)
(***************************************************************************)
EXTENDS PeriodicWork, TLAPS

\* The time t is late enough for the next tick to begin.
Due(t) == Slot(t) >= tick_counter /\ (reached # Never => Slot(t) > Slot(reached))

\* The tick that is running began when it was due.
Running == reached \in start_ts..clock /\ tick_counter <= Slot(reached)

IInv ==
  /\ TypeOK
  /\ reached # Never => reached \in start_ts..clock
  /\ pc = "tick"  => Running
  /\ pc = "awake" => Due(clock + dur_to_sleep)
  /\ pc = "sleep" => wake >= start_ts /\ Due(wake)
  /\ pc = "loop"  => Due(clock)

-----------------------------------------------------------------------------
\* Division does not decrease: what the time says of the slot is monotone.
LEMMA DivMonotone ==
  ASSUME NEW a \in Nat, NEW b \in Nat, NEW d \in Nat \ {0}, a <= b
  PROVE  a \div d \in Nat /\ a \div d <= b \div d
BY SMT

\* What dur_to_sleep adds to a time takes it to the next multiple of d.
LEMMA DivNext ==
  ASSUME NEW a \in Nat, NEW d \in Nat \ {0}
  PROVE  /\ d - (a % d) \in 1..d
         /\ (a + (d - (a % d))) \div d = (a \div d) + 1
BY SMT

\* The slot of a later time is no earlier.
LEMMA SlotMonotone ==
  ASSUME TypeOK, NEW t \in Nat, NEW u \in Nat, start_ts <= t, t <= u
  PROVE  Slot(t) \in Nat /\ Slot(u) \in Nat /\ Slot(t) <= Slot(u)
<1>1. t - start_ts \in Nat /\ u - start_ts \in Nat /\ t - start_ts <= u - start_ts
  BY DEF TypeOK
<1>2. Interval \in Nat \ {0}
  BY PeriodicWorkAssumption
<1> QED
  BY <1>1, <1>2, DivMonotone DEF Slot

\* periodic_work starts with the invariant.
LEMMA InitIInv == Init => IInv
<1> SUFFICES ASSUME Init PROVE IInv
  OBVIOUS
<1>1. Interval \in Nat \ {0} /\ Never \notin Int
  BY PeriodicWorkAssumption
<1>2. TypeOK
  <2>1. /\ clock \in Nat /\ start_ts \in Nat /\ start_ts <= clock /\ wake \in Nat
        /\ tick_counter \in Nat /\ dur_to_sleep \in 0..Interval
    BY <1>1 DEF Init
  <2> QED
    BY <2>1 DEF Init, TypeOK
<1>3. Slot(clock) \in Nat
  BY <1>2, SlotMonotone DEF TypeOK
<1> QED
  BY <1>1, <1>2, <1>3 DEF Init, IInv, Due

\* Every step keeps the invariant.
LEMMA NextIInv == IInv /\ [Next]_vars => IInv'
<1> SUFFICES ASSUME IInv, [Next]_vars PROVE IInv'
  OBVIOUS
<1> USE DEF IInv
<1>0. Interval \in Nat \ {0} /\ Never \notin Int
  BY PeriodicWorkAssumption
<1>1. CASE BeginTick
  BY <1>0, <1>1, SlotMonotone DEF BeginTick, TypeOK, Running, Due, Slot
<1>2. CASE EndTick
  <2> DEFINE e == clock - start_ts
  <2>1. e \in Nat
    BY DEF TypeOK
  <2>2. /\ dur_to_sleep' \in 1..Interval
        /\ (e + dur_to_sleep') \div Interval = Slot(clock) + 1
    BY <1>0, <1>2, <2>1, DivNext DEF EndTick, ToNextSlot, Slot
  <2>3. Slot(reached) <= Slot(clock) /\ tick_counter <= Slot(reached)
    BY <1>2, SlotMonotone DEF EndTick, TypeOK, Running
  <2>4. TypeOK'
    BY <1>0, <1>2, <2>2 DEF EndTick, TypeOK
  <2>5. e + dur_to_sleep' = clock' + dur_to_sleep' - start_ts'
    BY <1>2, <2>2 DEF EndTick, TypeOK
  <2>6. Slot(clock + dur_to_sleep)' = Slot(clock) + 1
    BY <1>0, <1>2, <2>1, <2>2, <2>4, <2>5 DEF EndTick, Slot, TypeOK
  <2>7. Slot(reached) \in Int /\ Slot(clock) \in Int /\ Slot(reached)' = Slot(clock)
    BY <1>2, SlotMonotone DEF EndTick, TypeOK, Running, Slot
  <2>8. Due(clock + dur_to_sleep)'
    BY <1>2, <2>3, <2>6, <2>7 DEF EndTick, Due, TypeOK
  <2> QED
    BY <1>0, <1>2, <2>4, <2>8 DEF EndTick, TypeOK
<1>3. CASE Sleep
  BY <1>0, <1>3 DEF Sleep, TypeOK, Due, Slot
<1>4. CASE Wake
  <2>1. Slot(wake) <= Slot(clock) /\ Slot(wake) \in Nat /\ Slot(clock) \in Nat
    BY <1>4, SlotMonotone DEF Wake, TypeOK
  <2>2. reached # Never => Slot(reached) \in Nat
    BY SlotMonotone DEF TypeOK
  <2> QED
    BY <1>0, <1>4, <2>1, <2>2 DEF Wake, TypeOK, Due, Slot
<1>5. CASE Stop
  BY <1>0, <1>5 DEF Stop, TypeOK
<1>6. CASE Signal
  BY <1>0, <1>6 DEF Signal, TypeOK, Due, Slot, Running
<1>7. CASE Pass
  <2>1. PICK t \in clock + 1..MaxClock : clock' = t
    BY <1>7 DEF Pass
  <2>2. TypeOK' /\ clock < clock' /\ clock' \in Nat
    BY <1>0, <1>7, <2>1, PeriodicWorkAssumption DEF Pass, TypeOK
  <2>3. /\ Slot(clock) <= Slot(clock') /\ Slot(clock) \in Nat /\ Slot(clock') \in Nat
        /\ \A d \in Nat : /\ Slot(clock + d) <= Slot(clock' + d)
                          /\ Slot(clock + d) \in Nat /\ Slot(clock' + d) \in Nat
    BY <2>2, SlotMonotone DEF TypeOK
  <2>4. reached # Never => Slot(reached) \in Nat
    BY SlotMonotone DEF TypeOK
  <2>5. pc = "awake" => Due(clock + dur_to_sleep)'
    BY <1>7, <2>2, <2>3, <2>4 DEF Pass, TypeOK, Due, Slot
  <2>6. pc = "loop" => Due(clock)'
    BY <1>7, <2>2, <2>3, <2>4 DEF Pass, TypeOK, Due, Slot
  <2>7. pc = "sleep" => Due(wake)'
    BY <1>7 DEF Pass, Due, Slot
  <2>8. pc = "tick" => Running'
    BY <1>7, <2>2 DEF Pass, Running, TypeOK, Slot
  <2> QED
    BY <1>7, <2>2, <2>5, <2>6, <2>7, <2>8 DEF Pass, TypeOK
<1>8. CASE UNCHANGED vars
  BY <1>8 DEF vars, TypeOK, Due, Slot, Running
<1> QED
  BY <1>1, <1>2, <1>3, <1>4, <1>5, <1>6, <1>7, <1>8 DEF Next

\* The invariant holds in every reachable state.
THEOREM Invariance == Spec => []IInv
BY InitIInv, NextIInv, PTL DEF Spec

\* Every variable of periodic_work keeps its type, for every interval.
THEOREM TypeCorrect == Spec => []TypeOK
<1>1. IInv => TypeOK
  BY DEF IInv
<1> QED
  BY <1>1, Invariance, PTL

\* The number of a tick is never ahead of the time (record.cc:27-33).
THEOREM NeverAheadHolds == Spec => []NeverAhead
<1>1. ASSUME IInv PROVE NeverAhead
  <2>1. CASE pc = "loop"
    BY <1>1, <2>1 DEF IInv, NeverAhead, Due, TypeOK
  <2>2. CASE pc = "tick"
    <3>1. Slot(reached) <= Slot(clock) /\ Slot(reached) \in Nat /\ Slot(clock) \in Nat
      BY <1>1, <2>2, SlotMonotone DEF IInv, Running, TypeOK
    <3> QED
      BY <1>1, <2>2, <3>1 DEF IInv, NeverAhead, Running, TypeOK
  <2> QED
    BY <2>1, <2>2 DEF NeverAhead
<1> QED
  BY <1>1, Invariance, PTL

\* A tick begins in a later slot of the grid than the one in which the tick
\* before it ended (record.cc:30-32).
THEOREM OneTickPerSlotHolds == Spec => OneTickPerSlot
<1>1. IInv /\ [Next]_vars =>
        [pc = "loop" /\ pc' = "tick" /\ reached # Never
           => Slot(clock) > Slot(reached)]_vars
  BY DEF IInv, Due
<1> QED
  BY <1>1, Invariance, PTL DEF Spec, OneTickPerSlot
=============================================================================
