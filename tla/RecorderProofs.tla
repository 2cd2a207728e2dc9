--------------------------- MODULE RecorderProofs ---------------------------
(***************************************************************************)
(* The safety of Recorder for every set of ids, every number of callbacks, *)
(* every interval and every width of the tick counter.                     *)
(*                                                                         *)
(* The argument, one named part of the invariant each: between ticks the   *)
(* buffer is empty (Clean), and it has held all that was not printed       *)
(* (Unprinted); during a tick the instances still to be asked are those of *)
(* the installed map (Walking), which does not change, and so are the ones *)
(* in the buffer (LookupsHit); every instance that was asked and lived has *)
(* its sample (Complete); the map is not older than the tick counter is    *)
(* past the last multiple of the period (Aging).                           *)
(***************************************************************************)
EXTENDS Recorder, ManagerProofs

Clean ==
  /\ phase = "aborted" => pc = "aborted"
  /\ pc \in {"loop", "refresh", "sleep", "stopped"} =>
       buffer = EmptyBuffer /\ pending = {}
  /\ pc = "system" => buffer.process = {} /\ buffer.thread = {} /\ pending = {}
  /\ pc = "process" => buffer.thread = {}

\* What is not printed yet is what is in the buffer.
Unprinted == unprinted = buffer

Walking ==
  /\ pc = "process" => pending \subseteq ProcessInstances /\ callback >= 1
  /\ pc = "thread" => pending \subseteq ThreadInstances /\ callback >= 1
  /\ pc = "report" => pending = {}

\* An id that no task has during a tick is remembered as gone.
Watched == (Collecting \/ pc = "refresh") => {i \in Ids : ~Live(i)} \subseteq gone

\* The callback k has been given the instance i.
Asked(k, i) == k < callback \/ (k = callback /\ i \notin pending)

Complete ==
  /\ pc \in {"process", "thread", "report"} =>
       \A k \in 1..funcs.process, p \in ProcessInstances :
         p \notin gone /\ (pc = "process" => Asked(k, p)) => <<k, p>> \in buffer.process
  /\ pc \in {"thread", "report"} =>
       \A k \in 1..funcs.thread, p \in Ids, t \in Ids :
         <<p, t>> \in ThreadInstances /\ t \notin gone
           /\ (pc = "thread" => Asked(k, <<p, t>>))
           => <<k, p, t>> \in buffer.thread

Aging ==
  /\ pc = "refresh" => NeedsRefresh
  /\ Collecting => age <= tick_counter % n_ticks_to_refresh
  /\ pc \in {"loop", "sleep"} /\ ~NeedsRefresh =>
       age < tick_counter % n_ticks_to_refresh

IInv ==
  /\ TypeOK
  /\ ManagerInv
  /\ Clean
  /\ Unprinted
  /\ Walking
  /\ LookupsHit
  /\ Watched
  /\ Complete
  /\ Aging

-----------------------------------------------------------------------------
\* The period is at least one tick.
LEMMA PeriodType == n_ticks_to_refresh \in Nat \ {0}
<1>1. tick_interval_ms \in Nat \ {0}
  BY RecorderAssumption DEF tick_interval_ms, AtLeastOne
<1>2. RefreshIntervalMs \div tick_interval_ms \in Nat
  BY <1>1, RecorderAssumption
<1> QED
  BY <1>2 DEF n_ticks_to_refresh, AtLeastOne

\* Counting on, the remainder grows by one until it is zero.
LEMMA ModStep ==
  ASSUME NEW a \in Nat, NEW n \in Nat \ {0}
  PROVE  /\ a % n \in 0..n - 1
         /\ (a + 1) % n # 0 => (a + 1) % n = (a % n) + 1
BY SMT

\* The wrapped counter either goes on counting or is a multiple of the period.
LEMMA CounterStep ==
  ASSUME NEW a \in 0..CounterMod - 1, NEW b, b = (a + 1) % CounterMod
  PROVE  b \in 0..CounterMod - 1 /\ (b = a + 1 \/ b = 0)
BY RecorderAssumption

\* Where instances come from.
LEMMA InstanceTypes ==
  ASSUME ManagerTypeOK
  PROVE  /\ ProcessInstances \subseteq Ids
         /\ ThreadInstances \subseteq Ids \X Ids
         /\ \A p, t \in Ids :
              <<p, t>> \in ThreadInstances
                <=> p \in Mapped(process_map) /\ t \in MappedThreads(process_map, p)
BY DEF ProcessInstances, ThreadInstances, Mapped, MappedThreads

-----------------------------------------------------------------------------
\* run() starts with the invariant.
LEMMA InitIInv == Init => IInv
<1> SUFFICES ASSUME Init PROVE IInv
  OBVIOUS
<1>1. ManagerInv
  BY ManagerInitInv DEF Init
<1>2. TypeOK
  <2>1. tick_counter \in 0..CounterMod - 1 /\ age \in Nat /\ callback \in Nat
    BY RecorderAssumption DEF Init
  <2>2. buffer \in Entries
    BY DEF Init, EmptyBuffer, Entries
  <2> QED
    BY <1>1, <2>1, <2>2 DEF Init, ManagerInit, ManagerInv, TypeOK, Control
<1>3. 0 % n_ticks_to_refresh = 0
  BY PeriodType
<1> QED
  BY <1>1, <1>2, <1>3
     DEF Init, ManagerInit, IInv, Clean, Unprinted, Walking, LookupsHit, Watched, Complete, Aging,
         EmptyBuffer, NeedsRefresh, Collecting
-----------------------------------------------------------------------------
\* A step that leaves the manager alone keeps what the invariant says of it,
\* and the instances.
LEMMA ManagerKept ==
  ASSUME ManagerInv, UNCHANGED managerVars
  PROVE  /\ ManagerInv'
         /\ ProcessInstances' = ProcessInstances /\ ThreadInstances' = ThreadInstances
         /\ phase' = phase /\ config' = config
         /\ \A i : Live(i)' <=> Live(i)
         /\ \A m : Mapped(m)' = Mapped(m)
         /\ process_map' = process_map
<1> USE DEF managerVars
<1>1. ManagerInv'
  BY DEF ManagerInv, ManagerTypeOK, Live
<1>2. ProcessInstances' = ProcessInstances
  BY DEF ProcessInstances, Mapped
<1>3. ThreadInstances' = ThreadInstances
  BY DEF ThreadInstances, Mapped, MappedThreads
<1> QED
  BY <1>1, <1>2, <1>3 DEF Live, Mapped

\* A tick begins, with or without a refresh.
LEMMA StartInv == IInv /\ (StartRefreshTick \/ StartPlainTick) => IInv'
<1>1. ASSUME IInv, StartRefreshTick PROVE IInv'
  <2> USE <1>1 DEF StartRefreshTick, GoesOn
  <2>1. ManagerInv'
    BY RefreshInv DEF IInv
  <2>2. phase = "idle" /\ phase' = "pcomm" /\ process_map' = process_map
    BY DEF Refresh
  <2>3. TypeOK'
    BY <2>1, <2>2 DEF IInv, TypeOK, ManagerInv, Control
  <2>4. LookupsHit'
    BY <2>2 DEF IInv, LookupsHit, Mapped, MappedThreads
  <2>5. Watched'
    BY DEF Watched, Collecting, Live, tableVars
  <2>6. Aging'
    BY DEF Aging, NeedsRefresh, Collecting
  <2> QED
    BY <2>1, <2>2, <2>3, <2>4, <2>5, <2>6 DEF IInv, Clean, Unprinted, Walking, Complete
<1>2. ASSUME IInv, StartPlainTick PROVE IInv'
  <2> USE <1>2 DEF StartPlainTick, GoesOn
  <2>1. ManagerInv' /\ phase' = phase /\ process_map' = process_map
    BY ManagerKept DEF IInv
  <2>2. TypeOK'
    BY <2>1 DEF IInv, TypeOK, ManagerInv, Control
  <2>3. LookupsHit'
    BY <2>1 DEF IInv, LookupsHit, Mapped, MappedThreads
  <2>4. Watched'
    BY DEF Watched, Collecting, Live, managerVars
  <2>5. Aging'
    BY PeriodType, ModStep DEF IInv, TypeOK, Aging, NeedsRefresh, Collecting
  <2> QED
    BY <2>1, <2>2, <2>3, <2>4, <2>5 DEF IInv, Clean, Unprinted, Walking, Complete, EmptyBuffer
<1> QED
  BY <1>1, <1>2

\* A step of a refresh: nothing is buffered, and what it installs is new.
LEMMA InRefreshInv == IInv /\ InRefresh => IInv'
<1> SUFFICES ASSUME IInv, InRefresh PROVE IInv'
  OBVIOUS
<1> USE DEF InRefresh
<1>1. ManagerInv' /\ phase' \in Phase
  BY RefreshStepInv DEF IInv, ManagerInv, ManagerTypeOK
<1>2. pc' \in {"refresh", "system", "aborted"}
  OBVIOUS
<1>3. TypeOK'
  BY <1>1 DEF IInv, TypeOK, ManagerInv, Control, Phase
<1>4. LookupsHit'
  BY DEF IInv, LookupsHit, Clean, EmptyBuffer
<1>5. Watched'
  BY <1>2 DEF IInv, Watched, Collecting, Live, tableVars
<1>6. Aging'
  BY PeriodType, ModStep DEF IInv, TypeOK, Aging, NeedsRefresh, Collecting, Phase
<1>7. Clean'
  BY DEF IInv, Clean, EmptyBuffer
<1> QED
  BY <1>1, <1>2, <1>3, <1>4, <1>5, <1>6, <1>7 DEF IInv, Unprinted, Walking, Complete

\* The system callbacks.
LEMMA SystemInv == IInv /\ (CollectSystem \/ EndSystem) => IInv'
<1>1. ASSUME IInv, CollectSystem PROVE IInv'
  <2> USE <1>1 DEF CollectSystem, Put
  <2>1. ManagerInv' /\ phase' = phase /\ process_map' = process_map
    BY ManagerKept DEF IInv
  <2>2. /\ buffer'.process = buffer.process /\ buffer'.thread = buffer.thread
        /\ buffer' \in Entries /\ unprinted' = buffer' /\ callback' \in Nat
    BY DEF IInv, TypeOK, Unprinted, Entries
  <2>3. TypeOK'
    BY <2>1, <2>2 DEF IInv, TypeOK, ManagerInv
  <2>4. LookupsHit'
    BY <2>1, <2>2 DEF IInv, LookupsHit, Mapped, MappedThreads
  <2>5. Watched'
    BY DEF IInv, Watched, Collecting, Live, managerVars
  <2> QED
    BY <2>1, <2>2, <2>3, <2>4, <2>5
       DEF IInv, Clean, Unprinted, Walking, Complete, Aging, NeedsRefresh, Collecting
<1>2. ASSUME IInv, EndSystem PROVE IInv'
  <2> USE <1>2 DEF EndSystem, Begin
  <2>1. /\ ManagerInv' /\ phase' = phase /\ process_map' = process_map
        /\ ProcessInstances' = ProcessInstances
    BY ManagerKept DEF IInv
  <2>2. pending' \subseteq ProcessInstances /\ ProcessInstances \subseteq Ids
    BY InstanceTypes DEF IInv, ManagerInv
  <2>3. TypeOK'
    BY <2>1, <2>2 DEF IInv, TypeOK, ManagerInv, Control
  <2>4. LookupsHit'
    BY <2>1 DEF IInv, LookupsHit, Mapped, MappedThreads
  <2>5. Watched'
    BY DEF IInv, Watched, Collecting, Live, managerVars
  <2>6. funcs \in [system : Nat, process : Nat, thread : Nat]
    BY RecorderAssumption DEF IInv, TypeOK
  <2>7. Complete'
    BY <2>1, <2>6 DEF Complete, Asked
  <2> QED
    BY <2>1, <2>2, <2>3, <2>4, <2>5, <2>7
       DEF IInv, Clean, Unprinted, Walking, Aging, NeedsRefresh, Collecting
<1> QED
  BY <1>1, <1>2

\* One process is asked about.
LEMMA CollectProcessInv ==
  ASSUME IInv, NEW p \in Ids, CollectProcess(p)
  PROVE  IInv'
<1> USE DEF CollectProcess, Put
<1>1. /\ ManagerInv' /\ phase' = phase /\ process_map' = process_map
      /\ ProcessInstances' = ProcessInstances /\ Mapped(process_map)' = Mapped(process_map)
  BY ManagerKept DEF IInv
<1>2. p \in ProcessInstances /\ callback \in Nat \ {0}
  BY DEF IInv, TypeOK, Walking
<1>3. /\ buffer'.process \in {buffer.process, buffer.process \cup {<<callback, p>>}}
      /\ Live(p) => <<callback, p>> \in buffer'.process
      /\ buffer.process \subseteq buffer'.process
      /\ buffer'.thread = buffer.thread
      /\ buffer' \in Entries /\ unprinted' = buffer'
  BY <1>2 DEF IInv, TypeOK, Unprinted, Entries
<1>4. TypeOK'
  BY <1>1, <1>3 DEF IInv, TypeOK, ManagerInv
<1>5. LookupsHit'
  <2>1. \A e \in buffer'.process : e[2] \in Mapped(process_map)
    BY <1>2, <1>3 DEF IInv, LookupsHit, ProcessInstances
  <2> QED
    BY <1>1, <1>3, <2>1 DEF IInv, Clean, LookupsHit
<1>6. Watched'
  BY DEF IInv, Watched, Collecting, Live, managerVars
<1>7. Complete'
  <2> SUFFICES ASSUME NEW k \in 1..funcs.process, NEW q \in ProcessInstances,
                      q \notin gone, Asked(k, q)'
               PROVE  <<k, q>> \in buffer'.process
    BY <1>1 DEF Complete
  <2>1. CASE Asked(k, q)
    BY <1>3, <2>1 DEF IInv, Complete
  <2>2. CASE ~Asked(k, q)
    <3>1. k = callback /\ q = p
      BY <2>2 DEF Asked
    <3>2. Live(p)
      BY <3>1, <1>2, InstanceTypes DEF IInv, Watched, Collecting
    <3> QED
      BY <1>3, <3>1, <3>2
  <2> QED
    BY <2>1, <2>2
<1> QED
  BY <1>1, <1>2, <1>3, <1>4, <1>5, <1>6, <1>7
     DEF IInv, Clean, Unprinted, Walking, Aging, NeedsRefresh, Collecting

\* The walk over the processes ends.
LEMMA EndProcessInv == IInv /\ EndProcess => IInv'
<1> SUFFICES ASSUME IInv, EndProcess PROVE IInv'
  OBVIOUS
<1> USE DEF EndProcess
<1>1. /\ ManagerInv' /\ phase' = phase /\ process_map' = process_map
      /\ ProcessInstances' = ProcessInstances /\ ThreadInstances' = ThreadInstances
  BY ManagerKept DEF IInv
<1>2. LookupsHit' /\ Watched'
  BY <1>1 DEF IInv, LookupsHit, Mapped, MappedThreads, Watched, Collecting, Live, managerVars
<1>3. /\ funcs \in [system : Nat, process : Nat, thread : Nat]
      /\ callback \in Nat /\ callback >= 1
  BY RecorderAssumption DEF IInv, TypeOK, Walking
<1>4. ProcessInstances \subseteq Ids /\ ThreadInstances \subseteq Ids \X Ids
  BY InstanceTypes DEF IInv, ManagerInv
<1>5. \A k \in 1..funcs.process, q \in ProcessInstances :
        q \notin gone /\ k <= callback => <<k, q>> \in buffer.process
  BY <1>3 DEF IInv, Complete, Asked
<1>6. CASE callback < funcs.process
  <2>1. pc' = pc /\ callback' = callback + 1 /\ pending' = ProcessInstances
    BY <1>6 DEF NextFunc
  <2>2. TypeOK'
    BY <1>1, <1>4, <2>1 DEF IInv, TypeOK, ManagerInv
  <2>3. Complete'
    BY <1>1, <1>3, <1>5, <2>1 DEF Complete, Asked
  <2> QED
    BY <1>1, <1>2, <1>3, <2>1, <2>2, <2>3
       DEF IInv, Clean, Unprinted, Walking, Aging, NeedsRefresh, Collecting
<1>7. CASE ~(callback < funcs.process)
  <2>1. /\ pc' = "thread" /\ callback' = 1
        /\ pending' = IF funcs.thread > 0 THEN ThreadInstances ELSE {}
    BY <1>7 DEF Begin
  <2>2. TypeOK'
    BY <1>1, <1>4, <2>1 DEF IInv, TypeOK, ManagerInv, Control
  <2>3. \A k \in 1..funcs.process : k <= callback
    BY <1>3, <1>7
  <2>4. Complete'
    BY <1>1, <1>3, <1>5, <2>1, <2>3 DEF Complete, Asked
  <2> QED
    BY <1>1, <1>2, <2>1, <2>2, <2>4
       DEF IInv, Clean, Unprinted, Walking, Aging, NeedsRefresh, Collecting
<1> QED
  BY <1>6, <1>7

\* One thread is asked about.
LEMMA CollectThreadInv ==
  ASSUME IInv, NEW p \in Ids, NEW t \in Ids, CollectThread(p, t)
  PROVE  IInv'
<1> USE DEF CollectThread, Put
<1>1. /\ ManagerInv' /\ phase' = phase /\ process_map' = process_map
      /\ ProcessInstances' = ProcessInstances /\ ThreadInstances' = ThreadInstances
  BY ManagerKept DEF IInv
<1>2. <<p, t>> \in ThreadInstances /\ callback \in Nat \ {0}
  BY DEF IInv, TypeOK, Walking
<1>3. /\ buffer'.thread \in {buffer.thread, buffer.thread \cup {<<callback, p, t>>}}
      /\ Live(t) => <<callback, p, t>> \in buffer'.thread
      /\ buffer.thread \subseteq buffer'.thread
      /\ buffer'.process = buffer.process
      /\ buffer' \in Entries /\ unprinted' = buffer'
  BY <1>2 DEF IInv, TypeOK, Unprinted, Entries
<1>4. TypeOK'
  BY <1>1, <1>3 DEF IInv, TypeOK, ManagerInv
<1>5. LookupsHit'
  <2>1. p \in Mapped(process_map) /\ t \in MappedThreads(process_map, p)
    BY <1>2, InstanceTypes DEF IInv, ManagerInv
  <2>2. \A e \in buffer'.thread :
          e[2] \in Mapped(process_map) /\ e[3] \in MappedThreads(process_map, e[2])
    BY <1>3, <2>1 DEF IInv, LookupsHit
  <2> QED
    BY <1>1, <1>3, <2>2 DEF IInv, LookupsHit, Mapped, MappedThreads
<1>6. Watched'
  BY DEF IInv, Watched, Collecting, Live, managerVars
<1>7. \A k \in 1..funcs.thread, q \in Ids, u \in Ids :
        <<q, u>> \in ThreadInstances /\ u \notin gone /\ Asked(k, <<q, u>>)'
          => <<k, q, u>> \in buffer'.thread
  <2> SUFFICES ASSUME NEW k \in 1..funcs.thread, NEW q \in Ids, NEW u \in Ids,
                      <<q, u>> \in ThreadInstances, u \notin gone, Asked(k, <<q, u>>)'
               PROVE  <<k, q, u>> \in buffer'.thread
    OBVIOUS
  <2>1. CASE Asked(k, <<q, u>>)
    BY <1>3, <2>1 DEF IInv, Complete
  <2>2. CASE ~Asked(k, <<q, u>>)
    <3>1. k = callback /\ q = p /\ u = t
      BY <2>2 DEF Asked
    <3>2. Live(t)
      BY <3>1 DEF IInv, Watched, Collecting
    <3> QED
      BY <1>3, <3>1, <3>2
  <2> QED
    BY <2>1, <2>2
<1>8. Complete'
  BY <1>1, <1>3, <1>7 DEF IInv, Complete
<1> QED
  BY <1>1, <1>2, <1>3, <1>4, <1>5, <1>6, <1>8
     DEF IInv, Clean, Unprinted, Walking, Aging, NeedsRefresh, Collecting

\* The walk over the threads ends.
LEMMA EndThreadInv == IInv /\ EndThread => IInv'
<1> SUFFICES ASSUME IInv, EndThread PROVE IInv'
  OBVIOUS
<1> USE DEF EndThread
<1>1. /\ ManagerInv' /\ phase' = phase /\ process_map' = process_map
      /\ ProcessInstances' = ProcessInstances /\ ThreadInstances' = ThreadInstances
  BY ManagerKept DEF IInv
<1>2. LookupsHit' /\ Watched'
  BY <1>1 DEF IInv, LookupsHit, Mapped, MappedThreads, Watched, Collecting, Live, managerVars
<1>3. /\ funcs \in [system : Nat, process : Nat, thread : Nat]
      /\ callback \in Nat /\ callback >= 1
  BY RecorderAssumption DEF IInv, TypeOK, Walking
<1>4. ThreadInstances \subseteq Ids \X Ids
  BY InstanceTypes DEF IInv, ManagerInv
<1>5. \A k \in 1..funcs.thread, q \in Ids, u \in Ids :
        <<q, u>> \in ThreadInstances /\ u \notin gone /\ k <= callback
          => <<k, q, u>> \in buffer.thread
  BY <1>3 DEF IInv, Complete, Asked
<1>6. CASE callback < funcs.thread
  <2>1. pc' = pc /\ callback' = callback + 1 /\ pending' = ThreadInstances
    BY <1>6 DEF NextFunc
  <2>2. TypeOK'
    BY <1>1, <1>4, <2>1 DEF IInv, TypeOK, ManagerInv
  <2>3. Complete'
    BY <1>1, <1>3, <1>5, <2>1 DEF IInv, Complete, Asked
  <2> QED
    BY <1>1, <1>2, <1>3, <2>1, <2>2, <2>3
       DEF IInv, Clean, Unprinted, Walking, Aging, NeedsRefresh, Collecting
<1>7. CASE ~(callback < funcs.thread)
  <2>1. pc' = "report" /\ callback' = 1 /\ pending' = {}
    BY <1>7 DEF Begin
  <2>2. TypeOK'
    BY <1>1, <2>1 DEF IInv, TypeOK, ManagerInv, Control
  <2>3. \A k \in 1..funcs.thread : k <= callback
    BY <1>3, <1>7
  <2>4. Complete'
    BY <1>1, <1>3, <1>5, <2>1, <2>3 DEF IInv, Complete, Asked
  <2> QED
    BY <1>1, <1>2, <2>1, <2>2, <2>4
       DEF IInv, Clean, Unprinted, Walking, Aging, NeedsRefresh, Collecting
<1> QED
  BY <1>6, <1>7

\* The samples are printed and the buffer is cleared.
LEMMA ReportInv == IInv /\ Report => IInv'
<1> SUFFICES ASSUME IInv, Report PROVE IInv'
  OBVIOUS
<1> USE DEF Report
<1>1. ManagerInv' /\ phase' = phase
  BY ManagerKept DEF IInv
<1>2. /\ tick_counter' \in 0..CounterMod - 1
      /\ tick_counter' = tick_counter + 1 \/ tick_counter' = 0
  BY CounterStep DEF IInv, TypeOK
<1>3. EmptyBuffer \in Entries
  BY DEF EmptyBuffer, Entries
<1>4. unprinted' = EmptyBuffer
  <2>1. unprinted = buffer /\ buffer \in Entries
    BY DEF IInv, TypeOK, Unprinted
  <2>2. DOMAIN buffer = {"system", "process", "thread"}
    BY <2>1 DEF Entries
  <2>3. unprinted' = [class \in {"system", "process", "thread"} |-> {}]
    BY <2>1, <2>2, Zenon DEF Printing
  <2> QED
    BY <2>3 DEF EmptyBuffer
<1>5. TypeOK'
  BY <1>1, <1>2, <1>3, <1>4 DEF IInv, TypeOK, ManagerInv, Control
<1>6. LookupsHit'
  BY DEF LookupsHit, EmptyBuffer
<1>7. Aging'
  <2>1. tick_counter \in Nat /\ age \in Nat /\ age <= tick_counter % n_ticks_to_refresh
    BY RecorderAssumption DEF IInv, TypeOK, Aging, Collecting
  <2>2. 0 % n_ticks_to_refresh = 0
    BY PeriodType
  <2>3. tick_counter' % n_ticks_to_refresh # 0 =>
          tick_counter' % n_ticks_to_refresh = (tick_counter % n_ticks_to_refresh) + 1
    BY <1>2, <2>1, <2>2, PeriodType, ModStep
  <2>4. tick_counter % n_ticks_to_refresh \in Nat
    BY <2>1, PeriodType, ModStep
  <2> QED
    BY <2>1, <2>3, <2>4 DEF Aging, NeedsRefresh, Collecting
<1> QED
  BY <1>1, <1>4, <1>5, <1>6, <1>7 DEF IInv, Clean, Unprinted, Walking, Watched, Complete, Collecting

\* The steps that change no more than where the loop stands, or the flag.
LEMMA OtherInv ==
  IInv /\ (QueryThrows \/ Wake \/ Stop \/ Signal \/ UNCHANGED vars) => IInv'
<1> SUFFICES ASSUME IInv, QueryThrows \/ Wake \/ Stop \/ Signal \/ UNCHANGED vars
             PROVE  IInv'
  OBVIOUS
<1> USE DEF QueryThrows, Wake, Stop, Signal, vars, runVars
<1>1. /\ ManagerInv' /\ phase' = phase /\ process_map' = process_map
      /\ ProcessInstances' = ProcessInstances /\ ThreadInstances' = ThreadInstances
  BY ManagerKept DEF IInv
<1>2. /\ funcs' = funcs /\ tick_counter' = tick_counter /\ callback' = callback
      /\ pending' = pending /\ buffer' = buffer /\ unprinted' = unprinted
      /\ age' = age /\ gone' = gone
  OBVIOUS
<1>3. \/ pc' = pc
      \/ pc' \in {"aborted", "stopped"} /\ pc # "refresh" /\ (pc' = "stopped" => pc = "loop")
      \/ pc = "sleep" /\ pc' = "loop"
  OBVIOUS
<1>4. TypeOK'
  <2>1. pc' \in Control /\ shutdown' \in BOOLEAN
    BY DEF IInv, TypeOK, Control
  <2>2. pc' = "refresh" <=> phase \notin {"idle", "aborted"}
    BY <1>3 DEF IInv, TypeOK
  <2> QED
    BY <1>1, <1>2, <2>1, <2>2 DEF IInv, TypeOK, ManagerInv
<1>5. LookupsHit'
  BY <1>1, <1>2 DEF IInv, LookupsHit, Mapped, MappedThreads
<1>6. Watched'
  BY <1>2, <1>3 DEF IInv, Watched, Collecting, Live, managerVars
<1>7. Complete'
  BY <1>1, <1>2, <1>3 DEF IInv, Complete, Asked
<1>8. Aging'
  BY <1>2, <1>3 DEF IInv, Aging, NeedsRefresh, Collecting
<1>9. Clean' /\ Unprinted' /\ Walking'
  BY <1>1, <1>2, <1>3 DEF IInv, Clean, Unprinted, Walking
<1> QED
  BY <1>1, <1>4, <1>5, <1>6, <1>7, <1>8, <1>9 DEF IInv

\* The kernel moves: the map stays, and whoever dies is gone.
LEMMA KernelStepInv == IInv /\ KernelStep => IInv'
<1> SUFFICES ASSUME IInv, KernelStep PROVE IInv'
  OBVIOUS
<1> USE DEF KernelStep, runVars
<1>1. ManagerInv'
  BY KernelInv DEF IInv
<1>2. process_map' = process_map /\ phase' = phase
  BY DEF Kernel
<1>3. ProcessInstances' = ProcessInstances /\ ThreadInstances' = ThreadInstances
  BY <1>2 DEF ProcessInstances, ThreadInstances, Mapped, MappedThreads
<1>4. gone' \subseteq Ids /\ gone \subseteq gone'
  BY DEF IInv, TypeOK
<1>5. TypeOK'
  BY <1>1, <1>2, <1>4 DEF IInv, TypeOK, ManagerInv
<1>6. LookupsHit'
  BY <1>2 DEF IInv, LookupsHit, Mapped, MappedThreads
<1>7. Watched'
  BY DEF Watched, Collecting, Live
<1>8. Complete'
  BY <1>3, <1>4 DEF IInv, Complete, Asked
<1> QED
  BY <1>1, <1>2, <1>3, <1>5, <1>6, <1>7, <1>8
     DEF IInv, Clean, Unprinted, Walking, Aging, NeedsRefresh, Collecting

\* Every step keeps the invariant.
LEMMA NextIInv == IInv /\ [Next]_vars => IInv'
BY StartInv, InRefreshInv, SystemInv, CollectProcessInv, EndProcessInv,
   CollectThreadInv, EndThreadInv, ReportInv, OtherInv, KernelStepInv
   DEF Next, Run, Terminated

-----------------------------------------------------------------------------
\* The invariant holds in every reachable state.
THEOREM Invariance == Spec => []IInv
BY InitIInv, NextIInv, PTL DEF Spec

\* Every variable of the recorder keeps its type.
THEOREM TypeCorrect == Spec => []TypeOK
<1>1. IInv => TypeOK
  BY DEF IInv
<1> QED
  BY <1>1, Invariance, PTL

\* report never looks up an instance that the map does not have
\* (instance_manager.cc:91-102).
THEOREM LookupsHitHolds == Spec => []LookupsHit
<1>1. IInv => LookupsHit
  BY DEF IInv
<1> QED
  BY <1>1, Invariance, PTL

\* No sample is taken through a map of n_ticks_to_refresh ticks or more
\* (record.cc:48), whatever the width of tick_counter.
THEOREM StalenessBoundHolds == Spec => []StalenessBound
<1>1. ASSUME IInv PROVE StalenessBound
  <2>1. tick_counter \in Nat /\ age \in Nat
    BY <1>1, RecorderAssumption DEF IInv, TypeOK
  <2>2. tick_counter % n_ticks_to_refresh \in 0..n_ticks_to_refresh - 1
    BY <2>1, PeriodType, ModStep
  <2> QED
    BY <1>1, <2>1, <2>2, PeriodType DEF IInv, Aging, StalenessBound
<1> QED
  BY <1>1, Invariance, PTL

\* A signal costs no sample, and none is printed a tick late
\* (ezcollect.cc:200-206, record.cc:65-67).
THEOREM NothingLeftBehindHolds == Spec => []NothingLeftBehind
<1>1. IInv => NothingLeftBehind
  BY DEF IInv, Clean, Unprinted, NothingLeftBehind
<1> QED
  BY <1>1, Invariance, PTL

\* A tick samples each instance that lives through it, with each callback
\* (record.cc:56-64).
THEOREM SampleCompleteHolds == Spec => []SampleComplete
<1>1. ASSUME IInv PROVE SampleComplete
  <2>1. ASSUME pc = "report", NEW k \in 1..funcs.thread, NEW i \in ThreadInstances,
               i[2] \notin gone
        PROVE  <<k, i[1], i[2]>> \in buffer.thread
    <3>1. PICK p \in Ids, t \in Ids : i = <<p, t>>
      BY <1>1, <2>1, InstanceTypes DEF IInv, ManagerInv
    <3> QED
      BY <1>1, <2>1, <3>1 DEF IInv, Complete
  <2> QED
    BY <1>1, <2>1 DEF IInv, Complete, SampleComplete
<1> QED
  BY <1>1, Invariance, PTL
=============================================================================
