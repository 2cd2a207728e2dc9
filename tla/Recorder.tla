------------------------------ MODULE Recorder ------------------------------
(***************************************************************************)
(* `ezcollect record` once its options are parsed: Recorder::run and       *)
(* Recorder::tick (src/src/record.cc) driving the InstanceManager          *)
(* (src/src/instance_manager.cc), while tasks come and go and a signal may *)
(* arrive at any moment.                                                   *)
(*                                                                         *)
(* A tick refreshes the map of instances when its number is a multiple of  *)
(* n_ticks_to_refresh, then hands every instance of the map to every       *)
(* callback the user selected, then prints the buffered samples - looking  *)
(* the names up in the map again - and clears the buffer.                  *)
(***************************************************************************)
EXTENDS InstanceManager, RecordOptions

CONSTANTS
  FuncCounts,          \* the numbers of callbacks, by class, to run with
  TickIntervalMs,      \* -i, as std::stoul reads it
  RefreshIntervalMs,   \* 10'000 in handle_record_cmd
  CounterMod           \* 2^64, which no recording reaches: tick_counter is a uint64_t

\* A selected metric is one callback: system:x, process:x or thread:x.
ASSUME RecorderAssumption ==
  /\ FuncCounts \subseteq [system : Nat, process : Nat, thread : Nat]
  /\ TickIntervalMs \in Nat
  /\ RefreshIntervalMs \in Nat
  /\ CounterMod \in Nat \ {0}

tick_interval_ms == AtLeastOne(TickIntervalMs)

n_ticks_to_refresh == AtLeastOne(RefreshIntervalMs \div tick_interval_ms)

VARIABLES
  funcs,         \* opts.*_collect_funcs: how many of each class
  pc,            \* where run() stands: see Control
  tick_counter,  \* periodic_work's tick_counter
  shutdown,      \* env.shutdown
  callback,      \* the index of the callback that is being driven
  pending,       \* instances the current callback has still to be given
  buffer,        \* InstanceManager::buffer: <<callback, pid, tid>>, by class
  unprinted,     \* history: what callbacks put in buffer and report did not print
  age,           \* history: ticks since the installed map was refreshed
  gone           \* history: ids that were free at some moment of this tick

runVars == <<funcs, pc, tick_counter, shutdown, callback, pending, buffer>>
vars == <<managerVars, runVars, unprinted, age, gone>>

\* "loop": the while condition.  "refresh" .. "report": inside tick().
\* "sleep": sleep_for.  "stopped": run() returned.  "aborted": terminate.
Control ==
  {"loop", "refresh", "system", "process", "thread", "report", "sleep",
   "stopped", "aborted"}

Halted == pc \in {"stopped", "aborted"}

Collecting == pc \in {"system", "process", "thread", "report"}

EmptyBuffer == [system |-> {}, process |-> {}, thread |-> {}]

\* for_each_process and for_each_thread walk the whole map.
ProcessInstances == Mapped(process_map)
ThreadInstances ==
  UNION {{p} \X MappedThreads(process_map, p) : p \in Mapped(process_map)}

Init ==
  /\ ManagerInit
  /\ funcs \in FuncCounts
  /\ Selected(funcs, config)
  /\ pc = "loop"
  /\ tick_counter = 0
  /\ shutdown = FALSE
  /\ callback = 1
  /\ pending = {}
  /\ buffer = EmptyBuffer
  /\ unprinted = EmptyBuffer
  /\ age = 0
  /\ gone = {}

-----------------------------------------------------------------------------
\* Definitions whose names begin with Bug are plausible mistakes: see
\* InstanceManager.

\* while (true): the flag is never looked at again.
BugGoesOn == pc = "loop"

GoesOn == pc = "loop" /\ ~shutdown

\* A period that is one tick too long.
BugNeedsRefreshLate == tick_counter % (n_ticks_to_refresh + 1) = 0

NeedsRefresh == tick_counter % n_ticks_to_refresh = 0

\* The loop condition holds and a tick starts, with a refresh ...
StartRefreshTick ==
  /\ GoesOn /\ NeedsRefresh
  /\ pc' = "refresh"
  /\ Refresh
  /\ gone' = {i \in Ids : ~Live(i)}
  /\ UNCHANGED <<tableVars, config, funcs, tick_counter, shutdown, callback,
                 pending, buffer, unprinted, age>>

\* ... or without one.
StartPlainTick ==
  /\ GoesOn /\ ~NeedsRefresh
  /\ pc' = "system"
  /\ age' = age + 1
  /\ gone' = {i \in Ids : ~Live(i)}
  /\ UNCHANGED <<managerVars, funcs, tick_counter, shutdown, callback,
                 pending, buffer, unprinted>>

InRefresh ==
  /\ pc = "refresh"
  /\ RefreshStep
  /\ pc' = CASE phase' = "idle"    -> "system"
             [] phase' = "aborted" -> "aborted"
             [] OTHER              -> "refresh"
  /\ age' = IF phase' = "idle" THEN 0 ELSE age
  /\ UNCHANGED <<tableVars, config, funcs, tick_counter, shutdown, callback,
                 pending, buffer, unprinted, gone>>

\* The first callback of a class, which walks all the instances; a class
\* without callbacks walks none.
Begin(class, n, instances) ==
  /\ pc' = class
  /\ callback' = 1
  /\ pending' = IF n > 0 THEN instances ELSE {}

\* The next callback of the same class.
NextFunc(instances) ==
  /\ callback' = callback + 1
  /\ pending' = instances
  /\ UNCHANGED pc

\* A callback of the class yields these samples.
Put(class, samples) ==
  /\ buffer' = [buffer EXCEPT ![class] = @ \cup samples]
  /\ unprinted' = [unprinted EXCEPT ![class] = @ \cup samples]

\* for_each_system, once for each system callback.
CollectSystem ==
  /\ pc = "system" /\ callback <= funcs.system
  /\ Put("system", {callback})
  /\ callback' = callback + 1
  /\ UNCHANGED <<managerVars, funcs, pc, tick_counter, shutdown, pending, age,
                 gone>>

EndSystem ==
  /\ pc = "system" /\ callback > funcs.system
  /\ Begin("process", funcs.process, ProcessInstances)
  /\ UNCHANGED <<managerVars, funcs, tick_counter, shutdown, buffer, unprinted, age, gone>>

\* A failed query ends the walk instead of the one callback.
BugCollectProcessBreaks(p) ==
  /\ pc = "process" /\ p \in pending
  /\ pending' = IF Live(p) THEN pending \ {p} ELSE {}
  /\ Put("process", IF Live(p) THEN {<<callback, p>>} ELSE {})
  /\ UNCHANGED <<managerVars, funcs, pc, tick_counter, shutdown, callback,
                 age, gone>>

\* The callback asks the kernel about the process p (taskstats.cc:75-96).  The
\* query fails if no task has that id: no sample then, and no error.  The order
\* of an unordered_map is any order.
CollectProcess(p) ==
  /\ pc = "process" /\ p \in pending
  /\ pending' = pending \ {p}
  /\ Put("process", IF Live(p) THEN {<<callback, p>>} ELSE {})
  /\ UNCHANGED <<managerVars, funcs, pc, tick_counter, shutdown, callback,
                 age, gone>>

\* for_each_process returned.
EndProcess ==
  /\ pc = "process" /\ pending = {}
  /\ IF callback < funcs.process
       THEN NextFunc(ProcessInstances)
       ELSE Begin("thread", funcs.thread, ThreadInstances)
  /\ UNCHANGED <<managerVars, funcs, tick_counter, shutdown, buffer, unprinted, age, gone>>

\* The same for the thread t of the process p (taskstats.cc:50-73).
CollectThread(p, t) ==
  /\ pc = "thread" /\ <<p, t>> \in pending
  /\ pending' = pending \ {<<p, t>>}
  /\ Put("thread", IF Live(t) THEN {<<callback, p, t>>} ELSE {})
  /\ UNCHANGED <<managerVars, funcs, pc, tick_counter, shutdown, callback,
                 age, gone>>

EndThread ==
  /\ pc = "thread" /\ pending = {}
  /\ IF callback < funcs.thread
       THEN NextFunc(ThreadInstances)
       ELSE Begin("report", 0, {})
  /\ UNCHANGED <<managerVars, funcs, tick_counter, shutdown, buffer, unprinted, age, gone>>

\* A query throws (nl_task_stats.cc:129-137, 157-159): nobody catches it.
QueryThrows ==
  /\ pc \in {"process", "thread"} /\ pending # {}
  /\ pc' = "aborted"
  /\ UNCHANGED <<managerVars, funcs, tick_counter, shutdown, callback, pending,
                 buffer, unprinted, age, gone>>

\* report(): a line for each sample in the buffer.
Printing ==
  unprinted' = [class \in DOMAIN unprinted |-> unprinted[class] \ buffer[class]]

\* clear() is forgotten.
BugReportKeeps ==
  /\ pc = "report"
  /\ Printing
  /\ tick_counter' = (tick_counter + 1) % CounterMod
  /\ pc' = "sleep"
  /\ gone' = {}
  /\ UNCHANGED <<managerVars, funcs, shutdown, callback, pending, buffer, age>>

\* clear() comes before report(), which finds nothing to print.
BugReportCleared ==
  /\ pc = "report"
  /\ buffer' = EmptyBuffer
  /\ tick_counter' = (tick_counter + 1) % CounterMod
  /\ pc' = "sleep"
  /\ gone' = {}
  /\ UNCHANGED <<managerVars, funcs, shutdown, callback, pending, unprinted, age>>

\* The counter has another width than the one it is assumed to have.
BugReportWide ==
  /\ pc = "report"
  /\ Printing
  /\ buffer' = EmptyBuffer
  /\ tick_counter' = tick_counter + 1
  /\ pc' = "sleep"
  /\ gone' = {}
  /\ UNCHANGED <<managerVars, funcs, shutdown, callback, pending, age>>

\* report(); clear(); ++tick_counter, which wraps.
Report ==
  /\ pc = "report"
  /\ Printing
  /\ buffer' = EmptyBuffer
  /\ tick_counter' = (tick_counter + 1) % CounterMod
  /\ pc' = "sleep"
  /\ gone' = {}
  /\ UNCHANGED <<managerVars, funcs, shutdown, callback, pending, age>>

\* sleep_for returns: it sleeps on after a signal, until its time is up.
Wake ==
  /\ pc = "sleep"
  /\ pc' = "loop"
  /\ UNCHANGED <<managerVars, funcs, tick_counter, shutdown, callback, pending,
                 buffer, unprinted, age, gone>>

Stop ==
  /\ pc = "loop" /\ shutdown
  /\ pc' = "stopped"
  /\ UNCHANGED <<managerVars, funcs, tick_counter, shutdown, callback, pending,
                 buffer, unprinted, age, gone>>

Run ==
  \/ StartRefreshTick \/ StartPlainTick \/ InRefresh
  \/ CollectSystem \/ EndSystem
  \/ (\E p \in Ids : CollectProcess(p)) \/ EndProcess
  \/ (\E p, t \in Ids : CollectThread(p, t)) \/ EndThread
  \/ QueryThrows
  \/ Report \/ Wake \/ Stop

-----------------------------------------------------------------------------
\* SIGINT or SIGTERM: the handler of setup_clean_up stores one flag.
Signal ==
  /\ ~Halted /\ ~shutdown
  /\ shutdown' = TRUE
  /\ UNCHANGED <<managerVars, funcs, pc, tick_counter, callback, pending,
                 buffer, unprinted, age, gone>>

KernelStep ==
  /\ ~Halted
  /\ Kernel
  /\ gone' = IF Collecting \/ pc = "refresh"
               THEN gone \cup {i \in Ids : task'[i] = NoTask}
               ELSE gone
  /\ UNCHANGED <<config, runVars, unprinted, age>>

Terminated == Halted /\ UNCHANGED vars

Next == Run \/ Signal \/ KernelStep \/ Terminated

\* The program's one thread is scheduled, and a sleep ends.  Nothing makes a
\* signal arrive or the kernel's table change.
Spec == Init /\ [][Next]_vars /\ WF_vars(Run)

-----------------------------------------------------------------------------
Entries ==
  [system : SUBSET Nat, process : SUBSET (Nat \X Ids),
   thread : SUBSET (Nat \X Ids \X Ids)]

\* Every variable has its type, and the manager is in refresh exactly when the
\* tick is.
TypeOK ==
  /\ ManagerTypeOK
  /\ funcs \in FuncCounts
  /\ pc \in Control
  /\ pc = "refresh" <=> phase \notin {"idle", "aborted"}
  /\ tick_counter \in 0..CounterMod - 1
  /\ shutdown \in BOOLEAN
  /\ callback \in Nat
  /\ pending \subseteq Ids \cup (Ids \X Ids)
  /\ buffer \in Entries /\ unprinted \in Entries
  /\ age \in Nat
  /\ gone \subseteq Ids

\* Every sample in the buffer belongs to an instance that is in the map now.
\* report (instance_manager.cc:91-102) looks each one up with operator[], which
\* for a missing key would insert a null comm and dereference it: the map must
\* not change between a sample and its report.
LookupsHit ==
  /\ \A s \in buffer.process : s[2] \in Mapped(process_map)
  /\ \A s \in buffer.thread :
       /\ s[2] \in Mapped(process_map)
       /\ s[3] \in MappedThreads(process_map, s[2])

\* No sample is taken through a map older than n_ticks_to_refresh - 1 ticks:
\* that is how long a task that started may go unseen and a reused id may be
\* reported under its former name.
StalenessBound == Collecting => age < n_ticks_to_refresh

\* Between ticks and at the stop every sample that a callback took has been
\* printed, and the buffer is empty: a signal (ezcollect.cc:200-206) never costs
\* the samples of the tick it arrives in, and no sample is printed again with the
\* timestamp of a later tick.
NothingLeftBehind ==
  pc \in {"loop", "sleep", "stopped"} =>
    unprinted = EmptyBuffer /\ buffer = EmptyBuffer /\ pending = {}

\* When a tick reports, each instance of the map that was alive through the
\* whole tick has a sample of each callback, whatever happened to the others:
\* one failed query loses no other instance's sample.
SampleComplete ==
  pc = "report" =>
    /\ \A k \in 1..funcs.process, p \in ProcessInstances :
         p \notin gone => <<k, p>> \in buffer.process
    /\ \A k \in 1..funcs.thread, i \in ThreadInstances :
         i[2] \notin gone => <<k, i[1], i[2]>> \in buffer.thread

-----------------------------------------------------------------------------
\* After a signal the program stops, whatever tasks do meanwhile.
ShutdownStops == shutdown ~> Halted

\* The map that refresh would build if nothing else ran.
View ==
  LET IsKey(p) == IsProcess(p) /\ PidWanted(p, task[p].comm)
      IsThreadKey(p, t) ==
        IsKey(p) /\ t \in Threads(p) /\ TidWanted(t, task[t].comm)
  IN [comm    |-> [p \in Ids |-> IF IsKey(p) THEN task[p].comm ELSE Absent],
      threads |-> [p \in Ids |-> [t \in Ids |->
                     IF IsThreadKey(p, t) THEN task[t].comm ELSE Absent]]]

\* If the task table settles and the program goes on, the map comes to agree
\* with it for good: no refresh is skipped for ever, and nothing of an earlier
\* map stays behind.
ViewConverges == <>[](Halted \/ process_map = View)
=============================================================================
