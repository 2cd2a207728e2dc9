---------------------------- MODULE RefreshWindow ----------------------------
(***************************************************************************)
(* What a refresh can promise although it takes no snapshot.  This module  *)
(* runs InstanceManager::refresh over and over against a changing task     *)
(* table and remembers, in a history variable, everything each id has been *)
(* since the refresh under way (or the last one) began; another remembers  *)
(* which tasks exited while they waited to be read.  The promises relate   *)
(* the installed map, or the exception, to that window.                    *)
(***************************************************************************)
EXTENDS InstanceManager

VARIABLES
  seen,  \* history: all values of task[i] since the last refresh began
  lost   \* history: the ids that are still to be read and whose task exited after
         \* the listing had returned them

vars == <<managerVars, seen, lost>>

Init ==
  /\ ManagerInit
  /\ seen = [i \in Ids |-> {}]
  /\ lost = {}

BeginRefresh ==
  /\ Refresh
  /\ seen' = [i \in Ids |-> {task[i]}]
  /\ lost' = {}
  /\ UNCHANGED <<tableVars, config>>

ContinueRefresh ==
  /\ RefreshStep
  /\ lost' = lost \cap found'
  /\ UNCHANGED <<tableVars, config, seen>>

Refreshing == phase \notin {"idle", "aborted"}

KernelStep ==
  /\ Kernel
  /\ seen' = IF Refreshing THEN [i \in Ids |-> seen[i] \cup {task'[i]}] ELSE seen
  /\ lost' = lost \cup {i \in found : Live(i) /\ task'[i] = NoTask}
  /\ UNCHANGED config

\* std::terminate: nothing of the program runs any more.
Terminated ==
  /\ phase = "aborted"
  /\ UNCHANGED vars

Next == BeginRefresh \/ ContinueRefresh \/ KernelStep \/ Terminated

\* refresh is straight-line code without a wait of its own: once called it
\* goes on.  Nothing is assumed of the kernel.
Spec == Init /\ [][Next]_vars /\ WF_vars(ContinueRefresh)

-----------------------------------------------------------------------------
\* Every variable has its type.
TypeOK ==
  /\ ManagerTypeOK
  /\ seen \in [Ids -> SUBSET (Task \cup {NoTask})]
  /\ lost \subseteq found

-----------------------------------------------------------------------------
WasLive(i) == \E v \in seen[i] : v # NoTask

WasDead(i) == NoTask \in seen[i]

WasProcess(p) == \E v \in seen[p] : v # NoTask /\ v.tgid = p

\* The id i had the comm c at some moment of the window.
HadComm(i, c) == \E v \in seen[i] : v # NoTask /\ v.comm = c

\* p was one and the same process through the whole window.
AlwaysProcess(p) ==
  /\ seen[p] # {}
  /\ \A v \in seen[p] : v # NoTask /\ v.tgid = p

\* t was one and the same thread of p through the whole window.
AlwaysThreadOf(t, p) ==
  /\ seen[t] # {}
  /\ \A v \in seen[t] : v # NoTask /\ v.tgid = p

ProcessSound(m, p) ==
  /\ WasProcess(p)
  /\ PidWanted(p, m.comm[p])
  /\ HadComm(p, m.comm[p]) \/ (m.comm[p] = Empty /\ WasDead(p))

ThreadSound(m, p, t) ==
  LET c == m.threads[p][t] IN
  /\ p \in Mapped(m)
  /\ WasLive(t)
  /\ TidWanted(t, c)
  /\ HadComm(t, c) \/ (c = Empty /\ (WasDead(t) \/ WasDead(p)))

Sound(m) ==
  /\ \A p \in Mapped(m) : ProcessSound(m, p)
  /\ \A p \in Ids : \A t \in MappedThreads(m, p) : ThreadSound(m, p, t)

\* The map a refresh installs invents nothing.  Each key was a process while
\* the refresh ran, its comm is one it had while the refresh ran and passes
\* the filters, and likewise each thread; the one exception is the empty comm
\* that cat_str (procfs.cc:17-28) returns for a task that exited after it was
\* listed.  In particular nothing survives from the map before it.
MapSound == phase = "idle" => Sound(process_map)

\* The map a refresh installs misses nothing that stayed put: a process whose
\* comm passed the filters through the whole refresh is a key, and so is each
\* thread, of a process in the map, that stayed in it and passed the filters
\* through the whole refresh - whatever happened meanwhile to other tasks.
MapComplete ==
  phase = "idle" =>
    /\ \A p \in Ids :
         AlwaysProcess(p) /\ (\A v \in seen[p] : PidWanted(p, v.comm))
           => p \in Mapped(process_map)
    /\ \A p \in Mapped(process_map), t \in Ids :
         AlwaysProcess(p) /\ AlwaysThreadOf(t, p)
           /\ (\A v \in seen[t] : TidWanted(t, v.comm))
           => t \in MappedThreads(process_map, p)

\* refresh throws (procfs.cc:21, the read of an open comm file) only when a
\* task that it has listed exits before its comm was read: tasks that start,
\* rename themselves, or exit before they are listed, after they were read or
\* without being listed never end the recording.
AbortOnlyOnExit == phase = "aborted" => lost # {}

\* However many tasks start, exit and rename themselves meanwhile, without end
\* where the kernel is not bounded, a refresh comes to an end: by installing its
\* map or by an exception.
RefreshEnds == Refreshing ~> ~Refreshing
=============================================================================
