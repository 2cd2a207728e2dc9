--------------------------- MODULE InstanceManager ---------------------------
(***************************************************************************)
(* InstanceManager::refresh (src/src/instance_manager.cc) and the /proc    *)
(* readers it calls (src/src/procfs.cc), interleaved with the kernel.      *)
(*                                                                         *)
(* refresh builds a new map of the processes and threads that pass the     *)
(* user's filters and moves it over the old one.  It takes no snapshot:    *)
(* the ids are listed first, then each comm file is opened and read on its *)
(* own, while tasks start, rename themselves, exit and have their ids      *)
(* reused.                                                                 *)
(***************************************************************************)
EXTENDS ProcTable

CONSTANTS
  Prefixes,    \* the strings given to --pcomm-prefix and --tcomm-prefix
  PrefixOf,    \* the pairs <<x, c>> such that the comm c starts with x
  Configs,     \* the InstanceManager::Configs to run with
  Absent,      \* "not a key of the map"
  Closed,      \* fd while no comm file is open
  Gone         \* fd while the open comm file is that of a task that exited

Config ==
  [pids : SUBSET Ids, pcomm : SUBSET Comms, pcomm_prefix : SUBSET Prefixes,
   tids : SUBSET Ids, tcomm : SUBSET Comms, tcomm_prefix : SUBSET Prefixes,
   enable_process : BOOLEAN, enable_thread : BOOLEAN]

ASSUME InstanceManagerAssumption ==
  /\ PrefixOf \subseteq Prefixes \X Comms
  /\ Configs \subseteq Config
  /\ Absent \notin Comms \cup Ids
  /\ Closed \notin Ids /\ Gone \notin Ids /\ Closed # Gone

VARIABLES
  config,      \* InstanceManager::config, set by the constructor
  process_map, \* InstanceManager::process_map
  phase,       \* where refresh stands: see Phase
  found,       \* ids the current directory listing returned, still to be read
  rest,        \* keys of new_map whose threads are still to be listed
  cur,         \* the process whose threads are being read
  fd,          \* the comm file that cat_str has open
  new_map      \* refresh's local map

refreshVars == <<process_map, phase, found, rest, cur, fd, new_map>>
managerVars == <<task, changes, config, process_map, phase, found, rest, cur, fd, new_map>>

\* "idle": not in refresh.  "pcomm": the loop over get_all_pids().  "procs":
\* the loop over new_map.  "tcomm": the loop over tids_of_pid(cur).
\* "aborted": an exception left refresh, and nothing catches it.
Phase == {"idle", "pcomm", "procs", "tcomm", "aborted"}

NameOrAbsent == Comms \cup {Absent}

\* unordered_map<pid, ProcessInfo{comm, unordered_map<tid, ThreadInfo{comm}>}>
ProcessMap ==
  [comm : [Ids -> NameOrAbsent], threads : [Ids -> [Ids -> NameOrAbsent]]]

EmptyMap ==
  [comm    |-> [p \in Ids |-> Absent],
   threads |-> [p \in Ids |-> [t \in Ids |-> Absent]]]

Mapped(m) == {p \in Ids : m.comm[p] # Absent}

MappedThreads(m, p) == {t \in Ids : m.threads[p][t] # Absent}

-----------------------------------------------------------------------------
(***************************************************************************)
(* The filters.                                                            *)
(***************************************************************************)
StartsWithAny(prefixes, c) == \E x \in prefixes : <<x, c>> \in PrefixOf

all_processes ==
  /\ config.enable_process
  /\ config.pids = {} /\ config.pcomm = {} /\ config.pcomm_prefix = {}

all_threads ==
  /\ config.enable_thread
  /\ config.tids = {} /\ config.tcomm = {} /\ config.tcomm_prefix = {}

PidWanted(p, c) ==
  \/ all_processes
  \/ p \in config.pids
  \/ c \in config.pcomm
  \/ StartsWithAny(config.pcomm_prefix, c)

TidWanted(t, c) ==
  \/ all_threads
  \/ t \in config.tids
  \/ c \in config.tcomm
  \/ StartsWithAny(config.tcomm_prefix, c)

-----------------------------------------------------------------------------
(***************************************************************************)
(* refresh().  A definition whose name begins with Bug is not the code: it *)
(* is what the definition after it would be with a plausible mistake, and  *)
(* the README names the property that each one breaks.                     *)
(***************************************************************************)
\* The two directory listings.  Each is one step: readdir returns an entry for
\* whatever is there when it comes by, and no property can tell at which of
\* two moments an id was listed, only that it was there at one.
get_all_pids == {p \in Ids : IsProcess(p)}

tids_of_pid(p) == Threads(p)

\* new_map starts as a copy of process_map: refresh only adds.
BugRefreshAdds ==
  /\ phase = "idle"
  /\ phase' = "pcomm"
  /\ new_map' = process_map
  /\ found' = get_all_pids
  /\ UNCHANGED <<process_map, rest, cur, fd>>

Refresh ==
  /\ phase = "idle"
  /\ phase' = "pcomm"
  /\ new_map' = EmptyMap
  /\ found' = get_all_pids
  /\ UNCHANGED <<process_map, rest, cur, fd>>

\* The loop body once the comm of the id i is known: keep i if it is wanted.
Record(i, c) ==
  /\ found' = found \ {i}
  /\ new_map' =
       CASE phase = "pcomm" /\ PidWanted(i, c) ->
              [new_map EXCEPT !.comm[i] = c]
         [] phase = "tcomm" /\ TidWanted(i, c) ->
              [new_map EXCEPT !.threads[cur][i] = c]
         [] OTHER -> new_map

\* Whether the comm file of the listed id i is still there to be opened.
CommExists(i) ==
  IF phase = "pcomm" THEN Live(i) ELSE i \in Threads(cur)

\* cat_str opens the comm file of a task that is still there.
OpenComm(i) ==
  /\ phase \in {"pcomm", "tcomm"}
  /\ fd = Closed
  /\ i \in found
  /\ CommExists(i)
  /\ fd' = i
  /\ UNCHANGED <<process_map, phase, found, rest, cur, new_map>>

\* cat_str reports the failed open instead of returning "".
BugOpenFailsError(i) ==
  /\ phase \in {"pcomm", "tcomm"}
  /\ fd = Closed
  /\ i \in found
  /\ ~CommExists(i)
  /\ Record(i, NoTask)
  /\ UNCHANGED <<process_map, phase, rest, cur, fd>>

\* The task exited after it was listed: the ifstream does not open, cat_str
\* copies nothing and returns "".
OpenFails(i) ==
  /\ phase \in {"pcomm", "tcomm"}
  /\ fd = Closed
  /\ i \in found
  /\ ~CommExists(i)
  /\ Record(i, Empty)
  /\ UNCHANGED <<process_map, phase, rest, cur, fd>>

\* An empty comm is taken for an error (cat_str looks at res.back()).
BugReadCommEmptyThrows ==
  /\ fd \in Ids
  /\ Record(fd, task[fd].comm)
  /\ fd' = Closed
  /\ phase' = IF task[fd].comm = Empty THEN "aborted" ELSE phase
  /\ UNCHANGED <<process_map, rest, cur>>

ReadComm ==
  /\ fd \in Ids
  /\ Record(fd, task[fd].comm)
  /\ fd' = Closed
  /\ UNCHANGED <<process_map, phase, rest, cur>>

\* The task exited between the open and the read: read() fails with ESRCH,
\* and the stream buffer that istreambuf_iterator drives throws.
ReadFails ==
  /\ fd = Gone
  /\ phase' = "aborted"
  /\ UNCHANGED <<process_map, found, rest, cur, fd, new_map>>

\* break for continue: the loop over the pids ends at the first match.
BugEndPidsAtMatch ==
  /\ phase = "pcomm"
  /\ found = {} \/ Mapped(new_map) # {}
  /\ fd = Closed
  /\ phase' = "procs"
  /\ found' = {}
  /\ rest' = Mapped(new_map)
  /\ UNCHANGED <<process_map, cur, fd, new_map>>

\* The listing is taken again as long as a process read from it is gone.
BugEndPidsRelists ==
  /\ phase = "pcomm"
  /\ found = {} /\ fd = Closed
  /\ \/ /\ \E p \in Mapped(new_map) : ~IsProcess(p)
        /\ found' = get_all_pids
        /\ new_map' = EmptyMap
        /\ UNCHANGED <<phase, rest>>
     \/ /\ \A p \in Mapped(new_map) : IsProcess(p)
        /\ phase' = "procs"
        /\ rest' = Mapped(new_map)
        /\ UNCHANGED <<found, new_map>>
  /\ UNCHANGED <<process_map, cur, fd>>

EndPids ==
  /\ phase = "pcomm"
  /\ found = {} /\ fd = Closed
  /\ phase' = "procs"
  /\ rest' = Mapped(new_map)
  /\ UNCHANGED <<process_map, found, cur, fd, new_map>>

ListTids(p) ==
  /\ phase = "procs"
  /\ p \in rest
  /\ phase' = "tcomm"
  /\ cur' = p
  /\ rest' = rest \ {p}
  /\ found' = tids_of_pid(p)
  /\ UNCHANGED <<process_map, fd, new_map>>

EndTids ==
  /\ phase = "tcomm"
  /\ found = {} /\ fd = Closed
  /\ phase' = "procs"
  /\ cur' = Absent
  /\ UNCHANGED <<process_map, found, rest, fd, new_map>>

\* process_map = std::move(new_map)
Install ==
  /\ phase = "procs"
  /\ rest = {}
  /\ phase' = "idle"
  /\ process_map' = new_map
  /\ new_map' = EmptyMap
  /\ UNCHANGED <<found, rest, cur, fd>>

\* What refresh does between its call and its end.
RefreshStep ==
  \/ \E i \in Ids : OpenComm(i) \/ OpenFails(i)
  \/ ReadComm
  \/ ReadFails
  \/ EndPids
  \/ \E p \in Ids : ListTids(p)
  \/ EndTids
  \/ Install

-----------------------------------------------------------------------------
\* The kernel moves.  An open comm file belongs to one task, not to its id:
\* once that task exits, the file stays dead even if the id is reused.
Kernel ==
  /\ TableStep
  /\ fd' = IF fd \in Ids /\ task'[fd] = NoTask THEN Gone ELSE fd
  /\ UNCHANGED <<process_map, phase, found, rest, cur, new_map>>

ManagerInit ==
  /\ TableInit
  /\ config \in Configs
  /\ process_map = EmptyMap
  /\ phase = "idle"
  /\ found = {} /\ rest = {} /\ cur = Absent /\ fd = Closed
  /\ new_map = EmptyMap

-----------------------------------------------------------------------------
\* Every variable of the manager and of the task table has its type.
ManagerTypeOK ==
  /\ task \in [Ids -> Task \cup {NoTask}]
  /\ changes \in 0..MaxChanges
  /\ config \in Configs
  /\ process_map \in ProcessMap
  /\ new_map \in ProcessMap
  /\ phase \in Phase
  /\ found \subseteq Ids
  /\ rest \subseteq Ids
  /\ cur \in Ids \cup {Absent}
  /\ fd \in Ids \cup {Closed, Gone}
=============================================================================
