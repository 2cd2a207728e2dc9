------------------------------ MODULE ProcTable ------------------------------
(***************************************************************************)
(* The kernel's task table as ezcollect sees it through /proc and through  *)
(* taskstats: the environment of every other module.  Nothing here is      *)
(* under src/; it is modelled from what src/src/procfs.cc reads.           *)
(*                                                                         *)
(* Processes and threads share one space of ids, as on Linux: a process is *)
(* a task whose id is its own thread-group id, and an id that a task gave  *)
(* back may be given to a new task of any kind.                            *)
(***************************************************************************)
EXTENDS Naturals

CONSTANTS
  Ids,         \* pids and tids, one space
  Comms,       \* the comm strings that occur, the empty one included
  Empty,       \* the empty string
  NoTask,      \* what task[i] is while no task has the id i
  MaxChanges,  \* bound on the number of steps the kernel takes
  Endless      \* whether that bound is lifted: the steps are not counted

Task == [tgid : Ids, comm : Comms]

ASSUME ProcTableAssumption ==
  /\ Empty \in Comms
  /\ NoTask \notin Task
  /\ MaxChanges \in Nat
  /\ Endless \in BOOLEAN

VARIABLES
  task,        \* the task that has each id, or NoTask
  changes      \* how many steps the kernel has taken, if they are counted

tableVars == <<task, changes>>

-----------------------------------------------------------------------------
Live(i) == task[i] # NoTask

IsProcess(p) == Live(p) /\ task[p].tgid = p

\* The entries of /proc/<p>/task: the thread group of the task p, which need
\* not be a group leader (the kernel resolves /proc/<tid> too).
Threads(p) ==
  {t \in Ids : Live(p) /\ Live(t) /\ task[t].tgid = task[p].tgid}

-----------------------------------------------------------------------------
TableInit ==
  /\ task \in [Ids -> Task \cup {NoTask}]
  /\ \A i \in Ids : Live(i) => IsProcess(task[i].tgid)
  /\ changes = 0

Change ==
  \/ Endless /\ UNCHANGED changes
  \/ ~Endless /\ changes < MaxChanges /\ changes' = changes + 1

\* A new process takes a free id.
Fork(p, c) ==
  /\ ~Live(p)
  /\ task' = [task EXCEPT ![p] = [tgid |-> p, comm |-> c]]

\* A process starts a thread, which inherits the name of its creator.
Clone(p, t) ==
  /\ IsProcess(p)
  /\ ~Live(t)
  /\ task' = [task EXCEPT ![t] = [tgid |-> p, comm |-> task[p].comm]]

\* execve or prctl(PR_SET_NAME): the id stays, the name changes.
SetComm(t, c) ==
  /\ Live(t)
  /\ task' = [task EXCEPT ![t] = [tgid |-> task[t].tgid, comm |-> c]]

\* A thread other than the leader ends.
ExitThread(t) ==
  /\ Live(t)
  /\ ~IsProcess(t)
  /\ task' = [task EXCEPT ![t] = NoTask]

\* A process ends, and its whole thread group with it.
ExitProcess(p) ==
  /\ IsProcess(p)
  /\ task' = [i \in Ids |-> IF i \in Threads(p) THEN NoTask ELSE task[i]]

TableStep ==
  /\ Change
  /\ \/ \E p \in Ids, c \in Comms : Fork(p, c)
     \/ \E p, t \in Ids : Clone(p, t)
     \/ \E t \in Ids, c \in Comms : SetComm(t, c)
     \/ \E t \in Ids : ExitThread(t)
     \/ \E p \in Ids : ExitProcess(p)
=============================================================================
