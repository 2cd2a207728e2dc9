---------------------------- MODULE ManagerProofs ----------------------------
(***************************************************************************)
(* Facts about the task table and the steps of a refresh that the proofs   *)
(* about RefreshWindow and Recorder share.                                 *)
(***************************************************************************)
EXTENDS InstanceManager, TLAPS

\* The types, and what the position in refresh says of the open file: it is
\* that of a task that lives and is still to be recorded.
ManagerInv ==
  /\ ManagerTypeOK
  /\ fd \in Ids => Live(fd) /\ fd \in found
  /\ phase \in {"idle", "procs"} => fd = Closed
  /\ phase = "tcomm" => cur \in Ids

-----------------------------------------------------------------------------
\* The kernel keeps the table well-typed, and a task that lives on stays in its
\* thread group.
LEMMA TableStepTypes ==
  ASSUME ManagerTypeOK, TableStep
  PROVE  /\ task' \in [Ids -> Task \cup {NoTask}]
         /\ changes' \in 0..MaxChanges
         /\ \A i \in Ids : task[i] # NoTask /\ task'[i] # NoTask
                             => task'[i].tgid = task[i].tgid
<1> USE ProcTableAssumption DEF ManagerTypeOK, Task, Live, IsProcess
<1>1. changes' \in 0..MaxChanges
  BY DEF TableStep, Change
<1>2. ASSUME NEW p \in Ids, NEW c \in Comms, Fork(p, c)
      PROVE  /\ task' \in [Ids -> Task \cup {NoTask}]
             /\ \A i \in Ids : task[i] # NoTask => task'[i] = task[i]
  BY <1>2 DEF Fork
<1>3. ASSUME NEW p \in Ids, NEW t \in Ids, Clone(p, t)
      PROVE  /\ task' \in [Ids -> Task \cup {NoTask}]
             /\ \A i \in Ids : task[i] # NoTask => task'[i] = task[i]
  <2>1. task[p].comm \in Comms
    BY <1>3 DEF Clone
  <2> QED
    BY <1>3, <2>1 DEF Clone
<1>4. ASSUME NEW t \in Ids, NEW c \in Comms, SetComm(t, c)
      PROVE  /\ task' \in [Ids -> Task \cup {NoTask}]
             /\ \A i \in Ids : task[i] # NoTask => task'[i].tgid = task[i].tgid
  <2>1. task[t].tgid \in Ids
    BY <1>4 DEF SetComm
  <2> QED
    BY <1>4, <2>1 DEF SetComm
<1>5. ASSUME NEW t \in Ids, ExitThread(t)
      PROVE  /\ task' \in [Ids -> Task \cup {NoTask}]
             /\ \A i \in Ids : task'[i] # NoTask => task'[i] = task[i]
  BY <1>5 DEF ExitThread
<1>6. ASSUME NEW p \in Ids, ExitProcess(p)
      PROVE  /\ task' \in [Ids -> Task \cup {NoTask}]
             /\ \A i \in Ids : task'[i] # NoTask => task'[i] = task[i]
  BY <1>6 DEF ExitProcess
<1> QED
  BY <1>1, <1>2, <1>3, <1>4, <1>5, <1>6 DEF TableStep

\* Giving a map one process.
LEMMA PutComm ==
  ASSUME NEW m \in ProcessMap, NEW i \in Ids, NEW c \in NameOrAbsent
  PROVE  /\ [m EXCEPT !.comm[i] = c] \in ProcessMap
         /\ [m EXCEPT !.comm[i] = c].comm = [m.comm EXCEPT ![i] = c]
         /\ [m EXCEPT !.comm[i] = c].threads = m.threads
BY DEF ProcessMap

\* Giving a process of a map one thread.
LEMMA PutThread ==
  ASSUME NEW m \in ProcessMap, NEW p \in Ids, NEW i \in Ids, NEW c \in NameOrAbsent
  PROVE  /\ [m EXCEPT !.threads[p][i] = c] \in ProcessMap
         /\ [m EXCEPT !.threads[p][i] = c].comm = m.comm
         /\ [m EXCEPT !.threads[p][i] = c].threads =
              [m.threads EXCEPT ![p] = [m.threads[p] EXCEPT ![i] = c]]
BY DEF ProcessMap

\* Recording a comm, or none, keeps the map a map.
LEMMA RecordTypes ==
  ASSUME ManagerInv, NEW i \in Ids, NEW c \in Comms, Record(i, c)
  PROVE  new_map' \in ProcessMap /\ found' = found \ {i}
<1>1. CASE phase = "pcomm" /\ PidWanted(i, c)
  <2>1. new_map' = [new_map EXCEPT !.comm[i] = c]
    BY <1>1 DEF Record
  <2> QED
    BY <2>1, PutComm DEF Record, ManagerInv, ManagerTypeOK, NameOrAbsent
<1>2. CASE phase = "tcomm" /\ TidWanted(i, c)
  <2>1. new_map' = [new_map EXCEPT !.threads[cur][i] = c]
    BY <1>2 DEF Record
  <2> QED
    BY <1>2, <2>1, PutThread DEF Record, ManagerInv, ManagerTypeOK, NameOrAbsent
<1>3. CASE ~(phase = "pcomm" /\ PidWanted(i, c)) /\ ~(phase = "tcomm" /\ TidWanted(i, c))
  <2>1. new_map' = new_map
    BY <1>3 DEF Record
  <2> QED
    BY <2>1 DEF Record, ManagerInv, ManagerTypeOK
<1> QED
  BY <1>1, <1>2, <1>3

\* The empty map is a map.
LEMMA EmptyMapType == EmptyMap \in ProcessMap
BY DEF EmptyMap, ProcessMap, NameOrAbsent

\* The manager starts with its invariant.
LEMMA ManagerInitInv == ManagerInit => ManagerInv
BY EmptyMapType, ProcTableAssumption, InstanceManagerAssumption
   DEF ManagerInit, TableInit, ManagerInv, ManagerTypeOK, Phase, Task

\* refresh is called.
LEMMA RefreshInv ==
  ManagerInv /\ Refresh /\ UNCHANGED <<tableVars, config>> => ManagerInv'
BY EmptyMapType, InstanceManagerAssumption
   DEF ManagerInv, ManagerTypeOK, Refresh, tableVars, Phase, Live, get_all_pids

\* Each step of a refresh keeps the manager's invariant.
LEMMA RefreshStepInv ==
  ManagerInv /\ RefreshStep /\ UNCHANGED <<tableVars, config>> => ManagerInv'
<1> SUFFICES ASSUME ManagerInv, RefreshStep, UNCHANGED <<tableVars, config>>
             PROVE  ManagerInv'
  OBVIOUS
<1> USE InstanceManagerAssumption DEF tableVars, Live
<1>1. ASSUME NEW i \in Ids, OpenComm(i) PROVE ManagerInv'
  BY <1>1 DEF OpenComm, CommExists, Threads, ManagerInv, ManagerTypeOK
<1>2. ASSUME NEW i \in Ids, OpenFails(i) PROVE ManagerInv'
  <2>1. new_map' \in ProcessMap /\ found' = found \ {i}
    BY <1>2, RecordTypes, ProcTableAssumption DEF OpenFails
  <2> QED
    BY <1>2, <2>1 DEF OpenFails, ManagerInv, ManagerTypeOK
<1>3. CASE ReadComm
  <2>1. task[fd].comm \in Comms
    BY <1>3 DEF ReadComm, ManagerInv, ManagerTypeOK, Task
  <2>2. new_map' \in ProcessMap /\ found' = found \ {fd}
    BY <1>3, <2>1, RecordTypes DEF ReadComm
  <2> QED
    BY <1>3, <2>2 DEF ReadComm, ManagerInv, ManagerTypeOK
<1>4. CASE ReadFails
  BY <1>4 DEF ReadFails, ManagerInv, ManagerTypeOK, Phase
<1>5. CASE EndPids
  BY <1>5 DEF EndPids, ManagerInv, ManagerTypeOK, Phase, Mapped
<1>6. ASSUME NEW p \in Ids, ListTids(p) PROVE ManagerInv'
  BY <1>6 DEF ListTids, ManagerInv, ManagerTypeOK, Phase, tids_of_pid, Threads
<1>7. CASE EndTids
  BY <1>7 DEF EndTids, ManagerInv, ManagerTypeOK, Phase
<1>8. CASE Install
  BY <1>8, EmptyMapType DEF Install, ManagerInv, ManagerTypeOK, Phase
<1> QED
  BY <1>1, <1>2, <1>3, <1>4, <1>5, <1>6, <1>7, <1>8 DEF RefreshStep

\* The kernel's steps keep it: a file whose task exits is Gone.
LEMMA KernelInv == ManagerInv /\ Kernel /\ UNCHANGED config => ManagerInv'
<1> SUFFICES ASSUME ManagerInv, Kernel, UNCHANGED config PROVE ManagerInv'
  OBVIOUS
<1>1. task' \in [Ids -> Task \cup {NoTask}] /\ changes' \in 0..MaxChanges
  BY TableStepTypes DEF Kernel, ManagerInv
<1>2. fd' \in Ids \cup {Closed, Gone} /\ (fd' \in Ids => task'[fd'] # NoTask /\ fd' = fd)
  BY InstanceManagerAssumption DEF Kernel, ManagerInv, ManagerTypeOK
<1> QED
  BY <1>1, <1>2, InstanceManagerAssumption
     DEF Kernel, ManagerInv, ManagerTypeOK, Live
=============================================================================
