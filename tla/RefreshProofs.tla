---------------------------- MODULE RefreshProofs ----------------------------
(***************************************************************************)
(* What a refresh promises, for every set of ids, every filter and any     *)
(* number of kernel steps.                                                 *)
(*                                                                         *)
(* The window of a refresh only grows while it runs, so that whatever was  *)
(* seen stays seen (Watching).  Every id still to be read was there when   *)
(* it was listed (Listed); hence everything put in new_map is sound        *)
(* (NewSound).  An id that stayed what it was through the window is in     *)
(* new_map or still to be read, at each point of the three loops           *)
(* (Covered).  A file goes dead only under the exit of an id that is still *)
(* to be read (Thrown).                                                    *)
(***************************************************************************)
EXTENDS RefreshWindow, ManagerProofs

Watching == Refreshing => \A i \in Ids : task[i] \in seen[i]

Thrown ==
  /\ phase = "aborted" => fd = Gone
  /\ fd = Gone => lost # {}

Listed ==
  /\ phase = "pcomm" => \A p \in found : WasProcess(p)
  /\ phase \in {"procs", "tcomm"} => rest \subseteq Mapped(new_map)
  /\ phase = "tcomm" =>
       /\ cur \in Mapped(new_map)
       /\ \A t \in found : /\ WasLive(t)
                           /\ WasDead(t) \/ WasDead(cur) \/ t \in Threads(cur)

NewSound == Refreshing => Sound(new_map)

\* The process p, the thread t of p, stayed and was wanted all the time.
Stayed(p) == AlwaysProcess(p) /\ (\A v \in seen[p] : PidWanted(p, v.comm))

ThreadStayed(p, t) ==
  /\ AlwaysProcess(p) /\ AlwaysThreadOf(t, p)
  /\ \A v \in seen[t] : TidWanted(t, v.comm)

Covered ==
  /\ phase = "pcomm" =>
       \A p \in Ids : Stayed(p) => p \in found \cup Mapped(new_map)
  /\ phase \in {"procs", "tcomm"} =>
       /\ \A p \in Ids : Stayed(p) => p \in Mapped(new_map)
       /\ \A p \in Mapped(new_map), t \in Ids : ThreadStayed(p, t) =>
            \/ p \in rest
            \/ phase = "tcomm" /\ p = cur /\ t \in found
            \/ t \in MappedThreads(new_map, p)

IInv ==
  /\ TypeOK
  /\ ManagerInv
  /\ Watching
  /\ Thrown
  /\ Listed
  /\ NewSound
  /\ Covered
  /\ MapSound
  /\ MapComplete

-----------------------------------------------------------------------------
\* Nothing is in an empty map.
LEMMA EmptyMapKeys ==
  /\ Mapped(EmptyMap) = {}
  /\ \A p \in Ids : MappedThreads(EmptyMap, p) = {}
BY DEF EmptyMap, Mapped, MappedThreads

\* The program starts with the invariant: no window, no map.
LEMMA InitIInv == Init => IInv
<1> SUFFICES ASSUME Init PROVE IInv
  OBVIOUS
<1> USE DEF Init
<1>1. ManagerInv
  BY ManagerInitInv
<1>2. TypeOK
  BY <1>1 DEF ManagerInv, TypeOK
<1>3. /\ phase = "idle" /\ process_map = EmptyMap /\ fd = Closed
      /\ \A i \in Ids : seen[i] = {}
  BY DEF ManagerInit
<1>4. Watching /\ Thrown /\ Listed /\ NewSound /\ Covered
  BY <1>3, InstanceManagerAssumption
     DEF Watching, Thrown, Listed, NewSound, Covered, Refreshing
<1>5. MapSound
  BY <1>3, EmptyMapKeys DEF MapSound, Sound
<1>6. MapComplete
  BY <1>3, EmptyMapKeys DEF MapComplete, AlwaysProcess
<1> QED
  BY <1>1, <1>2, <1>4, <1>5, <1>6 DEF IInv

-----------------------------------------------------------------------------
\* refresh is called: the window is the present, and new_map is empty.
LEMMA BeginRefreshInv == IInv /\ BeginRefresh => IInv'
<1> SUFFICES ASSUME IInv, BeginRefresh PROVE IInv'
  OBVIOUS
<1> USE DEF BeginRefresh
<1>1. ManagerInv'
  BY RefreshInv DEF IInv
<1>2. /\ phase = "idle" /\ phase' = "pcomm" /\ fd' = Closed
      /\ task' = task /\ config' = config
      /\ \A i \in Ids : seen'[i] = {task[i]}
      /\ found' = {p \in Ids : IsProcess(p)}
      /\ Mapped(new_map') = {} /\ \A p \in Ids : MappedThreads(new_map', p) = {}
  BY EmptyMapKeys
     DEF Refresh, tableVars, IInv, ManagerInv, get_all_pids
<1>3. TypeOK'
  <2>1. seen' \in [Ids -> SUBSET (Task \cup {NoTask})]
    BY DEF IInv, TypeOK, ManagerTypeOK
  <2> QED
    BY <1>1, <2>1 DEF TypeOK, ManagerInv
<1>4. Watching'
  BY <1>2 DEF Watching
<1>5. Thrown'
  BY <1>2, InstanceManagerAssumption DEF Thrown
<1>6. Listed'
  BY <1>2 DEF Listed, WasProcess, IsProcess, Live
<1>7. NewSound'
  BY <1>2 DEF NewSound, Sound
<1>8. Covered'
  BY <1>2 DEF Covered, Stayed, AlwaysProcess, IsProcess, Live
<1>9. MapSound' /\ MapComplete'
  BY <1>2 DEF MapSound, MapComplete
<1> QED
  BY <1>1, <1>3, <1>4, <1>5, <1>6, <1>7, <1>8, <1>9 DEF IInv

-----------------------------------------------------------------------------
\* The window and the filters stay: what was so of an id is so still.
LEMMA SameWindow ==
  ASSUME UNCHANGED <<config, seen>>
  PROVE  /\ \A i \in Ids : /\ WasLive(i)' = WasLive(i)
                           /\ WasDead(i)' = WasDead(i)
                           /\ WasProcess(i)' = WasProcess(i)
                           /\ Stayed(i)' = Stayed(i)
                           /\ \A t \in Ids : ThreadStayed(i, t)' = ThreadStayed(i, t)
BY DEF WasLive, WasDead, WasProcess, Stayed, ThreadStayed, AlwaysProcess,
       AlwaysThreadOf, PidWanted, TidWanted, all_processes, all_threads,
       StartsWithAny

\* Soundness looks at a map, the window and the filters only.
LEMMA SameSound ==
  ASSUME UNCHANGED <<config, seen>>
  PROVE  /\ new_map' = new_map /\ Sound(new_map) => Sound(new_map)'
         /\ process_map' = process_map /\ Sound(process_map) => Sound(process_map)'
         /\ process_map' = new_map /\ Sound(new_map) => Sound(process_map)'
<1> USE DEF Sound, ProcessSound, ThreadSound, HadComm, Mapped, MappedThreads,
            WasLive, WasDead, WasProcess, PidWanted, TidWanted, all_processes,
            all_threads, StartsWithAny
<1>1. new_map' = new_map /\ Sound(new_map) => Sound(new_map)'
  OBVIOUS
<1>2. process_map' = process_map /\ Sound(process_map) => Sound(process_map)'
  OBVIOUS
<1>3. process_map' = new_map /\ Sound(new_map) => Sound(process_map)'
  OBVIOUS
<1> QED
  BY <1>1, <1>2, <1>3

\* The keys of the map after a comm was recorded, or not.
LEMMA RecordKeys ==
  ASSUME ManagerInv, phase \in {"pcomm", "tcomm"}, NEW i \in Ids,
         NEW c \in Comms, Record(i, c)
  PROVE  /\ phase = "pcomm" =>
              /\ Mapped(new_map') = Mapped(new_map) \cup
                                      (IF PidWanted(i, c) THEN {i} ELSE {})
              /\ new_map'.threads = new_map.threads
              /\ \A p \in Mapped(new_map') : new_map'.comm[p] =
                   IF p = i /\ PidWanted(i, c) THEN c ELSE new_map.comm[p]
         /\ phase = "tcomm" =>
              /\ new_map'.comm = new_map.comm
              /\ \A p \in Ids : MappedThreads(new_map', p) =
                   MappedThreads(new_map, p) \cup
                     (IF p = cur /\ TidWanted(i, c) THEN {i} ELSE {})
              /\ \A p, t \in Ids : new_map'.threads[p][t] =
                   IF p = cur /\ t = i /\ TidWanted(i, c)
                     THEN c ELSE new_map.threads[p][t]
<1> USE InstanceManagerAssumption DEF ManagerInv, ManagerTypeOK
<1>0. c \in NameOrAbsent /\ c # Absent
  BY DEF NameOrAbsent
<1>1. ASSUME phase = "pcomm", PidWanted(i, c)
      PROVE  /\ new_map'.comm = [new_map.comm EXCEPT ![i] = c]
             /\ new_map'.threads = new_map.threads
  <2>1. new_map' = [new_map EXCEPT !.comm[i] = c]
    BY <1>1 DEF Record
  <2> QED
    BY <1>0, <2>1, PutComm
<1>2. ASSUME phase = "tcomm", TidWanted(i, c)
      PROVE  /\ new_map'.comm = new_map.comm
             /\ new_map'.threads =
                  [new_map.threads EXCEPT ![cur] = [new_map.threads[cur] EXCEPT ![i] = c]]
  <2>1. new_map' = [new_map EXCEPT !.threads[cur][i] = c]
    BY <1>2 DEF Record
  <2> QED
    BY <1>0, <1>2, <2>1, PutThread
<1>3. ASSUME ~(phase = "pcomm" /\ PidWanted(i, c)), ~(phase = "tcomm" /\ TidWanted(i, c))
      PROVE  new_map' = new_map
  BY <1>3 DEF Record
<1>4. CASE phase = "pcomm"
  <2>1. CASE PidWanted(i, c)
    BY <1>0, <1>1, <1>4, <2>1 DEF Mapped, ProcessMap
  <2>2. CASE ~PidWanted(i, c)
    BY <1>3, <1>4, <2>2 DEF Mapped
  <2> QED
    BY <1>4, <2>1, <2>2
<1>5. CASE phase = "tcomm"
  <2>1. CASE TidWanted(i, c)
    <3>1. \A p, t \in Ids : new_map'.threads[p][t] =
            IF p = cur /\ t = i THEN c ELSE new_map.threads[p][t]
      BY <1>2, <1>5, <2>1 DEF ProcessMap
    <3> QED
      BY <1>0, <1>2, <1>5, <2>1, <3>1 DEF MappedThreads
  <2>2. CASE ~TidWanted(i, c)
    BY <1>3, <1>5, <2>2 DEF MappedThreads
  <2> QED
    BY <1>5, <2>1, <2>2
<1> QED
  BY <1>4, <1>5

\* Recording a comm that the listed id had in the window, or the empty one for
\* an id that went, keeps the rest of the invariant.  An id that stayed is
\* recorded.
LEMMA RecordInv ==
  ASSUME IInv, ManagerInv', UNCHANGED <<tableVars, config, seen>>,
         UNCHANGED <<process_map, phase, rest, cur>>, lost' = lost \cap found',
         phase \in {"pcomm", "tcomm"}, fd' = Closed,
         NEW i \in found, NEW c \in Comms, Record(i, c),
         \/ HadComm(i, c)
         \/ c = Empty /\ (WasDead(i) \/ (phase = "tcomm" /\ WasDead(cur))),
         phase = "pcomm" /\ Stayed(i) => PidWanted(i, c),
         phase = "tcomm" /\ ThreadStayed(cur, i) => TidWanted(i, c)
  PROVE  IInv'
<1> USE DEF IInv
<1>0. i \in Ids /\ found' = found \ {i} /\ (phase = "tcomm" => cur \in Ids)
  BY DEF Record, TypeOK, ManagerTypeOK, ManagerInv
<1>1. TypeOK'
  BY DEF TypeOK, ManagerInv
<1>2. Watching' /\ Thrown' /\ MapSound' /\ MapComplete'
  <2>1. Watching'
    BY DEF Watching, Refreshing, tableVars
  <2>2. Thrown'
    BY InstanceManagerAssumption DEF Thrown
  <2> QED
    BY <2>1, <2>2 DEF MapSound, MapComplete
<1>3. CASE phase = "pcomm"
  <2> USE <1>0, <1>3
  <2>1. /\ Mapped(new_map') = Mapped(new_map) \cup
                                (IF PidWanted(i, c) THEN {i} ELSE {})
        /\ new_map'.threads = new_map.threads
        /\ \A p \in Mapped(new_map') : new_map'.comm[p] =
             IF p = i /\ PidWanted(i, c) THEN c ELSE new_map.comm[p]
    BY RecordKeys
  <2>2. Listed'
    BY SameWindow DEF Listed, TypeOK, ManagerTypeOK
  <2>3. Sound(new_map)'
    <3>1. ASSUME NEW p \in Ids, p \in Mapped(new_map') PROVE ProcessSound(new_map, p)'
      <4>1. CASE p = i /\ PidWanted(i, c)
        <5>1. WasProcess(i)
          BY DEF Listed
        <5>2. new_map'.comm[p] = c
          BY <2>1, <3>1, <4>1
        <5> QED
          BY <4>1, <5>1, <5>2
             DEF ProcessSound, WasProcess, HadComm, WasDead, PidWanted,
                 all_processes, StartsWithAny
      <4>2. CASE ~(p = i /\ PidWanted(i, c))
        <5>1. p \in Mapped(new_map) /\ new_map'.comm[p] = new_map.comm[p]
          BY <2>1, <3>1, <4>2
        <5>2. ProcessSound(new_map, p)
          BY <5>1 DEF NewSound, Refreshing, Sound
        <5> QED
          BY <5>1, <5>2
             DEF ProcessSound, WasProcess, HadComm, WasDead, PidWanted,
                 all_processes, StartsWithAny
      <4> QED
        BY <4>1, <4>2
    <3>2. ASSUME NEW p \in Ids, NEW t \in Ids, t \in MappedThreads(new_map', p)
          PROVE  ThreadSound(new_map, p, t)'
      <4>1. t \in MappedThreads(new_map, p)
        BY <2>1, <3>2 DEF MappedThreads
      <4>2. ThreadSound(new_map, p, t)
        BY <4>1 DEF NewSound, Refreshing, Sound
      <4> QED
        BY <2>1, <4>2
           DEF ThreadSound, WasLive, HadComm, WasDead, TidWanted, all_threads,
               StartsWithAny
    <3> QED
      BY <3>1, <3>2 DEF Sound, Mapped, MappedThreads
  <2>4. Covered'
    BY <2>1, SameWindow DEF Covered
  <2> QED
    BY <1>1, <1>2, <2>2, <2>3, <2>4 DEF NewSound
<1>4. CASE phase = "tcomm"
  <2> USE <1>0, <1>4
  <2>1. /\ new_map'.comm = new_map.comm
        /\ \A p \in Ids : MappedThreads(new_map', p) =
             MappedThreads(new_map, p) \cup
               (IF p = cur /\ TidWanted(i, c) THEN {i} ELSE {})
        /\ \A p, t \in Ids : new_map'.threads[p][t] =
             IF p = cur /\ t = i /\ TidWanted(i, c)
               THEN c ELSE new_map.threads[p][t]
    BY RecordKeys
  <2>2. Mapped(new_map') = Mapped(new_map)
    BY <2>1 DEF Mapped
  <2>3. Listed'
    BY <2>2, SameWindow
       DEF Listed, TypeOK, ManagerTypeOK, Threads, Live, tableVars
  <2>4. Sound(new_map)'
    <3>1. ASSUME NEW p \in Ids, p \in Mapped(new_map') PROVE ProcessSound(new_map, p)'
      <4>1. ProcessSound(new_map, p)
        BY <2>2, <3>1 DEF NewSound, Refreshing, Sound
      <4> QED
        BY <2>1, <4>1
           DEF ProcessSound, WasProcess, HadComm, WasDead, PidWanted,
               all_processes, StartsWithAny
    <3>2. ASSUME NEW p \in Ids, NEW t \in Ids, t \in MappedThreads(new_map', p)
          PROVE  ThreadSound(new_map, p, t)'
      <4>1. CASE p = cur /\ t = i /\ TidWanted(i, c)
        <5>1. WasLive(i) /\ cur \in Mapped(new_map')
          BY <2>2 DEF Listed
        <5>2. new_map'.threads[p][t] = c
          BY <2>1, <4>1
        <5> QED
          BY <4>1, <5>1, <5>2
             DEF ThreadSound, WasLive, HadComm, WasDead, TidWanted, all_threads,
                 StartsWithAny
      <4>2. CASE ~(p = cur /\ t = i /\ TidWanted(i, c))
        <5>1. /\ t \in MappedThreads(new_map, p)
              /\ new_map'.threads[p][t] = new_map.threads[p][t]
          BY <2>1, <3>2, <4>2
        <5>2. ThreadSound(new_map, p, t)
          BY <5>1 DEF NewSound, Refreshing, Sound
        <5> QED
          BY <2>2, <5>1, <5>2
             DEF ThreadSound, WasLive, HadComm, WasDead, TidWanted, all_threads,
                 StartsWithAny
      <4> QED
        BY <4>1, <4>2
    <3> QED
      BY <3>1, <3>2 DEF Sound, Mapped, MappedThreads
  <2>5. Covered'
    <3>1. \A p \in Ids : Stayed(p)' => p \in Mapped(new_map')
      BY <2>2, SameWindow DEF Covered
    <3>2. ASSUME NEW p \in Mapped(new_map'), NEW t \in Ids, ThreadStayed(p, t)'
          PROVE  \/ p \in rest'
                 \/ p = cur' /\ t \in found'
                 \/ t \in MappedThreads(new_map', p)
      <4>1. p \in Ids /\ p \in Mapped(new_map) /\ ThreadStayed(p, t)
        BY <2>2, <3>2, SameWindow DEF Mapped
      <4>2. \/ p \in rest
            \/ p = cur /\ t \in found
            \/ t \in MappedThreads(new_map, p)
        BY <4>1 DEF Covered
      <4>3. CASE p = cur /\ t = i
        BY <2>1, <4>1, <4>3
      <4> QED
        BY <2>1, <4>1, <4>2, <4>3
    <3> QED
      BY <3>1, <3>2 DEF Covered
  <2> QED
    BY <1>1, <1>2, <2>3, <2>4, <2>5 DEF NewSound
<1> QED
  BY <1>3, <1>4
-----------------------------------------------------------------------------
\* Opening a comm file.
LEMMA OpenCommInv ==
  ASSUME IInv, ManagerInv', UNCHANGED <<tableVars, config, seen>>,
         lost' = lost \cap found', NEW i \in Ids, OpenComm(i)
  PROVE  IInv'
<1> USE DEF IInv, OpenComm
<1>1. TypeOK' /\ Watching' /\ MapSound' /\ MapComplete'
  BY DEF TypeOK, ManagerInv, Watching, Refreshing, tableVars, MapSound, MapComplete
<1>2. Thrown'
  BY InstanceManagerAssumption DEF Thrown
<1>3. Listed'
  BY SameWindow
     DEF Listed, TypeOK, ManagerTypeOK, Threads, Live, tableVars, Mapped
<1>4. NewSound'
  BY SameSound DEF NewSound, Refreshing
<1>5. Covered'
  BY SameWindow DEF Covered, Mapped, MappedThreads
<1> QED
  BY <1>1, <1>2, <1>3, <1>4, <1>5

\* Failing to open one: the id went, so it did not stay what it was.
LEMMA OpenFailsInv ==
  ASSUME IInv, ManagerInv', UNCHANGED <<tableVars, config, seen>>,
         lost' = lost \cap found', NEW i \in Ids, OpenFails(i)
  PROVE  IInv'
<1>1. /\ UNCHANGED <<process_map, phase, rest, cur>>
      /\ phase \in {"pcomm", "tcomm"} /\ fd' = Closed
      /\ i \in found /\ Record(i, Empty) /\ Empty \in Comms
      /\ ~CommExists(i)
  BY ProcTableAssumption DEF OpenFails
<1>2. task[i] \in seen[i]
  BY <1>1 DEF IInv, Watching, Refreshing
<1>3. phase = "pcomm" => WasDead(i) /\ ~Stayed(i)
  BY <1>1, <1>2 DEF CommExists, Live, WasDead, Stayed, AlwaysProcess
<1>4. phase = "tcomm" => WasDead(i) \/ WasDead(cur)
  BY <1>1 DEF CommExists, IInv, Listed
<1>5. phase = "tcomm" => ~ThreadStayed(cur, i)
  BY <1>4 DEF WasDead, ThreadStayed, AlwaysProcess, AlwaysThreadOf
<1> QED
  BY <1>1, <1>3, <1>4, <1>5, RecordInv

\* Reading a comm file: what it holds is in the window.
LEMMA ReadInv ==
  ASSUME IInv, ManagerInv', UNCHANGED <<tableVars, config, seen>>,
         lost' = lost \cap found', ReadComm
  PROVE  IInv'
<1> USE DEF IInv, ReadComm
<1>1. fd \in found /\ task[fd] # NoTask /\ phase \in {"pcomm", "tcomm"}
  BY InstanceManagerAssumption
     DEF ManagerInv, Live, Thrown, TypeOK, ManagerTypeOK, Phase
<1>2. task[fd] \in seen[fd] /\ task[fd].comm \in Comms
  BY <1>1 DEF Watching, Refreshing, TypeOK, ManagerTypeOK, Task
<1>3. HadComm(fd, task[fd].comm)
  BY <1>1, <1>2 DEF HadComm
<1>4. /\ Stayed(fd) => PidWanted(fd, task[fd].comm)
      /\ ThreadStayed(cur, fd) => TidWanted(fd, task[fd].comm)
  BY <1>2 DEF Stayed, ThreadStayed
<1> QED
  BY <1>1, <1>2, <1>3, <1>4, RecordInv

\* The exception: the program ends, and an exit was the reason.
LEMMA ReadFailsInv ==
  ASSUME IInv, ManagerInv', UNCHANGED <<tableVars, config, seen>>,
         lost' = lost \cap found', ReadFails
  PROVE  IInv'
<1> USE DEF IInv, ReadFails
<1>1. TypeOK'
  BY DEF TypeOK, ManagerInv
<1>2. Thrown'
  BY DEF Thrown, TypeOK
<1>3. Watching' /\ Listed' /\ NewSound' /\ Covered' /\ MapSound' /\ MapComplete'
  BY DEF Watching, Listed, NewSound, Covered, MapSound, MapComplete, Refreshing
<1> QED
  BY <1>1, <1>2, <1>3

\* From one loop to the next: nothing is left to be read.
LEMMA LoopInv ==
  ASSUME IInv, ManagerInv', UNCHANGED <<tableVars, config, seen>>,
         lost' = lost \cap found',
         \/ EndPids \/ EndTids \/ \E p \in Ids : ListTids(p)
  PROVE  IInv'
<1> USE DEF IInv
<1>0. /\ UNCHANGED <<process_map, new_map, fd>>
      /\ phase \in {"pcomm", "procs", "tcomm"} /\ phase' \in {"procs", "tcomm"}
  BY DEF EndPids, EndTids, ListTids
<1>1. TypeOK' /\ Watching' /\ MapSound' /\ MapComplete'
  BY <1>0 DEF TypeOK, ManagerInv, Watching, Refreshing, tableVars, MapSound,
              MapComplete
<1>2. Thrown'
  BY <1>0, InstanceManagerAssumption
     DEF Thrown, ManagerInv, EndPids, EndTids, ListTids
<1>3. NewSound'
  BY <1>0, SameSound DEF NewSound, Refreshing
<1>4. \A m : /\ Mapped(m)' = Mapped(m)
             /\ \A p : MappedThreads(m, p)' = MappedThreads(m, p)
  BY DEF Mapped, MappedThreads
<1>5. ASSUME EndPids PROVE Listed' /\ Covered'
  BY <1>5, SameWindow DEF EndPids, Listed, Covered, Mapped, MappedThreads
<1>6. ASSUME EndTids PROVE Listed' /\ Covered'
  BY <1>6, SameWindow DEF EndTids, Listed, Covered, Mapped, MappedThreads
<1>7. ASSUME NEW p \in Ids, ListTids(p) PROVE Listed' /\ Covered'
  <2> USE <1>7 DEF ListTids
  <2>1. /\ p \in Mapped(new_map) /\ rest \subseteq Mapped(new_map)
        /\ \A t \in Ids : task[t] \in seen[t]
    BY DEF Listed, Watching, Refreshing
  <2>2. \A t \in Threads(p) : WasLive(t)
    BY <2>1 DEF Threads, Live, WasLive
  <2>3. Threads(p)' = Threads(p) /\ Mapped(new_map)' = Mapped(new_map)
    BY DEF Threads, Live, tableVars, Mapped
  <2>4. Listed'
    BY <1>0, <2>1, <2>2, <2>3, SameWindow DEF Listed, tids_of_pid, Threads
  <2>5. ASSUME NEW t \in Ids, ThreadStayed(p, t) PROVE t \in Threads(p)
    BY <2>1, <2>5
       DEF ThreadStayed, AlwaysProcess, AlwaysThreadOf, Threads, Live
  <2>6. Covered'
    <3>1. \A q \in Ids : Stayed(q)' => q \in Mapped(new_map)'
      BY <2>3, SameWindow DEF Covered
    <3>2. ASSUME NEW q \in Mapped(new_map), NEW t \in Ids, ThreadStayed(q, t)'
          PROVE  \/ q \in rest'
                 \/ q = cur' /\ t \in found'
                 \/ t \in MappedThreads(new_map, q)
      <4>1. q \in Ids /\ ThreadStayed(q, t)
        BY <3>2, SameWindow DEF Mapped
      <4>2. q \in rest \/ t \in MappedThreads(new_map, q)
        BY <4>1 DEF Covered
      <4> QED
        BY <2>5, <4>1, <4>2 DEF tids_of_pid
    <3>3. \A q \in Ids : MappedThreads(new_map, q)' = MappedThreads(new_map, q)
      BY <1>0 DEF MappedThreads
    <3> QED
      BY <1>0, <2>3, <3>1, <3>2, <3>3 DEF Covered, Mapped
  <2> QED
    BY <2>4, <2>6
<1>8. Listed' /\ Covered'
  BY <1>5, <1>6, <1>7
<1> QED
  BY <1>1, <1>2, <1>3, <1>8

\* The new map replaces the old one when nothing is left to be read: what was
\* so of the one is so of the other.
LEMMA InstallInv ==
  ASSUME IInv, ManagerInv', UNCHANGED <<tableVars, config, seen>>,
         lost' = lost \cap found', Install
  PROVE  IInv'
<1> USE DEF IInv, Install
<1>1. TypeOK'
  BY DEF TypeOK, ManagerInv
<1>2. Thrown'
  BY InstanceManagerAssumption DEF Thrown, ManagerInv
<1>3. Watching' /\ Listed' /\ NewSound' /\ Covered'
  BY DEF Watching, Listed, NewSound, Covered, Refreshing
<1>4. MapSound'
  BY SameSound DEF MapSound, NewSound, Refreshing
<1>5. MapComplete'
  <2>1. ASSUME NEW p \in Ids, Stayed(p)' PROVE p \in Mapped(process_map)'
    <3>1. Stayed(p)
      BY <2>1, SameWindow
    <3> QED
      BY <3>1 DEF Covered, Mapped
  <2>2. ASSUME NEW p \in Mapped(process_map)', NEW t \in Ids, ThreadStayed(p, t)'
        PROVE  t \in MappedThreads(process_map, p)'
    <3>1. p \in Ids /\ p \in Mapped(new_map) /\ ThreadStayed(p, t)
      BY <2>2, SameWindow DEF Mapped
    <3>2. t \in MappedThreads(new_map, p)
      BY <3>1 DEF Covered
    <3> QED
      BY <3>2 DEF MappedThreads
  <2> QED
    BY <2>1, <2>2 DEF MapComplete, Stayed, ThreadStayed
<1> QED
  BY <1>1, <1>2, <1>3, <1>4, <1>5

\* Each step of the program within a refresh.
LEMMA ContinueInv == IInv /\ ContinueRefresh => IInv'
<1> SUFFICES ASSUME IInv, ContinueRefresh PROVE IInv'
  OBVIOUS
<1>1. ManagerInv' /\ UNCHANGED <<tableVars, config, seen>> /\ lost' = lost \cap found'
  BY RefreshStepInv DEF IInv, ContinueRefresh
<1> QED
  BY <1>1, OpenCommInv, OpenFailsInv, ReadInv, ReadFailsInv, LoopInv, InstallInv
     DEF ContinueRefresh, RefreshStep
-----------------------------------------------------------------------------
\* The window grows.  What was so at a moment of it is so still ...
LEMMA Once ==
  ASSUME config' = config, \A i \in Ids : seen[i] \subseteq seen'[i]
  PROVE  \A i \in Ids : /\ WasLive(i) => WasLive(i)'
                        /\ WasDead(i) => WasDead(i)'
                        /\ WasProcess(i) => WasProcess(i)'
BY DEF WasLive, WasDead, WasProcess

\* ... what was so all the time was so before, of a window that has a moment ...
LEMMA Always ==
  ASSUME config' = config, \A i \in Ids : seen[i] \subseteq seen'[i],
         \A i \in Ids : seen[i] # {}
  PROVE  \A i \in Ids : /\ Stayed(i)' => Stayed(i)
                        /\ \A t \in Ids : ThreadStayed(i, t)' => ThreadStayed(i, t)
BY DEF Stayed, ThreadStayed, AlwaysProcess, AlwaysThreadOf, PidWanted, TidWanted,
       all_processes, all_threads, StartsWithAny

\* ... and what was sound is sound.
LEMMA SoundStays ==
  ASSUME config' = config, \A i \in Ids : seen[i] \subseteq seen'[i],
         new_map' = new_map, Sound(new_map)
  PROVE  Sound(new_map)'
<1>1. ASSUME NEW p \in Ids, p \in Mapped(new_map) PROVE ProcessSound(new_map, p)'
  <2>1. ProcessSound(new_map, p)
    BY <1>1 DEF Sound
  <2> QED
    BY <2>1
       DEF ProcessSound, WasProcess, HadComm, WasDead, PidWanted, all_processes,
           StartsWithAny
<1>2. ASSUME NEW p \in Ids, NEW t \in Ids, t \in MappedThreads(new_map, p)
      PROVE  ThreadSound(new_map, p, t)'
  <2>1. ThreadSound(new_map, p, t)
    BY <1>2 DEF Sound
  <2> QED
    BY <2>1
       DEF ThreadSound, WasLive, HadComm, WasDead, TidWanted, all_threads,
           StartsWithAny, Mapped
<1> QED
  BY <1>1, <1>2 DEF Sound, Mapped, MappedThreads

\* A step of the kernel within a refresh.
LEMMA KernelWithin ==
  ASSUME IInv, ManagerInv', KernelStep, Refreshing
  PROVE  IInv'
<1>1. /\ UNCHANGED <<config, process_map, phase, found, rest, cur, new_map>>
      /\ TableStep /\ fd' = IF fd \in Ids /\ task'[fd] = NoTask THEN Gone ELSE fd
      /\ seen' = [i \in Ids |-> seen[i] \cup {task'[i]}]
      /\ lost' = lost \cup {i \in found : Live(i) /\ task'[i] = NoTask}
  BY DEF KernelStep, Kernel
<1>2. TypeOK'
  BY <1>1 DEF IInv, TypeOK, ManagerInv, ManagerTypeOK
<1>3. /\ \A i \in Ids : /\ task[i] \in seen[i] /\ task'[i] \in seen'[i]
                        /\ seen[i] \subseteq seen'[i]
      /\ \A i \in Ids : seen[i] # {}
  BY <1>1 DEF IInv, Watching
<1>4. Watching'
  BY <1>3 DEF Watching
<1>5. Thrown'
  <2>1. CASE fd \in Ids
    BY <1>1, <2>1, InstanceManagerAssumption
       DEF Thrown, Refreshing, IInv, ManagerInv, Live
  <2>2. CASE fd \notin Ids
    BY <1>1, <2>2 DEF Thrown, Refreshing, IInv
  <2> QED
    BY <2>1, <2>2
<1>6. Listed'
  <2>1. ASSUME phase = "tcomm", NEW t \in found
        PROVE  (WasDead(t) \/ WasDead(cur) \/ t \in Threads(cur))'
    <3>1. t \in Ids /\ cur \in Ids
      BY <2>1 DEF IInv, TypeOK, ManagerTypeOK, ManagerInv
    <3>2. CASE WasDead(t) \/ WasDead(cur)
      BY <1>1, <1>3, <3>1, <3>2, Once
    <3>3. CASE t \in Threads(cur)
      <4>1. CASE task'[t] = NoTask \/ task'[cur] = NoTask
        BY <1>1, <1>3, <3>1, <4>1 DEF WasDead
      <4>2. CASE task'[t] # NoTask /\ task'[cur] # NoTask
        <5>1. task'[t].tgid = task[t].tgid /\ task'[cur].tgid = task[cur].tgid
          BY <1>1, <3>1, <3>3, <4>2, TableStepTypes
             DEF Threads, Live, IInv, ManagerInv
        <5> QED
          BY <1>1, <3>1, <3>3, <4>2, <5>1 DEF Threads, Live
      <4> QED
        BY <4>1, <4>2
    <3> QED
      BY <2>1, <3>2, <3>3 DEF IInv, Listed
  <2>2. Mapped(new_map)' = Mapped(new_map) /\ found \subseteq Ids
    BY <1>1 DEF Mapped, IInv, TypeOK, ManagerTypeOK
  <2>3. phase = "tcomm" => \A t \in found : WasLive(t)'
    BY <1>1, <1>3, <2>2, Once DEF IInv, Listed
  <2>4. phase = "pcomm" => \A p \in found : WasProcess(p)'
    BY <1>1, <1>3, <2>2, Once DEF IInv, Listed
  <2> QED
    BY <1>1, <2>1, <2>2, <2>3, <2>4 DEF IInv, Listed, WasLive, WasProcess
<1>7. NewSound'
  BY <1>1, <1>3, SoundStays DEF NewSound, IInv
<1>8. Covered'
  <2>1. /\ Mapped(new_map)' = Mapped(new_map) /\ Mapped(new_map) \subseteq Ids
        /\ \A p \in Ids : MappedThreads(new_map, p)' = MappedThreads(new_map, p)
    BY <1>1 DEF Mapped, MappedThreads
  <2>2. \A p \in Ids : /\ Stayed(p)' => Stayed(p)
                       /\ \A t \in Ids : ThreadStayed(p, t)' => ThreadStayed(p, t)
    BY <1>1, <1>3, Always
  <2>3. phase = "pcomm" =>
          (\A p \in Ids : Stayed(p) => p \in found \cup Mapped(new_map))'
    BY <1>1, <2>1, <2>2 DEF IInv, Covered
  <2>4. phase \in {"procs", "tcomm"} =>
          (\A p \in Ids : Stayed(p) => p \in Mapped(new_map))'
    BY <1>1, <2>1, <2>2 DEF IInv, Covered
  <2>5. ASSUME phase \in {"procs", "tcomm"}, NEW p \in Mapped(new_map), NEW t \in Ids,
               ThreadStayed(p, t)'
        PROVE  \/ p \in rest
               \/ phase = "tcomm" /\ p = cur /\ t \in found
               \/ t \in MappedThreads(new_map, p)
    <3>1. p \in Ids /\ ThreadStayed(p, t)
      BY <2>1, <2>2, <2>5
    <3> QED
      BY <2>5, <3>1 DEF IInv, Covered
  <2> QED
    BY <1>1, <2>1, <2>3, <2>4, <2>5 DEF Covered
<1>9. MapSound' /\ MapComplete'
  BY <1>1 DEF MapSound, MapComplete, Refreshing
<1> QED
  BY <1>2, <1>4, <1>5, <1>6, <1>7, <1>8, <1>9 DEF IInv

\* A step of the kernel between refreshes, or after the end.
LEMMA KernelBetween ==
  ASSUME IInv, ManagerInv', KernelStep, ~Refreshing
  PROVE  IInv'
<1>1. /\ UNCHANGED <<config, process_map, phase, found, rest, cur, new_map, seen>>
      /\ phase \in {"idle", "aborted"} /\ ~(Refreshing')
      /\ lost \subseteq lost' /\ lost' \subseteq lost \cup found
  BY DEF KernelStep, Kernel, Refreshing
<1>2. TypeOK'
  BY <1>1 DEF IInv, TypeOK, ManagerInv
<1>3. Watching' /\ Listed' /\ NewSound' /\ Covered'
  BY <1>1 DEF Watching, Listed, NewSound, Covered, Refreshing
<1>4. fd' = fd
  BY <1>1, InstanceManagerAssumption
     DEF KernelStep, Kernel, IInv, Thrown, ManagerInv
<1>5. Thrown'
  BY <1>1, <1>4 DEF IInv, Thrown
<1>6. MapSound'
  BY <1>1, SameSound DEF IInv, MapSound
<1>7. MapComplete'
  BY <1>1
     DEF IInv, MapComplete, AlwaysProcess, AlwaysThreadOf, PidWanted, TidWanted,
         all_processes, all_threads, StartsWithAny, Mapped, MappedThreads
<1> QED
  BY <1>2, <1>3, <1>5, <1>6, <1>7 DEF IInv

-----------------------------------------------------------------------------
\* Every step of the program and of the kernel preserves the invariant.
LEMMA NextIInv == IInv /\ [Next]_vars => IInv'
<1> SUFFICES ASSUME IInv, [Next]_vars PROVE IInv'
  OBVIOUS
<1>1. CASE BeginRefresh
  BY <1>1, BeginRefreshInv
<1>2. CASE ContinueRefresh
  BY <1>2, ContinueInv
<1>3. CASE KernelStep
  <2>1. ManagerInv'
    BY <1>3, KernelInv DEF IInv, KernelStep
  <2> QED
    BY <1>3, <2>1, KernelWithin, KernelBetween
<1>4. CASE UNCHANGED vars
  <2>1. ManagerInv'
    BY <1>4
       DEF vars, managerVars, IInv, ManagerInv, ManagerTypeOK, Live
  <2>2. UNCHANGED <<config, seen, lost, task, process_map, phase, found, rest, cur, fd,
                    new_map>>
    BY <1>4 DEF vars, managerVars
  <2>3. TypeOK' /\ Watching' /\ Thrown' /\ Listed'
    BY <2>1, <2>2, SameWindow
       DEF IInv, TypeOK, ManagerInv, Watching, Thrown, Listed, Refreshing,
           Mapped, Threads, Live, ManagerTypeOK
  <2>4. NewSound' /\ MapSound'
    BY <2>2, SameSound DEF IInv, NewSound, MapSound, Refreshing
  <2>5. Covered'
    BY <2>2, SameWindow DEF IInv, Covered, Mapped, MappedThreads
  <2>6. MapComplete'
    BY <2>2
       DEF IInv, MapComplete, AlwaysProcess, AlwaysThreadOf, PidWanted, TidWanted,
           all_processes, all_threads, StartsWithAny, Mapped, MappedThreads
  <2> QED
    BY <2>1, <2>3, <2>4, <2>5, <2>6 DEF IInv
<1> QED
  BY <1>1, <1>2, <1>3, <1>4 DEF Next, Terminated

\* The invariant holds for ever.
THEOREM Invariance == Spec => []IInv
BY InitIInv, NextIInv, PTL DEF Spec

\* Every variable keeps its type, through every interleaving of a refresh with
\* the kernel.
THEOREM TypeCorrect == Spec => []TypeOK
<1>1. IInv => TypeOK
  BY DEF IInv
<1> QED
  BY <1>1, Invariance, PTL

\* The map that InstanceManager::refresh installs invents nothing.
THEOREM MapSoundHolds == Spec => []MapSound
<1>1. IInv => MapSound
  BY DEF IInv
<1> QED
  BY <1>1, Invariance, PTL

\* The map that InstanceManager::refresh installs misses nothing that stayed
\* put, whatever other tasks did.
THEOREM MapCompleteHolds == Spec => []MapComplete
<1>1. IInv => MapComplete
  BY DEF IInv
<1> QED
  BY <1>1, Invariance, PTL

\* The read in cat_str throws only when a task that the refresh has listed
\* exits before it was read.
THEOREM AbortOnlyOnExitHolds == Spec => []AbortOnlyOnExit
<1>1. IInv => AbortOnlyOnExit
  BY DEF IInv, Thrown, AbortOnlyOnExit
<1> QED
  BY <1>1, Invariance, PTL
=============================================================================
