------------------------------ MODULE TaskQuery ------------------------------
(***************************************************************************)
(* What NetlinkTaskstats::query and query_tgid promise their callers: the  *)
(* statistics of the task asked for if it lives, false if it does not,     *)
(* decided at one moment between the call and the return - or no answer    *)
(* and the end of the program.  Recorder's CollectProcess and CollectThread *)
(* take a query for one step on the strength of this.                      *)
(***************************************************************************)
CONSTANTS
  Ids,       \* pids and tids
  NoId,      \* "no query is under way"
  Undecided  \* "not looked at yet"

VARIABLES
  live,      \* the ids that tasks have
  asked,     \* the id asked about, or NoId
  answer,    \* what the kernel found, or Undecided
  result,    \* what the last query to return told its caller: <<id, answer>>
  dead       \* whether the program was ended by an exception

vars == <<live, asked, answer, result, dead>>

Init ==
  /\ live \in SUBSET Ids
  /\ asked = NoId
  /\ answer = Undecided
  /\ result = <<>>
  /\ dead = FALSE

Ask(t) ==
  /\ ~dead /\ asked = NoId
  /\ asked' = t
  /\ UNCHANGED <<live, answer, result, dead>>

Look ==
  /\ asked # NoId /\ answer = Undecided
  /\ answer' = IF asked \in live THEN "stats" ELSE "error"
  /\ UNCHANGED <<live, asked, result, dead>>

Return ==
  /\ asked # NoId /\ answer # Undecided
  /\ result' = <<asked, answer>>
  /\ asked' = NoId
  /\ answer' = Undecided
  /\ UNCHANGED <<live, dead>>

Fail ==
  /\ asked # NoId
  /\ asked' = NoId
  /\ answer' = Undecided
  /\ dead' = TRUE
  /\ UNCHANGED <<live, result>>

Churn ==
  /\ live' \in SUBSET Ids
  /\ UNCHANGED <<asked, answer, result, dead>>

Next == (\E t \in Ids : Ask(t)) \/ Look \/ Return \/ Fail \/ Churn

Spec == Init /\ [][Next]_vars
=============================================================================
