----------------------------- MODULE MCRecorder -----------------------------
(***************************************************************************)
(* Recorder on two ids.  TickIntervalMs and RefreshIntervalMs of the .cfg  *)
(* give n_ticks_to_refresh = 3.  CounterMod keeps the number of states     *)
(* finite: it is 4, which is no multiple of 3, as 2^64 is not.             *)
(***************************************************************************)
EXTENDS Recorder

CONSTANTS p1, p2, a, e, x

MCIds == {p1, p2}
MCComms == {a, e}
MCPrefixes == {x}
MCPrefixOf == {<<x, a>>}

NoFilter(p, t) ==
  [pids |-> {}, pcomm |-> {}, pcomm_prefix |-> {},
   tids |-> {}, tcomm |-> {}, tcomm_prefix |-> {},
   enable_process |-> p, enable_thread |-> t]

MCConfigs ==
  { NoFilter(TRUE, TRUE), NoFilter(TRUE, FALSE), NoFilter(FALSE, FALSE),
    [NoFilter(TRUE, TRUE) EXCEPT !.pcomm = {a}, !.tids = {p2}] }

\* system:example, process:taskstats and thread:taskstats in the combinations
\* that -e can select, one of them with a metric named twice.
MCFuncCounts ==
  { [system |-> 1, process |-> 0, thread |-> 0],
    [system |-> 0, process |-> 2, thread |-> 0],
    [system |-> 1, process |-> 1, thread |-> 1] }
=============================================================================
