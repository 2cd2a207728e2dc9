--------------------------- MODULE MCRefreshWindow ---------------------------
(***************************************************************************)
(* RefreshWindow on three ids.  The filters MCConfigs cover: no filter at  *)
(* all, a filter by id, by comm and by prefix, on processes and on threads.*)
(***************************************************************************)
EXTENDS RefreshWindow

CONSTANTS a, e, x

MCIds == 1..3
MCIds2 == 1..2
MCComms == {a, e}
MCOneComm == {a}
MCPrefixes == {x}
MCPrefixOf == {<<x, a>>}

NoFilter ==
  [pids |-> {}, pcomm |-> {}, pcomm_prefix |-> {},
   tids |-> {}, tcomm |-> {}, tcomm_prefix |-> {},
   enable_process |-> TRUE, enable_thread |-> TRUE]

MCConfigs ==
  { NoFilter,
    [NoFilter EXCEPT !.pcomm = {a}, !.tcomm_prefix = {x}],
    [NoFilter EXCEPT !.pids = {1}, !.pcomm_prefix = {x}, !.tids = {2}] }
=============================================================================
