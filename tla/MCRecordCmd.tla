---------------------------- MODULE MCRecordCmd ----------------------------
(***************************************************************************)
(* Lists of filters with a comma in every place, crossed with each other;  *)
(* intervals up to the width of the counter, crossed with every choice of  *)
(* up to two metrics; and the lines that end in main.                      *)
(***************************************************************************)
EXTENDS RecordCmd

MCText(w) ==
  CASE w = "1,2"                -> <<"1", ",", "2">>
    [] w = "1,"                 -> <<"1", ",">>
    [] w = ",,1"                -> <<",", ",", "1">>
    [] w = "2,x"                -> <<"2", ",", "x">>
    [] w = ""                   -> <<>>
    [] w = "a,b"                -> <<"a", ",", "b">>
    [] w = "a,,b"               -> <<"a", ",", ",", "b">>
    [] w = "a,"                 -> <<"a", ",">>
    [] w = ",a"                 -> <<",", "a">>
    [] w = "system:example"     -> <<"system", ":", "example">>
    [] w = "process:taskstats"  -> <<"process", ":", "taskstats">>
    [] w = "process:schedstat"  -> <<"process", ":", "schedstat">>
    [] w = "thread:taskstats"   -> <<"thread", ":", "taskstats">>
    [] w = "thread:taskstats:"  -> <<"thread", ":", "taskstats", ":">>
    [] OTHER                    -> <<w>>

IdLists == {"1", "1,2", "1,", ",,1", "2,x", ""}
NameLists == {"a,b", "a,,b", "a,", ",a", "b"}
Intervals == {"0", "1", "10", "11", "64", "200", "-1", "x"}
Metrics ==
  {"system:example", "process:taskstats", "process:schedstat", "thread:taskstats",
   "thread:taskstats:", "x"}

Ids == {<<>>} \cup {<<option, list>> : option \in {"-p", "-t"}, list \in IdLists}
Comms ==
  {<<>>} \cup {<<option, list>> :
     option \in {"--pcomm", "--pcomm-prefix", "--tcomm", "--tcomm-prefix"}, list \in NameLists}

FilterLines ==
  {<<"record">> \o ids \o comms \o <<"-e", metric>> :
     ids \in Ids, comms \in Comms, metric \in {"system:example", "thread:taskstats"}}

MetricLines ==
  {<<"record">> \o period \o <<"-e">> \o metrics :
     period \in {<<>>} \cup {<<"-i", ms>> : ms \in Intervals},
     metrics \in SeqOf(Metrics, 2) \ {<<>>}}

OtherLines ==
  { <<>>, <<"-g">>, <<"-h">>, <<"record">>, <<"record", "-l">>, <<"record", "-p">>,
    <<"record", "-i", "1">>, <<"record", "-e", "system:example", "-i">>,
    <<"summarize">>, <<"summarize", "a">>, <<"a">> }

MCLines == FilterLines \cup MetricLines \cup OtherLines

MCPositional ==
  IdLists \cup NameLists \cup Intervals \cup Metrics
    \cup {"a", "record", "summarize", "1000"}

MCWords ==
  MCPositional \cup
    {"-g", "-h", "-l", "-i", "-p", "-t", "-e", "--pcomm", "--pcomm-prefix",
     "--tcomm", "--tcomm-prefix"}

MCTextOf == [w \in MCWords |-> MCText(w)]
MCNone == [w \in MCWords |-> <<>>]
MCPidOf == [name \in {<<"1">>, <<"2">>} |-> IF name = <<"1">> THEN 1 ELSE 2]

MCStoul ==
  [w \in (Intervals \ {"x"}) \cup {"1000"} |->
     CASE w = "0" -> 0 [] w = "1" -> 1 [] w = "10" -> 10 [] w = "11" -> 11
       [] w = "64" -> 64 [] w = "200" -> 200 [] w = "-1" -> 255 [] w = "1000" -> 7]
=============================================================================
