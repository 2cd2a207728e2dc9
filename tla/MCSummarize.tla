----------------------------- MODULE MCSummarize -----------------------------
(***************************************************************************)
(* Two ticks after an older recording.  Two processes have one pid in      *)
(* turn, two threads differ in nothing but the tid, and comms have no, one *)
(* and two words, of which one is a number.  A metric is named twice.      *)
(***************************************************************************)
EXTENDS Summarize

MCText == STRING

MCNumbers == {<<"0">>, <<"1">>, <<"2">>, <<"9">>, <<"101">>, <<"201">>, <<"202">>}

MCCutNumber == <<"0">>

MCTimes == <<<<"201">>, <<"202">>>>

System(v) ==
  [metric |-> <<"system", "example", "hello">>, stat_type |-> <<"counter">>,
   names |-> <<<<<<"host">>>>>>, value |-> <<v>>]

Process(pid, pcomm, v) ==
  [metric |-> <<"process", "taskstats", "cpu">>, stat_type |-> <<"derive">>,
   names |-> <<<<<<pid>>>>, pcomm>>, value |-> <<v>>]

Thread(pid, pcomm, tid, tcomm, v) ==
  [metric |-> <<"thread", "taskstats", "cpu">>, stat_type |-> <<"derive">>,
   names |-> <<<<<<pid>>>>, pcomm, <<<<tid>>>>, tcomm>>, value |-> <<v>>]

Foreign ==
  [metric |-> <<"disk", "example", "reads">>, stat_type |-> <<"gauge">>,
   names |-> <<<<<<"sda">>>>>>, value |-> <<"1">>]

a == <<<<"a">>>>
b == <<<<"b">>>>
a9 == <<<<"a">>, <<"9">>>>

MCBatches ==
  { <<Process("1", b, "2"), Process("1", b, "2")>>,
    <<Thread("1", a, "1", a, "1"), Thread("1", a, "2", a, "2")>>,
    <<Thread("1", a9, "2", <<>>, "2")>> }

First(samples, whole, place) ==
  [lines |-> [i \in 1..Len(samples) |-> [ts |-> <<"101">>, sample |-> samples[i]]],
   written |-> [whole |-> whole, place |-> place]]

MCRecordings ==
  { First(<<>>, 0, 0),
    First(<<Process("1", <<>>, "1")>>, 1, 0),
    First(<<System("1"), Process("1", a, "1"), Thread("1", a, "1", a, "2")>>, 3, 0),
    First(<<Foreign, Process("1", a9, "1"), Thread("1", a, "2", a, "2")>>, 2, 23) }
=============================================================================
