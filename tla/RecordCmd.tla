------------------------------ MODULE RecordCmd ------------------------------
(***************************************************************************)
(* main after parse_args, and handle_record_cmd (src/src/ezcollect.cc): a  *)
(* parsed command line becomes the Options of a Recorder, or one of the    *)
(* error exits.  The metrics come from the plugins (src/src/plugin), whose *)
(* constructors ran before main and found the process capable of using     *)
(* taskstats, or not.                                                      *)
(***************************************************************************)
EXTENDS ArgParser, RecordOptions, Integers

CONSTANTS
  Text,               \* Text[w]: a word in pieces, of which "," and ":" are two
  Pids,               \* the values of a pid_t
  PidOf,              \* what from_chars reads, for the texts it can read
  Stoul,              \* what std::stoul reads, for the words it can read
  DefaultInterval,    \* the word "1000"
  NsPerMs,            \* 10^6
  RefreshIntervalMs,  \* 10'000
  WordMod             \* 2^64

ASSUME RecordCmdAssumption ==
  /\ DOMAIN Text = Words /\ \A word \in Words : Text[word] \in Seq(STRING)
  /\ \A text \in DOMAIN PidOf : PidOf[text] \in Pids
  /\ Stoul \in [DOMAIN Stoul -> 0 .. WordMod - 1] /\ DefaultInterval \in DOMAIN Stoul
  /\ NsPerMs \in Nat \ {0} /\ RefreshIntervalMs \in Nat /\ WordMod \in Nat \ {0, 1}

VARIABLES
  pc,                  \* see Control
  capable,             \* check_capability: CAP_NET_ADMIN
  match,               \* opts.instance_config.match
  config,              \* opts.instance_config.enable_*
  funcs,               \* opts.*_collect_funcs, each by the name of its plugin
  n_read,              \* how many of metric_names are done
  tick_interval_ms,    \* opts.tick_interval_ms
  n_ticks_to_refresh,  \* Recorder::n_ticks_to_refresh
  interval             \* the argument of periodic_work, in nanoseconds

opts == <<match, config, funcs, n_read, tick_interval_ms, n_ticks_to_refresh, interval>>
cmdVars == <<pc, capable, opts>>

\* "exit0", "exit1": main returned.  "terminated": an exception left main.
Control ==
  {"main", "options", "metrics", "running", "summarizing", "exit0", "exit1", "terminated"}

\* The three registries, and PluginData::ready.
Registered ==
  [system |-> {"example"}, process |-> {"taskstats", "schedstat"}, thread |-> {"taskstats"}]

Ready(plugin) == plugin = "example" \/ (plugin = "taskstats" /\ capable)

Filters == {"p", "pcomm", "pcomm_prefix", "t", "tcomm", "tcomm_prefix"}

CmdInit ==
  /\ Init
  /\ pc = "main"
  /\ capable \in BOOLEAN
  /\ match = [option \in Filters |-> {}]
  /\ config = [enable_process |-> FALSE, enable_thread |-> FALSE]
  /\ funcs = [class \in DOMAIN Registered |-> <<>>]
  /\ n_read = 0
  /\ tick_interval_ms = 0 /\ n_ticks_to_refresh = 1 /\ interval = 0

-----------------------------------------------------------------------------
\* Definitions whose names begin with Bug are plausible mistakes.

\* split_foreach, up to the end of its loop: a delimiter that does not follow
\* another ends a token.
Scan(text, delimiter) ==
  LET state[i \in 0 .. Len(text)] ==
        IF i = 0 THEN [tokens |-> <<>>, last |-> 0]
        ELSE LET before == state[i - 1]
             IN CASE text[i] # delimiter -> before
                  [] text[i] = delimiter /\ i > 1 /\ text[i - 1] = delimiter ->
                       [before EXCEPT !.last = i]
                  [] OTHER ->
                       [tokens |-> Append(before.tokens, SubSeq(text, before.last + 1, i - 1)),
                        last |-> i]
  IN state[Len(text)]

\* The last token is not called back.
BugTokens(text, delimiter) == Scan(text, delimiter).tokens

\* The rest of the text is a token too.
Tokens(text, delimiter) ==
  LET scanned == Scan(text, delimiter)
  IN Append(scanned.tokens, SubSeq(text, scanned.last + 1, Len(text)))

Given(option) == <<"record", option>> \in used

\* Argument::get: m_values.front().
Value(option) == Head(values[<<"record", option>>])

List(option) == Tokens(Text[Value(option)], ",")

Return(exit) == pc' = exit /\ UNCHANGED <<capable, opts>>

\* parse_args, then the end of main: which handler is called.
Dispatch ==
  /\ pc = "main" /\ status # "parsing"
  /\ \/ status = "refused" /\ Return("exit1")
     \/ status = "exited" /\ Return("exit0")
     \/ status = "parsed" /\ parser = "ezcollect" /\ Return("exit1")
     \/ /\ status = "parsed" /\ parser = "summarize"
        /\ Return(IF <<"summarize", "files">> \in used THEN "summarizing" ELSE "exit1")
     \/ /\ status = "parsed" /\ parser = "record"
        /\ Return(IF Given("l") THEN "exit0" ELSE "options")

IntervalWord == IF values[<<"record", "i">>] # <<>> THEN Value("i") ELSE DefaultInterval

\* std::stoul throws, and nothing in main catches it.
BadInterval ==
  /\ pc = "options" /\ IntervalWord \notin DOMAIN Stoul
  /\ Return("terminated")

\* pid_t pid; from_chars leaves it uninitialized if the text is no number.
IdsRead(option) ==
  {{ids[k] : k \in DOMAIN ids} :
     ids \in {ids \in [DOMAIN List(option) -> Pids] :
                \A k \in DOMAIN ids :
                  List(option)[k] \in DOMAIN PidOf => ids[k] = PidOf[List(option)[k]]}}

ReadOptions ==
  /\ pc = "options" /\ IntervalWord \in DOMAIN Stoul
  /\ tick_interval_ms' = Stoul[IntervalWord]
  /\ \E pids \in IF Given("p") THEN IdsRead("p") ELSE {{}},
        tids \in IF Given("t") THEN IdsRead("t") ELSE {{}} :
       match' = [option \in Filters |->
                   CASE option = "p" -> pids
                     [] option = "t" -> tids
                     [] OTHER -> IF Given(option) THEN ToSet(List(option)) ELSE {}]
  /\ pc' = IF Given("e") THEN "metrics" ELSE "exit1"
  /\ UNCHANGED <<capable, config, funcs, n_read, n_ticks_to_refresh, interval>>

MetricNames == values[<<"record", "e">>]

\* class:plugin
Class(word) == Tokens(Text[word], ":")[1]
Plugin(word) == Tokens(Text[word], ":")[2]

Names(word, class, plugin) ==
  /\ Len(Tokens(Text[word], ":")) = 2
  /\ Class(word) = <<class>> /\ Plugin(word) = <<plugin>>

\* A thread metric enables threads only.
BugEnable(class) ==
  [enable_process |-> config.enable_process \/ class = "process",
   enable_thread |-> config.enable_thread \/ class = "thread"]

Enable(class) ==
  [enable_process |-> config.enable_process \/ class \in {"process", "thread"},
   enable_thread |-> config.enable_thread \/ class = "thread"]

SelectMetric ==
  /\ pc = "metrics" /\ n_read < Len(MetricNames)
  /\ \E class \in DOMAIN Registered : \E plugin \in Registered[class] :
       /\ Names(MetricNames[n_read + 1], class, plugin)
       /\ Ready(plugin)
       /\ config' = Enable(class)
       /\ funcs' = [funcs EXCEPT ![class] = Append(@, plugin)]
  /\ n_read' = n_read + 1
  /\ UNCHANGED <<pc, capable, match, tick_interval_ms, n_ticks_to_refresh, interval>>

\* Not of the form class:plugin, not registered, or not ready.
BadMetric ==
  /\ pc = "metrics" /\ n_read < Len(MetricNames)
  /\ ~\E class \in DOMAIN Registered : \E plugin \in Registered[class] :
        Names(MetricNames[n_read + 1], class, plugin) /\ Ready(plugin)
  /\ Return("exit1")

\* An int64_t that holds n modulo 2^64.
Signed(n) == LET w == n % WordMod IN IF 2 * w < WordMod THEN w ELSE w - WordMod

\* No period at all if it is longer than the time between refreshes.
BugTicksToRefresh(ms) == RefreshIntervalMs \div ms

TicksToRefresh(ms) == AtLeastOne(RefreshIntervalMs \div ms)

\* The product in 32 bits, say.
BugNanoseconds(ms) == (Signed(ms) * NsPerMs) % (WordMod \div 4)

\* milliseconds(uint64_t), made nanoseconds by the call of periodic_work.
Nanoseconds(ms) == Signed(Signed(ms) * NsPerMs)

\* Recorder::Recorder and the call of periodic_work.
StartRecording ==
  /\ pc = "metrics" /\ n_read = Len(MetricNames)
  /\ tick_interval_ms' = AtLeastOne(tick_interval_ms)
  /\ n_ticks_to_refresh' = TicksToRefresh(tick_interval_ms')
  /\ interval' = Nanoseconds(tick_interval_ms')
  /\ pc' = "running"
  /\ UNCHANGED <<capable, match, config, funcs, n_read>>

Handle ==
  Dispatch \/ BadInterval \/ ReadOptions \/ SelectMetric \/ BadMetric \/ StartRecording

Done == {"running", "summarizing", "exit0", "exit1", "terminated"}

CmdTerminated == pc \in Done /\ UNCHANGED <<vars, cmdVars>>

CmdNext ==
  \/ Parse /\ UNCHANGED cmdVars
  \/ Handle /\ UNCHANGED vars
  \/ CmdTerminated

CmdSpec == CmdInit /\ [][CmdNext]_<<vars, cmdVars>>

-----------------------------------------------------------------------------
Counts ==
  [system |-> Len(funcs.system), process |-> Len(funcs.process), thread |-> Len(funcs.thread)]

\* The types.  A recorder divides by n_ticks_to_refresh.
CmdTypeOK ==
  /\ pc \in Control /\ capable \in BOOLEAN
  /\ DOMAIN match = Filters /\ match["p"] \subseteq Pids /\ match["t"] \subseteq Pids
  /\ config \in [enable_process : BOOLEAN, enable_thread : BOOLEAN]
  /\ DOMAIN funcs = DOMAIN Registered
  /\ \A class \in DOMAIN Registered : funcs[class] \in Seq(Registered[class])
  /\ n_read \in Nat
  /\ tick_interval_ms \in 0 .. WordMod - 1
  /\ n_ticks_to_refresh \in Nat \ {0}
  /\ interval \in Int

\* A recorder runs with what Recorder relies on, with as many callbacks as -e
\* names metrics, and with no plugin that is not ready: a bad metric among good
\* ones is never left out in silence.
SelectsAsAsked ==
  pc = "running" =>
    /\ Selected(Counts, config)
    /\ Counts.system + Counts.process + Counts.thread = Len(MetricNames)
    /\ \A class \in DOMAIN Registered : \A k \in DOMAIN funcs[class] : Ready(funcs[class][k])

\* The names of a list: its longest pieces without a delimiter.
Listed(text, delimiter) ==
  LET Piece(i, j) ==
        /\ i <= j /\ \A k \in i..j : text[k] # delimiter
        /\ i > 1 => text[i - 1] = delimiter
        /\ j < Len(text) => text[j + 1] = delimiter
  IN UNION {{SubSeq(text, i, j) : j \in {j \in DOMAIN text : Piece(i, j)}} : i \in DOMAIN text}

\* Nothing before the first delimiter or after the last.
Stray(text, delimiter) ==
  text = <<>> \/ text[1] = delimiter \/ text[Len(text)] = delimiter

NamesAsGiven(option) ==
  LET text == Text[Value(option)]
  IN match[option] = Listed(text, ",") \cup {name \in {<<>>} : Stray(text, ",")}

IdsAsGiven(option) ==
  LET text == Text[Value(option)]
      ids == {PidOf[name] : name \in Listed(text, ",") \cap DOMAIN PidOf}
  IN /\ ids \subseteq match[option]
     /\ Listed(text, ",") \subseteq DOMAIN PidOf /\ ~Stray(text, ",") => match[option] = ids

\* The callbacks of a class have each a metric, the metrics of the class have
\* each a callback, and both stand in the same order.
MetricsAsGiven(class) ==
  LET named == {k \in DOMAIN MetricNames : Class(MetricNames[k]) = <<class>>}
  IN \E place \in [DOMAIN funcs[class] -> named] :
       /\ named \subseteq Range(place)
       /\ \A j, k \in DOMAIN place : j < k => place[j] < place[k]
       /\ \A k \in DOMAIN place : Plugin(MetricNames[place[k]]) = <<funcs[class][k]>>

\* A filter holds the names of its option's list, and an option not given
\* leaves it empty.  A comma at either end of the list adds the empty name,
\* which as a prefix every comm begins with.  A filter on ids holds the ids
\* listed and, if each entry is an id, nothing else.  Each class has the
\* callbacks of its own metrics, in the order they were named.
OptionsAsGiven ==
  /\ pc \in {"metrics", "running"} =>
       \A option \in Filters :
         IF ~Given(option) THEN match[option] = {}
         ELSE IF option \in {"p", "t"} THEN IdsAsGiven(option) ELSE NamesAsGiven(option)
  /\ pc = "running" => \A class \in DOMAIN Registered : MetricsAsGiven(class)

\* An interval that fits reaches periodic_work as it is, and the refresh period
\* is RefreshIntervalMs rounded down to whole ticks: the map is refreshed not less
\* often than once in RefreshIntervalMs, unless a single tick is longer than that,
\* and less than one tick early.
PeriodAsAsked ==
  pc = "running" /\ 2 * tick_interval_ms * NsPerMs < WordMod =>
    /\ interval = tick_interval_ms * NsPerMs /\ interval > 0
    /\ n_ticks_to_refresh * tick_interval_ms <= RefreshIntervalMs \/ n_ticks_to_refresh = 1
    /\ (n_ticks_to_refresh + 1) * tick_interval_ms > RefreshIntervalMs

\* What the option's help says, "filter by pid": every pid of the filter is
\* one that -p names.
PidsNamed ==
  pc = "running" /\ Given("p") =>
    match["p"] \subseteq {PidOf[name] : name \in Listed(Text[Value("p")], ",") \cap DOMAIN PidOf}

\* What the option's help says, "tick interval(ms)": ticks are as far apart as
\* -i asks, or a millisecond if that is 0.
IntervalAsGiven ==
  pc = "running" => interval = AtLeastOne(Stoul[IntervalWord]) * NsPerMs
=============================================================================
