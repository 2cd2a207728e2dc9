# ezcollect in TLA+

ezcollect samples statistics of the processes and threads of a Linux machine
(`ezcollect record`) and computes quantiles from the files it wrote
(`ezcollect summarize`). This directory holds TLA+ models of the program,
translated from `src/src` and the part of `src/third/argparse.h` it uses, the TLC
configurations that check them on small instances, and proofs for the TLA+ proof
system, TLAPS.

Everything is run from this directory: `tlc -config MCRecorder.cfg MCRecorder`
checks a model, `tlapm RecorderProofs.tla` checks the proofs about it.
`PROJECT.json` lists the runs, the source lines behind every definition, the
hazards and the theorems.

## 1. Inventory

| part | code | state | operations |
|---|---|---|---|
| record loop | `record.cc`, `record.h` | tick counter, refresh period, shutdown flag | `run`, `periodic_work`, `tick` |
| instance map | `instance_manager.cc` | `process_map` (pid -> comm, tid -> comm), the filters, the sample buffer | `refresh`, `for_each_*`, `report`, `clear` |
| /proc readers | `procfs.cc` | none; one open file at a time | `get_all_pids`, `tids_of_pid`, `get_pcomm`, `get_tcomm`, `cat_str` |
| taskstats client | `plugin/nl_task_stats.cc` | one netlink socket for `query`, one for `query_tgid`, made on first use; the family id | constructor, `send_cmd`, `recv_msg`, `query`, `query_tgid` |
| plugins | `plugin/taskstats.cc`, `schedstat.cc`, `example.cc`, `plugin.cc` | the registry of metrics, filled before `main` | one callback per metric |
| command-line parser | `third/argparse.h` (vendored) | which arguments are used, and their values | `parse_args` over the three parsers that `main` declares |
| record command | `ezcollect.cc` | the options | reading the values, selecting metrics, error exits, signal handlers |
| output stream | `report`, `setup_clean_up` | what is printed and what of it is in the file | print, flush at exit |
| summarize | `summarize.cc`, `utils.h` | the series of each metric and instance | parse, group, differences, quantiles |

How they interact. `main` declares a parser with two subparsers, hands it the
command line, and calls the handler of the subcommand. `handle_record_cmd` makes
the values into options - filters, the walks of the map to do, the callbacks of
the metrics named, an interval - with which it constructs and runs a `Recorder`.
From there the program has one thread. `periodic_work` calls `tick`,
sleeps to the next point of a grid, and looks at a flag that the handlers of
SIGINT and SIGTERM set. `tick` refreshes the map of instances every
`n_ticks_to_refresh` ticks, passes each instance of the map to each selected
callback, prints what the callbacks put in the buffer (looking each name up in
the map again) and clears the buffer. A callback asks the kernel about one task
through a netlink socket. The other actor is the kernel: its task table changes
between any two system calls of the program. `summarize` is another process,
which reads the files of recordings that have ended, died or still run.

What is hard:

- *Interleaving.* `refresh` takes no snapshot. It lists `/proc`, opens and
  reads one comm file at a time, lists `/proc/<pid>/task`, and so on, while
  tasks start, rename themselves, exit, and have their ids reused.
- *Partial failure.* An exited task gives an empty comm if the file can no
  longer be opened, an exception that ends the program if it was already open,
  and a failed query - without a sample - when a callback asks for it.
- *Staleness.* Between refreshes the map is old, and an id in it may by now be
  another task's.
- *Ordering.* Netlink requests carry no sequence number; the answer is whatever
  is next on the socket.
- *Timing.* Ticks overrun, wake-ups are late.
- *Order of words.* An option takes words until the next option, a number may
  begin with the character of an option, letters may be written together, a
  subcommand changes the parser; the loop is one `for` without an increment.
- *Conversions.* `from_chars` may set nothing, `stoul` accepts `-1`, and
  milliseconds become nanoseconds in 63 bits.
- *Words for fields.* `summarize` finds the fields of a line by counting words. A
  comm of two or three words shifts them, which may put the samples of many
  threads of one moment into one series, and the derivatives are divided by the
  time between neighbours.
- *Signals* arrive in the middle of anything; exceptions end the program.

What makes each part correct:

- command-line parser: it answers every line; what it accepts, and which word is
  whose value, follow from the words around each word, in any order of options.
- record command: what runs is what was asked for - each metric named, ready,
  with the walk it needs; the filters named; ticks as far apart as `-i` says - or
  the command stops with an error.
- instance map: a refresh invents nothing and misses nothing that stayed put;
  it ends; it throws for one reason only.
- record loop: what is reported is in the map, the map is bounded in age,
  samples belong to the tick they are printed in, no instance that lives is
  skipped, a signal costs no sample and stops the program, and the map converges
  to a task table that settles.
- tick timing: a tick in no slot of the grid that the tick before it reached, and
  never ahead of the grid.
- taskstats client: a query is answered for the task asked about, as if
  decided at one moment, or the program ends; it never blocks.
- summarize: indexes in range, each quantile the share of the series that its
  name says, derivatives of neighbours, divided by zero only where neighbours have
  one timestamp, and a statement of when they cannot; each sample in the series of
  its instance, in order, and a bound on what a torn or irregular line can spoil.

The full list of hazards, with their lines and the properties that would catch
them, is in `PROJECT.json`.

## 2. The modules

```
Options              the command line that main declares
  ArgParser          the parser's loop                    MCArgParser
    RecordCmd        from a parsed line to a Recorder     MCRecordCmd
DecimalLiteral       what the parser takes for a number
RecordOptions        what RecordCmd computes and Recorder relies on
ProcTable            the kernel's task table (external)
  InstanceManager    refresh and the /proc readers, step by step
    RefreshWindow    what one refresh promises            MCRefreshWindow
    Recorder         the tick loop on top of it           MCRecorder
PeriodicWork         the time of the tick loop
TaskQuery            the query as its callers see it (abstract)
  NetlinkTaskstats   the two sockets; implements TaskQuery
Journal              the file a recording writes
  Summarize          its reader: lines, words, series     MCSummarize
Quantiles            the statistics of one series         MCQuantiles

ManagerProofs        lemmas about InstanceManager
  RefreshProofs      theorems about RefreshWindow
  RecorderProofs     theorems about Recorder
PeriodicWorkProofs   theorems about PeriodicWork
NetlinkProofs        theorems about NetlinkTaskstats, and the refinement
QuantilesProofs      theorems about Quantiles
RecordCmdProofs      theorems about ArgParser, DecimalLiteral and RecordCmd
SummarizeProofs      theorems about Summarize
```

**Options and ArgParser.** `Options` evaluates the declarations of `main` with the
argument class: each is a record of what the chained calls leave in it, in the
order of the calls, which counts (`-i` has a default value and then `nargs(1)`,
so its range is 1 and not 0..1). `ArgParser` runs `parse_args` on a line: one
action for each branch of the loop of `parse_args_internal`, and one step per
letter of a word like `-gp`. `rest` is the line from the iterator on, `Consume`
is `Argument::consume` with its ways out. A word is never taken apart: what the
parser sees in its characters - whether it is positional, its letters, its
halves around `=` - are constants, of which `DecimalLiteral` derives the first.
`Result` and `ValuesOf` state the language without a loop, of `Plain` lines: a
word's fate follows from the run of positional words after it and the options
before it, in the line as `WrittenOut`. Written down, that language has corners:
an option with a default value may lack its word at the end of the line and
nowhere else; `-1` is a value and `-x` an unknown option; `--name=value` is split
by each parser that knows the name, so twice or not at all around a subcommand;
its second half may itself be letters (`record --list=-gp a` is
`record --list -g -p a`); `files` begins at the first positional word and then
takes options too. Lines that are not `Plain` - a letter of `-xyz` that is a
digit or, before the last, an option with values; `--help=value`, or another name
that `summarize` has too - run through the same actions and `LineTypeCorrect`
holds of them; the language is not stated for them.

**DecimalLiteral.** The scanner behind `is_positional`, one action per label of
its `goto`s, one character per kind it tells apart. `FollowsGrammar` is the
grammar in the comment above it.

**RecordCmd** composes `ArgParser` with `main`: after the parser has answered,
`Dispatch` goes to the handler or an exit, `ReadOptions` reads the filters and
the interval, `SelectMetric` and `BadMetric` are the loop over `-e`,
`StartRecording` the constructor of `Recorder` and the call of `periodic_work`.
Here a word is a sequence of pieces, so that `Scan` and `Tokens` can be
`split_foreach` as it is written, against `Listed`, what a list between commas
is. A `pid_t` that `from_chars` does not set is any value (`IdsRead`). `capable`
is what the plugin constructors found before `main`. What a running command
guarantees to the record loop is `Selected`, in **RecordOptions**, with which
`Recorder` starts.

**ProcTable.** `task[i]` is the task that has the id `i`, with its thread group
and its comm, or `NoTask`. Processes and threads share one space of ids, as on
Linux, so an id given back may become a process or a thread of another process.
A step is a fork, a clone, a rename (`execve`, `prctl`), the exit of a thread or
of a thread group. `MaxChanges` bounds the number of steps; `Endless` lifts the
bound, for the one property that is about a kernel that never comes to rest. It is
external: it is what `procfs.cc` reads.

**InstanceManager.** One action per system call of `refresh` that can meet
another state of the table: `Refresh` (the call, with the listing of `/proc`),
`OpenComm`, `OpenFails`, `ReadComm`, `ReadFails`, `EndPids`, `ListTids`,
`EndTids`, `Install`. `phase` is the loop it is in, `found` the ids listed and
not yet read, `rest` the keys of the new map whose threads are not yet listed,
`fd` the open comm file. A file belongs to a task and not to its id: when the
task exits, `fd` becomes `Gone`, and the read throws (`read` fails with ESRCH,
`istreambuf_iterator` passes the exception of the stream buffer on, nobody
catches it). A directory listing is one step; `readdir` returns an id at one
moment of the listing, and the properties tell an id that was there at one
moment of the refresh from one that was not, never which moment it was. Names
are model values; what the code does with them - membership in a set, "starts
with one of these" - is `PidWanted` and `TidWanted`, over a relation `PrefixOf`.
The order in which the loops visit ids is free; `std::set` visits them in
ascending order, which is one of these orders, and the order of the
`unordered_map` is unspecified.

**RefreshWindow** runs `refresh` again and again, with two history variables.
`seen` is everything each id has been since the refresh began; `lost` is the ids
that a listing returned, whose comm is still to be read, and whose task has exited
in between. A refresh without a snapshot cannot promise that its map was ever true
at one moment; `MapSound` and `MapComplete` state what it can, of `seen`, and
`AbortOnlyOnExit` what an exception means, of `lost`: a fork, a clone, a rename, or
an exit of a task that was not listed or had been read, never ends the recording.

**Recorder.** `tick` and `run` over the same `InstanceManager`. A query is one
step here; `NetlinkTaskstats` implementing `TaskQuery` is the reason why that is
right. A sample is the callback's index and the instance; its value plays no
part in what is checked. `age` counts ticks since the installed map was
refreshed, `gone` remembers ids that were free at some moment of the tick, and
`unprinted` holds the samples that callbacks have put in the buffer and `report`
has not printed; the three are history. `report` and `clear` are one step, which
prints what the buffer holds and then empties it: `NothingLeftBehind` is about
both. `CounterMod` stands for 2^64, which no recording reaches; in a run it keeps
the states finite.

**PeriodicWork.** The same loop with time. The clock advances by any amount
between any two steps: in the tick, between the computation of the sleep and the
sleep, and past the end of the sleep. `reached` is how far the last tick has
come: the time at which it read the clock, and then the time at which it returned.
What the grid means for the refreshes follows from `NeverAhead` with care:
`n_ticks_to_refresh` is rounded down (`record.cc:10`), so that with `-i 3000` the
map is refreshed every 9 seconds and not every 10. It assumes a positive interval in
nanoseconds that fits 63 bits. `RecordCmd` shows for which values of `-i` it gets
one (`PeriodAsAsked`) and that it does not for the others (the run
`huge_interval`).

**NetlinkTaskstats.** The static objects of `query` and `query_tgid` are
constructed on first use (`CreateSocket`, `SetFlags`, `SendFamily`,
`RecvFamily`), each of which may throw and so end the program, then `Send` and
`Recv`. The kernel answers the requests of a socket in order at any later time
or loses an answer. That is more than Linux does (its generic netlink answers
within `sendto`), so a property that holds here does not depend on it. `tid` is
the request under way; `result` keeps the id the reply is about, which the code
never looks at, to state that it is the right one.

**Quantiles.** What `Summarize::run` does with one series, in the steps
`Compute`, which dispatches on the type of the series and leaves the zeroes where
nothing is computed, `SortRates` for a derivative, `Order`, `Pick`. A value is a
fraction, so that a derivative keeps its exact value and comparisons are products
of integers. A denominator may be zero: then it is what a division of doubles by
zero gives, an infinity of the numerator's sign, or NaN. Nothing is assumed of the
timestamps, because the program does not rule out that neighbours share one: `-e`
keeps a metric named twice, and with a process comm of three words all threads of
the process fall into one series. `TypeOK` says that such neighbours are the only
cause of a division by zero; `Less` is the order of doubles, infinities included,
and `Ordered`, `Extremes` and `IsQuantile` hold of it unless a value is NaN
(`Comparable`), in which case the call of `std::sort` is undefined and `Sort` may
leave any order. The timestamps are subtracted modulo `TsMod`, which stands for
2^64. `std::sort` is some permutation that ascends. The share of an index is
in thousandths: for the nine factors in the code and every number of samples a
vector can have in practice, the truncated product in a double is the truncated
exact product (each factor is off by less than half a unit in the last place, so
a product that should be an integer is rounded to it or above it). The input need
not be in the order of time, and the properties that do not need that do not ask
for it.

**Journal and Summarize.** `Journal` is the output of a recording: `Report`
prints the lines of a tick, `Flush` is any write of stdio's buffer, which ends
anywhere in a line, `Exit` flushes the rest, `Terminate` loses it. `Summarize`
adds the process that reads an older file and then this one, line by line, at
any moment of the recording. A line is a sequence of words, so that what goes
wrong in `parse_one_file` can: it counts words, while a comm may be several
words, one that is a number, or none, and a line may be cut in a word, after a
word or after a space (`WordsUpTo`, where the last two differ: `split_foreach`
ends with one more, empty word). An index past the words is `undefined` and ends
the model; a value that `from_chars` does not set may be anything. `Regular`
lines - from a recording, with names of one word, read to their end - have the
full guarantee: `Grouped` says that their samples reach the series of their
instance, in order, whatever irregular lines stand between them, and that without
irregular lines there is nothing else. `UndefinedOnlyIf` says which lines the
parser does not survive: those cut off and those with an empty comm.
`NeighboursDiffer` says for which recordings `compute_derive` cannot divide by
zero: all lines regular, and no metric named twice (`NamedOnce`: no two lines of one
tick are about one metric of one instance). The recordings need be neither;
`SummarizeAssumption` says only that their lines are as `report` prints them, that
the two files are of different times and that a file may end anywhere. `EndToEnd`
relates the samples printed to the series read after a normal end.

Definitions whose names begin with `Bug` are not the program. Each is what the
definition after it would be with one plausible mistake, and shows that a
property can fail:

| mistake | in place of | breaks |
|---|---|---|
| `BugOpenFailsError` an open error is recorded as it is | `OpenFails` | `TypeOK` |
| `BugRefreshAdds` the new map starts as the old one | `Refresh` | `MapSound`, `ViewConverges` |
| `BugEndPidsAtMatch` `break` for `continue` | `EndPids` | `MapComplete` |
| `BugReadCommEmptyThrows` an empty comm is an error | `ReadComm` | `AbortOnlyOnExit` |
| `BugEndPidsRelists` the listing is taken again while a process of it is gone | `EndPids` | `RefreshEnds` |
| `BugReportWide` another counter width | `Report` | `TypeOK` |
| `BugReportKeeps` `clear` is forgotten | `Report` | `LookupsHit` |
| `BugNeedsRefreshLate` period off by one | `NeedsRefresh` | `StalenessBound` |
| `BugReportCleared` `clear` comes before `report` | `Report` | `NothingLeftBehind` |
| `BugCollectProcessBreaks` a failed query ends the walk | `CollectProcess` | `SampleComplete` |
| `BugGoesOn` the flag is not looked at | `GoesOn` | `ShutdownStops` |
| `BugToSlotAfterNext`, `BugToNextSlot` a wrong sleep | `ToNextSlot` | `TypeOK`; `NeverAhead`, `OneTickPerSlot` |
| `BugFamilyNotReceived` the constructor does not take its reply | `SendFamily` | `TypeOK` |
| `BugRecvPeeks` the reply stays on the socket | `Recv` | `QuietWhenIdle` |
| `BugRecvGivesUp` no reply is "false" and no exception | `Recv` | `AnswerIsForTheQuery`, `Refines` |
| `BugFlagsNotSet` the socket stays blocking | `SetFlags` | `QueryEnds` |
| `BugSignedRates` the difference of timestamps is signed | `Rates` | `TypeOK` |
| `BugRates` the derivatives overwrite the series from the front | `Rates` | `MeanInBetween` |
| `BugComputeDerive` the test for short series lets one sample pass | `ComputeDerive` | `InRange` |
| `BugOrder` the values are not sorted | `Order` | `Extremes` |
| `BugIndex` the same indexes for both orders | `Index` | `Ordered` |
| `BugIndexOfLast` shares of the last index, not of the number of values | `Index` | `IsQuantile` |
| `BugValues` the word is taken as a value unparsed | `Values` | `TypeOK` |
| `BugStore` a new sample replaces the series | `Store` | `Grouped` |
| `BugValueIndex` the value of a process one word too far | `ValueIndex` | `UndefinedOnlyIf` |
| `BugInstanceName` a thread without its tid | `InstanceName` | `NeighboursDiffer` |
| `BugExit` no flush at exit | `Exit` | `EndToEnd` |
| `BugTaken` no bound on the words taken | `Taken` | `TypeOK` |
| `BugTooFew` an option with a default never lacks words | `TooFew` | `AsTheGrammar` |
| `BugOffered` the next option is taken for a value | `Offered` | `ValuesBelong` |
| `BugRefuseExcess` the word is skipped, the iterator stays | `RefuseExcess` | `ParsingEnds` |
| `BugPostE` no digits needed after the exponent | `PostE` | `FollowsGrammar` |
| `BugTicksToRefresh` the division without the maximum | `TicksToRefresh` | `CmdTypeOK` |
| `BugEnable` a thread metric enables threads only | `Enable` | `SelectsAsAsked` |
| `BugTokens` the last token is not called back | `Tokens` | `OptionsAsGiven` |
| `BugNanoseconds` the product in fewer bits | `Nanoseconds` | `PeriodAsAsked` |

## 3. The runs

| run | what it asks | bounds |
|---|---|---|
| `refresh_window` | `MapSound`, `MapComplete`, `AbortOnlyOnExit` | 3 ids, 2 comms, 3 filter settings, 2 kernel steps; 2.2 million states |
| `refresh_live` | `RefreshEnds` | 2 ids, 1 comm, the same filters, any number of kernel steps |
| `recorder` | `LookupsHit`, `StalenessBound`, `NothingLeftBehind`, `SampleComplete`, `ShutdownStops`, `ViewConverges` | 2 ids, 4 filter settings, 3 choices of callbacks, period 3, counter modulo 4, 2 kernel steps |
| `periodic_work` | `NeverAhead`, `OneTickPerSlot` | interval 3, clock to 14 |
| `netlink` | `QuietWhenIdle`, `AnswerIsForTheQuery`, `QueryEnds`, `Refines` | 2 ids, both functions, 3 queries, 2 changes of the table |
| `quantiles` | `InRange`, `Ordered`, `Extremes`, `IsQuantile`, `MeanInBetween` | every series of at most 4 values out of 0..3 on 6 clocks, two of them out of order and two with neighbours of one time; 999, 1000 and 1001 samples in either order |
| `summarize` | `Grouped`, `UndefinedOnlyIf`, `NeighboursDiffer`, `EndToEnd` | 2 ticks of 3 possible batches, one with a metric named twice, after 4 older recordings, one of them cut off; every cut of every line |
| `command_line` | `AsTheGrammar`, `ValuesBelong`, `ParsingEnds` | every line of at most 4 out of 13 words after `record`, 3 out of 6 after `summarize`, 3 out of 8 without a subcommand in front |
| `decimal_literal` | `FollowsGrammar` | every word of at most 6 characters of the 7 kinds the scanner tells apart |
| `record_cmd` | `SelectsAsAsked`, `OptionsAsGiven`, `PeriodAsAsked` | with and without the capability: each list of ids with each list of names, 9 intervals with every choice of up to two of 6 metrics, the lines that end in `main`; 2^64 is 256 |
| `stray_comma` | that `-p` selects pids it names: violated | the same |
| `huge_interval` | that the interval is the one `-i` names: violated | the same |

The last two fail. `stray_comma`: `-p 1,` makes the empty word behind the comma a
token, `from_chars` sets nothing, and what is in the uninitialized `pid_t` goes
into the filter (`ezcollect.cc:40`), although the help says "filter by pid".
`huge_interval`: from 2^63/10^6 milliseconds on - `stoul` reads `-1` as 2^64-1 -
the nanoseconds wrap (`record.cc:11`), so that the interval is another one than
was asked for, negative, or zero, by which `periodic_work` then divides. Each is a
finding in `PROJECT.json`.

Why these are enough to be interesting:

- Two kernel steps are what the hardest cases of a refresh need: an exit and the
  reuse of the id, an exit of the process and a fork under a thread's id, a
  rename and an exit. They may all fall into one refresh, or into two. The
  initial table is any consistent one, so nothing is spent on setting it up.
- Three ids give a process with two threads beside another process. `Recorder`
  has two, since its properties relate one instance to the others.
- The period is 3 ticks, from 3000 and 10000 ms, so that the division rounds.
  The counter's modulus (4) is no multiple of it, as 2^64 is not.
- `RefreshEnds` has a kernel without a bound: tasks fork, exit and are renamed for
  ever, in the middle of every loop of `refresh`. A `refresh` that listed the
  processes again until none of them is gone would not end, which is the mutant.
- Three queries over two sockets: one that leaves something behind, one on the
  other socket, and one that would find it. `MaxCalls`, `MaxChanges` and
  `MaxClock` are, with `CounterMod`, the only bounds on behaviours.
- Four values make every pattern of equal, rising and falling neighbours, and
  derivatives that are ascending, descending and neither, infinite and NaN. A series of about a
  thousand is what gives p0.1 and p999 an index of their own; there the two
  tables of indexes differ from min and max and from each other. The theorems
  cover all lengths.
- The batches of `summarize` have two threads that differ in nothing but their
  ids, two processes with the same id in turn, comms of no, one and two words,
  a word of a comm that reads as a value, and two lines of one tick about one
  metric of one process. Two ticks and an older file give
  series with neighbours from one file and from two.
- Three or four words after a subcommand give every option a value, no value, the
  next option's name in the place of a value, and a second occurrence; `-gp` and
  `-pg` put the letter that takes a value last and first, `--pcomm=a` is split
  before and behind a subcommand, the halves of `--list=-gp` and `--pcomm=-l` are
  options, `-1` is a value that looks like an option. Six
  characters are the shortest word with every part of the grammar - sign, digit,
  point, `e`, sign, digit. `MaxLength` is a bound on inputs only.
- `record_cmd` has a comma in every place of a list, the entry that is no number,
  metrics that are not registered, not ready, ready only with the capability,
  without a colon and with one too many; intervals of zero, below and above the
  refresh period, the largest that fits (10), the first that does not (11), one
  that becomes zero (64 * 12 is a multiple of 256) and `-1`.
- `periodic_work` and only it stops at its bound, so only its configuration
  switches the deadlock check off. Elsewhere termination is an explicit
  stuttering step (`Terminated`), and a deadlock would be an error.

Fairness is weak fairness of the program's own steps: `WF_vars(ContinueRefresh)`,
`WF_vars(Run)`, `WF_vars(Query)`, `WF_vars(Parse)`. It stands for a scheduler that runs the one
thread, system calls that return and a `sleep_for` that ends (its argument is at
most one period). Signals and the kernel's steps have no fairness. For
`ViewConverges` this means: *if* the table settles - the bound on kernel steps
makes it - and no exception or signal ends the program, the map comes to agree
with the table.

## 4. The proofs

What TLC finds on two or three ids, TLAPS proves for every value of the
constants, from the named assumptions of the modules and from nothing else.

- **PeriodicWorkProofs.** The invariant adds `Due` to the types: the number of
  ticks is at most the slot in which the next one may begin, and that slot comes
  after the one the last tick has reached. The lemma it rests on is `DivNext`: adding
  `d - (a % d)` to `a` makes `a \div d` one more.
- **NetlinkProofs.** The invariant: at any moment at most the query under way
  has a message, on its own socket, in one place - as a request, or as a reply,
  or nowhere (lost) - and an object without flags or family is one that is being
  constructed. `QuietWhenIdle` and `AnswerIsForTheQuery` follow. `Implements`
  shows each step to be a step of `TaskQuery` or a stutter; the kernel's reply to
  the query is `Look`, the moment of decision.
- **ManagerProofs.** The part of the invariant that belongs to the manager:
  types, an open file that belongs to a living task or is `Gone`, and that the
  steps of `refresh` and of the kernel preserve them. `Recorder` and
  `RefreshWindow` use the same lemmas.
- **RecorderProofs.** The properties are not inductive by themselves. `Clean`
  says what the buffer cannot hold yet at each stage of a tick, `Unprinted` that it
  holds all that is not printed (so that printing it leaves nothing), `Walking` that
  the instances still to be asked are instances of the installed map, `Watched`
  that an id free at any moment of the tick is remembered, `Complete` that each
  instance *already asked* and alive has its sample (`SampleComplete` is its last
  moment), `Aging` that the age of the map is at most
  `tick_counter % n_ticks_to_refresh`. (Where a counter wraps, in no
  recording but in the model, that remainder drops to 0, which is a refresh.)
- **RefreshProofs.** `MapSound` and `MapComplete` speak of the installed map; the
  invariant speaks of the one that is being made. `Watching` says that `seen`
  contains what each id is at this moment, `Thrown` that there is an id in `lost`
  if the open file is `Gone`, `Listed` that ids waiting to be read were there when they were listed, `NewSound` that whatever
  is in the new map was seen, and `Covered` says, loop by loop, where a wanted id
  that stayed what it was can be: still to be read, or in the new map.
- **QuantilesProofs.** The invariant: the values are a permutation of the values
  of the series (`Permuted`) and lie in the order that `descending` says
  (`InOrder`). `std::is_sorted` compares neighbours; that any two values are in
  order (`Chain`) needs the transitivity of the order of doubles, which holds of
  fractions and infinities together and fails of NaN (`LeqTransitive`). `Ordered`
  and `Extremes` follow from that and the monotony of the indexes.
  `IsQuantile` is counting: the values below the one picked sit before it - after
  it, in descending order - so the permutation maps them one to one into an
  interval (`CountAtMost`), and those up to it fill one (`CountAtLeast`);
  `ShareInRange` bounds that interval by the share. The difference of two
  timestamps modulo 2^64 is positive if they differ (`WrappedDifference`), which is
  all that `TypeOK` needs: where they do not, a rate is a double and no fraction.
  `MeanInBetween` is a sum: a derivative times its time step is the difference of
  two neighbours, those differences telescope to last minus first (`TwoSteps`,
  `Telescope`), and each is at least the smallest and at most the largest
  derivative times its step. `Induction` carries it over the length.

- **RecordCmdProofs** has three parts, and under them two lemmas. `Induction` is
  induction on numbers in the form "a set that has 0 and with each number the
  next", which follows from the well-foundedness of `<`. `Recursion` says that a
  recursive function on an interval exists, so that its definition may be
  unfolded: the loop of `split_foreach` and the `FlattenSeq` of the community
  modules are such functions.
  - *The scanner.* `FollowsGrammar` is about the whole word, the scanner about
    what is left of it. `Wanted` says, label by label, what the rest must be for
    the word to be a number; `ScannerInv` is that the word is one exactly if
    `Wanted` holds. The lemmas `SplitsAfterInteger` and `SplitsExponent` turn the
    grammar's "there is a place where it splits" into the scanner's next character.
  - *The parser.* `LineTypeCorrect` is the types, with the ranges of values.
    `HasValue` adds that every argument that needs a word and has no default
    (`-e`, `-p`, `--pcomm`, ...) has one whenever it is used, which every way
    through `consume` keeps. `AsTheGrammar` and `ValuesBelong` compare a loop that
    sees one word at a time with the whole line. The invariant (`Answer`) gives
    the loop a place k in the line as written out. `Out` is what a parser will
    make of the words it has not read, and `Midway` says that the letters and
    words that are left come out as the line from k + 1 on; that the parser is
    the one the line names (`Placed`); that none of the first k words is wrong,
    and no option among them could take a word behind k (`Judged`); that what is
    used, and the values, are those of the options among them (`Kept`, `Filed`).
    Every action then either moves k past the words it consumes, or stops at
    k + 1 for the reason that `Bad` gives (`StepOption`, `StepExcess`, ...). The
    lemma for the hardest of them is `OptionTakes`: how many words an option takes
    from what is left, unsplit, is how many it takes from the line as written out
    (`TakenIs`, `LeadOut`). What `WrittenOut` makes of a line is followed word by
    word (`FlatCons`, `OutIs`) with `SequenceInduction`. That each parser writes
    out its own part of the line matters: written out as a whole, once, with the
    letters first, `record --list=-gp a` would come out as something else than
    the code makes of it, and `Midway` would not be kept.
  - *The command.* The invariant relates two programs that run one after the
    other. Of the loop over the metrics it says that the flags are set exactly if
    there are callbacks that need them, and that there are as many callbacks as
    metrics read (`Selecting`). For `OptionsAsGiven`, `Scanned` is the invariant
    of `split_foreach`: after n characters the tokens are the pieces that ended
    (`Found`), and `last` is one behind the last delimiter (`TokensAre`). `Reading`
    says that the filters are those pieces, and that the callbacks of a class are
    the metrics of that class read so far, each at its own place, in order
    (`Places`). `PeriodAsAsked` is arithmetic: a number below 2^63 is its own
    signed value (`SignedFits`), and a quotient lies between its neighbours
    (`Quotient`, `TicksFill`).
- **SummarizeProofs.** For recordings of any length, cut anywhere. `Printed`: what
  is in the file was printed in one of the ticks so far. `Inside` and `Origin`: each line read has a place of its own in one
  of the files, before the place of the next. So if no
  metric was named twice (`Once`), no line can come that has the time *and* the
  metric and names of one read before (`Untimely`). `Dated`: if so, and while all
  lines are regular, an entry of a series is of a line whose key is the name of the
  series, and a key determines what its lines
  are about (`KeyDetermines`, for which names of
  one word are needed); hence no two entries of a series have one time, which is
  `NeighboursDiffer`. `UndefinedOnlyIf` follows from the number of words of a line
  (`WordsType`, `WholeLineInRange`). `Grouped` is inductive on top of that: a regular line adds one entry to its
  own series and to its own arrangement of the lines read, and to no other
  (`ArrangeOneMore`, `ArrangeSame`); an irregular one may add to the end of any
  series, and the others keep their places. For `EndToEnd`,
  `SamplesInv` adds that a normal exit leaves every printed line in the file
  (`Exited`) and that the lines read of the second file are its first ones, in
  order (`Followed`).

The assumptions are those of the modules, and each is evaluated by a run: the
constants have the types that the code gives them, names and model values are
distinct, the recordings are what `report` can have printed (a value printed is
one that reads as a number).

Only model-checked is liveness (`RefreshEnds`, `ShutdownStops`, `ViewConverges`,
`QueryEnds`, `ParsingEnds`), which is out of this prover's reach. Every invariant
and every action property that a run checks is also a theorem, except the two
that the code violates.

## 5. Not modelled

- `summarize`: the average (a sum in a `float`) and printing; a `float` has no
  counterpart in TLC. What `split_as_view` makes of a line is modelled by its
  result (`WordsUpTo`), not character by character; `split_foreach`, which it
  shares with the options, is `Tokens`. The files of `Summarize` come from runs at
  different times, each named once on the command line. With a NaN among the
  derivatives `std::sort` may do anything, a read outside the vector included; the
  model leaves the values in any order.
- The parser: choices, mutually exclusive groups, hidden and required arguments,
  `parse_known_args`, other prefix characters and assignment characters, which the
  program does not use; the texts of usage and help.
- `schedstat`'s callback: it declares itself not ready (`schedstat.cc:41`), and
  `RecordCmd` shows that a command that names it is refused. The listing of
  metrics by `-l`.
- `pgrep`, `tgrep` and `cat_vec`, which nothing calls.
- Logging, the environment, build and packaging: no state of the program.

`Recorder` is not stated as an implementation of `RefreshWindow`. Both are built
from the actions of `InstanceManager` and proved with the same lemmas, so the
refinement would say again what `MapSound` and `MapComplete` say; it would have to
carry `seen` as history through a tick.
