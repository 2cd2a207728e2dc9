------------------------------ MODULE Summarize ------------------------------
(***************************************************************************)
(* summarize reads an older recording and then one that may still run:     *)
(* Summarize::parse_one_file, line by line, and the series it makes.       *)
(*                                                                         *)
(* It finds the fields of a line by counting words.  That goes wrong for a *)
(* line that is cut off and for names that are not one word each; the      *)
(* properties say how far the damage goes.  A read outside the vector of   *)
(* words is undefined behaviour, and ends the model ("undefined"); a value *)
(* that from_chars cannot read is an uninitialized variable, and can be    *)
(* any number.                                                             *)
(***************************************************************************)
EXTENDS Journal

CONSTANT Recordings  \* older recordings, whole or cut off

StatTypes == {<<"none">>, <<"gauge">>, <<"derive">>, <<"counter">>}

\* What report prints of a sample.  As a line it has its place: a metric of three
\* parts, a type that from_str knows, the names of its class and a number.
Shaped(s) ==
  /\ Len(s.metric) = 3
  /\ s.value \in Numbers
  /\ s.stat_type \in StatTypes
  /\ Len(s.names) = CASE s.metric[1] = "process" -> 2
                      [] s.metric[1] = "thread"  -> 4
                      [] OTHER                   -> 1

\* A file with the lines ls may end there.
EndsIn(w, ls) ==
  /\ w.whole \in 0..Len(ls)
  /\ w.place \in Nat
  /\ w.place # 0 => w.whole < Len(ls) /\ w.place \in Places(ls[w.whole + 1])

\* The recordings are of different times: no file is given twice.
ASSUME SummarizeAssumption ==
  /\ \A i, j \in 1..Len(Times) : Times[i] = Times[j] => i = j
  /\ \A batch \in Batches : \A i \in 1..Len(batch) : Shaped(batch[i])
  /\ Recordings \subseteq [lines : Seq(Line), written : [whole : Nat, place : Nat]]
  /\ \A r \in Recordings :
       /\ EndsIn(r.written, r.lines)
       /\ \A i \in 1..Len(r.lines) :
            /\ Shaped(r.lines[i].sample)
            /\ \A n \in 1..Len(Times) : r.lines[i].ts # Times[n]

VARIABLES
  older,     \* the older recording
  file,      \* which one is read: 1 is older, 2 the journal
  at,        \* the lines read of it
  raw_data,  \* Summarize::raw_data, by metric and instance
  status,    \* "reading", "parsed" or "undefined"
  read       \* history: the lines read, and what was read of them

readerVars == <<older, file, at, raw_data, status, read>>

vars == <<journalVars, readerVars>>

Contents ==
  IF file = 1 THEN older ELSE [lines |-> emitted, written |-> written]

Init ==
  /\ JournalInit
  /\ older \in Recordings
  /\ file = 1
  /\ at = 0
  /\ raw_data = <<>>
  /\ status = "reading"
  /\ read = <<>>

-----------------------------------------------------------------------------
(***************************************************************************)
(* One line.                                                               *)
(***************************************************************************)
Class(ws) == ws[2][1]

\* The index of the value, one too far for a process.
BugValueIndex(ws) ==
  CASE Class(ws) = "system"  -> 5
    [] Class(ws) = "process" -> 7
    [] Class(ws) = "thread"  -> 8
    [] OTHER                 -> 0

\* Other classes have no value.
ValueIndex(ws) ==
  CASE Class(ws) = "system"  -> 5
    [] Class(ws) = "process" -> 6
    [] Class(ws) = "thread"  -> 8
    [] OTHER                 -> 0

OutOfRange(ws) ==
  \/ Len(ws) < 3
  \/ Len(ws[2]) < 3
  \/ Len(ws) < ValueIndex(ws)
  \/ ws[3] \notin StatTypes

\* The names without the tid.
BugInstanceName(ws) ==
  CASE Class(ws) = "system"  -> <<ws[4]>>
    [] Class(ws) = "process" -> <<ws[4], ws[5]>>
    [] Class(ws) = "thread"  -> <<ws[4], ws[5], ws[7]>>
    [] OTHER                 -> <<>>

InstanceName(ws) ==
  CASE Class(ws) = "system"  -> <<ws[4]>>
    [] Class(ws) = "process" -> <<ws[4], ws[5]>>
    [] Class(ws) = "thread"  -> <<ws[4], ws[5], ws[6], ws[7]>>
    [] OTHER                 -> <<>>

\* The word itself, whatever it is.
BugValues(ws) == IF ValueIndex(ws) # 0 THEN {ws[ValueIndex(ws)]} ELSE Numbers

Values(ws) ==
  IF ValueIndex(ws) # 0 /\ ws[ValueIndex(ws)] \in Numbers
    THEN {ws[ValueIndex(ws)]} ELSE Numbers

Entry(ts, value) == [timestamp |-> ts, value |-> value]

\* A new entry takes the place of the series.
BugStore(ws) ==
  \E value \in Values(ws) :
    LET key == <<ws[2], InstanceName(ws)>>
        new == [stat_type |-> ws[3], series |-> <<Entry(ws[1], value)>>]
    IN raw_data' = [k \in DOMAIN raw_data \cup {key} |->
                      IF k = key THEN new ELSE raw_data[k]]

Store(ws) ==
  \E value \in Values(ws) :
    LET key == <<ws[2], InstanceName(ws)>>
        old == IF key \in DOMAIN raw_data THEN raw_data[key].series ELSE <<>>
        new == [stat_type |-> ws[3], series |-> Append(old, Entry(ws[1], value))]
    IN raw_data' = [k \in DOMAIN raw_data \cup {key} |->
                      IF k = key THEN new ELSE raw_data[k]]

-----------------------------------------------------------------------------
(***************************************************************************)
(* The loop of getline, and the files.                                     *)
(***************************************************************************)
NextFile ==
  IF file = 1
    THEN file' = 2 /\ at' = 0 /\ status' = "reading"
    ELSE status' = "parsed" /\ UNCHANGED <<file, at>>

ReadLine ==
  /\ status = "reading"
  /\ at < Contents.written.whole
  /\ LET line == Contents.lines[at + 1]
         ws == Words(line)
     IN /\ read' = Append(read, [line |-> line, words |-> ws])
        /\ IF OutOfRange(ws)
             THEN status' = "undefined" /\ UNCHANGED raw_data
             ELSE Store(ws) /\ UNCHANGED status
  /\ at' = at + 1
  /\ UNCHANGED <<older, file, journalVars>>

\* The end of the file is not the end of a line.  What there is of it is read,
\* and nothing after it even if more is written meanwhile.
ReadCutLine ==
  /\ status = "reading"
  /\ at = Contents.written.whole /\ Contents.written.place > 0
  /\ LET line == Contents.lines[at + 1]
         ws == WordsUpTo(line, Contents.written.place)
     IN /\ read' = Append(read, [line |-> line, words |-> ws])
        /\ IF OutOfRange(ws)
             THEN status' = "undefined" /\ UNCHANGED <<raw_data, file, at>>
             ELSE Store(ws) /\ NextFile
  /\ UNCHANGED <<older, journalVars>>

EndOfFile ==
  /\ status = "reading"
  /\ at = Contents.written.whole /\ Contents.written.place = 0
  /\ NextFile
  /\ UNCHANGED <<older, raw_data, read, journalVars>>

Ended ==
  /\ status # "reading" /\ recording # "runs"
  /\ UNCHANGED vars

Next ==
  \/ JournalNext /\ UNCHANGED readerVars
  \/ ReadLine \/ ReadCutLine \/ EndOfFile
  \/ Ended

Spec == Init /\ [][Next]_vars

-----------------------------------------------------------------------------
\* Every variable has its type; an instance of raw_data is never without samples.
TypeOK ==
  /\ JournalTypeOK
  /\ older \in Recordings
  /\ file \in {1, 2}
  /\ at \in Nat
  /\ status \in {"reading", "parsed", "undefined"}
  /\ read \in Seq([line : Line, words : Seq(Word)])
  /\ DOMAIN raw_data \subseteq Word \X Seq(Word)
  /\ \A k \in DOMAIN raw_data :
       /\ raw_data[k].stat_type \in StatTypes
       /\ raw_data[k].series \in Seq([timestamp : Word, value : Numbers]) \ {<<>>}

\* Every name is one word, and the line is from a recording.
Plain(line) ==
  /\ line.sample.metric[1] \in {"system", "process", "thread"}
  /\ \A i \in 1..Len(line.sample.names) : Len(line.sample.names[i]) = 1

\* Such a line, read to its end (the newline may be missing).
Regular(r) == Plain(r.line) /\ r.words = Words(r.line)

\* What a line is about: the names as the recording has them, one by one.
About(line) == <<line.sample.metric, line.sample.names>>

Written(line) == Entry(line.ts, line.sample.value)

\* The name of the series that a regular line belongs to, as parse_one_file
\* should have it.
KeyOf(about) == <<about[1], [i \in 1..Len(about[2]) |-> about[2][i][1]]>>

\* The ways to find the lines in the series s, those whose numbers are in ours:
\* each has a sample of its own there, in the order of the lines.
Arrangements(s, lines, ours) ==
  {place \in [ours -> DOMAIN s] :
     /\ \A i, j \in ours : i < j => place[i] < place[j]
     /\ \A i \in ours : s[place[i]] = Written(lines[i])}

LinesRead == [i \in 1..Len(read) |-> read[i].line]

AllRegular == \A i \in 1..Len(read) : Regular(read[i])

\* The regular lines about one thing, by number.
Ours(about) ==
  {i \in 1..Len(read) : Regular(read[i]) /\ About(read[i].line) = about}

\* What regular lines are about.
Abouts == {About(read[i].line) : i \in {j \in 1..Len(read) : Regular(read[j])}}

\* The samples of two instances never mix, none is lost and none moves, as long
\* as names are single words: one series for each metric and instance, with its
\* samples in the order they were taken, over all files.  Irregular lines may add
\* samples of their own but take nothing away.
Grouped ==
  /\ \A a \in Abouts :
       /\ KeyOf(a) \in DOMAIN raw_data
       /\ LET s == raw_data[KeyOf(a)].series
          IN \E place \in Arrangements(s, LinesRead, Ours(a)) :
               AllRegular => \A k \in DOMAIN s : \E i \in Ours(a) : place[i] = k
  /\ AllRegular => DOMAIN raw_data = {KeyOf(a) : a \in Abouts}

\* The parser leaves its vector of words only in a line that is cut off or has
\* an empty comm.
UndefinedOnlyIf ==
  status = "undefined" =>
    LET r == read[Len(read)]
    IN \/ r.words # Words(r.line)
       \/ \E i \in 1..Len(r.line.sample.names) : r.line.sample.names[i] = <<>>

\* No two lines of a tick are about one thing, as they are if -e names a metric
\* twice, which select accepts.
NamedOnce(ls) ==
  \A i, j \in 1..Len(ls) :
    ls[i].ts = ls[j].ts /\ About(ls[i]) = About(ls[j]) => i = j

\* compute_derive divides by the difference of the timestamps of neighbours in a
\* series.  They differ, even between two recordings, on two conditions: no metric
\* was named twice, and every name is one word.  (All threads of a process whose
\* comm is three words fall into one series.)
NeighboursDiffer ==
  AllRegular /\ NamedOnce(older.lines) /\ NamedOnce(emitted) =>
    \A k \in DOMAIN raw_data :
      LET s == raw_data[k].series
      IN \A i \in 1..Len(s) - 1 : s[i].timestamp # s[i + 1].timestamp

\* From end to end: after a recording that ended normally, with names of single
\* words, every sample it ever printed is in its series.
EndToEnd ==
  [][status = "reading" /\ status' = "parsed" /\ recording = "exited" =>
       \A i \in 1..Len(emitted) :
         Plain(emitted[i]) =>
           LET about == About(emitted[i])
               ours == {j \in 1..Len(emitted) : About(emitted[j]) = about}
           IN /\ KeyOf(about) \in DOMAIN raw_data'
              /\ Arrangements(raw_data'[KeyOf(about)].series, emitted, ours) # {}
    ]_vars
=============================================================================
