------------------------------- MODULE Journal -------------------------------
(***************************************************************************)
(* The file a recording writes: InstanceManager::report prints one line    *)
(* per sample to stdout.  Redirected to a file, what it prints stays in    *)
(* stdio's buffer, which reaches the file in blocks that end anywhere in a *)
(* line.  exit flushes the rest, std::terminate does not.                  *)
(*                                                                         *)
(* A line is the sequence of its words.  A word is the sequence of its     *)
(* parts between colons; only that of the metric has more than one.  A     *)
(* name from /proc can be any number of words: comms may hold spaces, and  *)
(* a task that exits while its comm is read has an empty one.              *)
(***************************************************************************)
EXTENDS Integers, Sequences

CONSTANTS
  Text,      \* the strings that the parts of a word can be
  Numbers,   \* the words std::from_chars can read
  CutNumber, \* what is left of a number when its end is missing
  Times,     \* the timestamps of the ticks, one after another
  Batches    \* what the buffer may hold at the end of a tick

Word == Seq(Text)

\* names holds what stands between the type and the value: the host, or the pid
\* and the comm, or the pid, its comm, the tid and its comm.
Sample == [metric : Word, stat_type : Word, names : Seq(Seq(Word)), value : Word]

Line == [ts : Word, sample : Sample]

ASSUME JournalAssumption ==
  /\ {"", "cut"} \subseteq Text
  /\ Numbers \subseteq Word /\ CutNumber \in Numbers
  /\ Times \in Seq(Numbers)
  /\ Batches \subseteq Seq(Sample) \ {<<>>}

VARIABLES
  recording,  \* "runs", "exited" (normally) or "terminated" (by an exception)
  emitted,    \* the lines printed so far
  written     \* how much of them is in the file: whole lines, places in the next

journalVars == <<recording, emitted, written>>

\* The words of the names.
NameWords(s) ==
  CASE s.metric[1] = "process" -> s.names[1] \o s.names[2]
    [] s.metric[1] = "thread"  -> s.names[1] \o s.names[2] \o s.names[3] \o s.names[4]
    [] OTHER                   -> s.names[1]

Words(line) ==
  <<line.ts, line.sample.metric, line.sample.stat_type>>
    \o NameWords(line.sample) \o <<line.sample.value>>

\* Where a line can end: with 3 * k, after its k-th word; with one more, after
\* the space that follows; with two more, in the next word.
Places(line) == (0..3 * Len(Words(line))) \ {1}

CutWord(w) == IF w \in Numbers THEN CutNumber ELSE <<"cut">>

\* What split_as_view makes of a line that ends there.
WordsUpTo(line, place) ==
  LET ws == Words(line)
      whole == SubSeq(ws, 1, place \div 3)
  IN CASE place % 3 = 2 -> Append(whole, CutWord(ws[place \div 3 + 1]))
       [] place % 3 = 1 -> Append(whole, <<"">>)
       [] OTHER         -> whole

AllWritten == [whole |-> Len(emitted), place |-> 0]

NTicks == IF emitted = <<>> THEN 0
          ELSE CHOOSE n \in 1..Len(Times) : Times[n] = emitted[Len(emitted)].ts

-----------------------------------------------------------------------------
JournalInit ==
  /\ recording = "runs"
  /\ emitted = <<>>
  /\ written = [whole |-> 0, place |-> 0]

\* One tick that has samples.
Report ==
  /\ recording = "runs"
  /\ NTicks < Len(Times)
  /\ \E batch \in Batches :
       emitted' = emitted \o [i \in 1..Len(batch) |->
                                [ts |-> Times[NTicks + 1], sample |-> batch[i]]]
  /\ UNCHANGED <<recording, written>>

\* The file never shrinks.
Later(w) ==
  \/ w.whole > written.whole
  \/ w.whole = written.whole /\ w.place > written.place

Flush ==
  /\ recording = "runs"
  /\ \E n \in written.whole..Len(emitted) :
       \E p \in IF n < Len(emitted) THEN Places(emitted[n + 1]) ELSE {0} :
         /\ Later([whole |-> n, place |-> p])
         /\ written' = [whole |-> n, place |-> p]
  /\ UNCHANGED <<recording, emitted>>

\* The buffer is forgotten.
BugExit ==
  /\ recording = "runs"
  /\ recording' = "exited"
  /\ UNCHANGED <<emitted, written>>

Exit ==
  /\ recording = "runs"
  /\ recording' = "exited"
  /\ written' = AllWritten
  /\ UNCHANGED emitted

Terminate ==
  /\ recording = "runs"
  /\ recording' = "terminated"
  /\ UNCHANGED <<emitted, written>>

JournalNext == Report \/ Flush \/ Exit \/ Terminate

JournalTypeOK ==
  /\ recording \in {"runs", "exited", "terminated"}
  /\ emitted \in Seq(Line)
  /\ written.whole \in 0..Len(emitted)
  /\ written.place \in Nat
  /\ written.whole = Len(emitted) => written.place = 0
=============================================================================
