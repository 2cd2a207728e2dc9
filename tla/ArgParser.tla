----------------------------- MODULE ArgParser -----------------------------
(***************************************************************************)
(* ArgumentParser::parse_args (src/third/argparse.h) over the command line *)
(* that main declares: one step per turn of the loop of                    *)
(* parse_args_internal, and one per letter of "-xyz".                      *)
(*                                                                         *)
(* A word is a model value or a string that is never taken apart; what the *)
(* parser sees in its characters are the constants below.                  *)
(***************************************************************************)
EXTENDS Options, FiniteSets, SequencesExt

CONSTANTS
  Words,
  Positional,  \* the words that is_positional accepts
  Letters,     \* Letters[w]: of "-xyz", <<"-x", "-y", "-z">>; else <<>>
  Assigned,    \* Assigned[w]: of "--name=value", <<"--name", "value">>; else <<>>
  Lines        \* the command lines to run with, without the program's name

ASSUME ArgParserAssumption ==
  /\ Positional \subseteq Words
  /\ Assigned \in [Words -> {<<>>} \cup (Words \X Words)]
  /\ Letters \in [Words -> Seq(Words)]
  /\ \A word \in Positional : Letters[word] = <<>> /\ Assigned[word] = <<>>
  /\ "files" \in Words => "files" \in Positional
  /\ Lines \subseteq Seq(Words) /\ \A words \in Lines : Len(words) <= Many

VARIABLES
  line,          \* argv
  parser,        \* the parser that is in its loop
  rest,          \* the words from `it` on
  letters,       \* the letters of *it that are still to be consumed
  n_positional,  \* positional_argument_it, as a number
  used,          \* the arguments with m_is_used
  values,        \* m_values; an implicit value is known from `used`
  status         \* see Statuses

vars == <<line, parser, rest, letters, n_positional, used, values, status>>

\* "refused": an exception, which main reports.  "exited": by -h or -v.
Statuses == {"parsing", "refused", "exited", "parsed"}

Least(m, n) == IF m < n THEN m ELSE n

\* preprocess_arguments: each parser splits the names that it knows itself.
Preprocess(p, words) ==
  FlattenSeq([k \in DOMAIN words |->
    IF /\ ~IsName(p, words[k])
       /\ Assigned[words[k]] # <<>>
       /\ IsName(p, Assigned[words[k]][1])
    THEN Assigned[words[k]]
    ELSE <<words[k]>>])

Init ==
  /\ line \in Lines
  /\ parser = "ezcollect"
  /\ rest = Preprocess("ezcollect", line)
  /\ letters = <<>>
  /\ n_positional = 0
  /\ used = {}
  /\ values = [slot \in Slots |-> <<>>]
  /\ status = "parsing"

-----------------------------------------------------------------------------
\* Definitions whose names begin with Bug are plausible mistakes.

\* The next option is taken for a value.
BugOffered(arg, words) == SubSeq(words, 1, Least(arg.max, Len(words)))

\* The words that Argument::consume may take: up to max of them, and none
\* from the first that looks like an option.
Offered(arg, words) ==
  LET most == Least(arg.max, Len(words))
      before == {n \in 0..most : \A k \in 1..n : words[k] \in Positional}
  IN SubSeq(words, 1, IF arg.takes_options THEN most ELSE Max(before))

\* An option with a default value is never short of words.
BugTooFew(arg, words) ==
  /\ arg.max > 0
  /\ ~arg.has_default
  /\ Len(Offered(arg, words)) < arg.min

\* An argument with a default value may stand at the end of the line without
\* one, and nowhere else.
TooFew(arg, words) ==
  /\ arg.max > 0
  /\ IF Len(words) < arg.min
     THEN ~arg.has_default
     ELSE Len(Offered(arg, words)) < arg.min

\* No bound on the words taken.
BugTaken(arg, words) == Offered([arg EXCEPT !.max = Many], words)

Taken(arg, words) ==
  IF arg.max = 0 \/ Len(words) < arg.min THEN <<>> ELSE Offered(arg, words)

Refuse ==
  /\ status' = "refused"
  /\ UNCHANGED <<line, parser, rest, letters, n_positional, used, values>>

\* Argument::consume, with the words from `start` on.
Consume(a, words) ==
  LET slot == <<parser, a>>
      taken == Taken(Arg(parser, a), words)
  IN IF slot \in used \/ TooFew(Arg(parser, a), words)
     THEN status' = "refused" /\ UNCHANGED <<rest, used, values>>
     ELSE /\ used' = used \cup {slot}
          /\ values' = [values EXCEPT ![slot] = taken]
          /\ rest' = SubSeq(words, Len(taken) + 1, Len(words))
          /\ status' = IF Arg(parser, a).exits THEN "exited" ELSE status

Turn == status = "parsing" /\ letters = <<>> /\ rest # <<>>

\* A positional word after the parser's last positional argument.
Excess ==
  /\ Turn /\ Head(rest) \in Positional
  /\ n_positional = Len(Parsers[parser].positionals)

ReadSubcommand ==
  /\ Excess /\ Head(rest) \in Parsers[parser].subcommands
  /\ parser' = Head(rest)
  /\ rest' = Preprocess(Head(rest), Tail(rest))
  /\ n_positional' = 0
  /\ UNCHANGED <<line, letters, used, values, status>>

\* The word is skipped, but `it` stays where it is.
BugRefuseExcess ==
  /\ Excess /\ Head(rest) \notin Parsers[parser].subcommands
  /\ UNCHANGED vars

RefuseExcess ==
  /\ Excess /\ Head(rest) \notin Parsers[parser].subcommands
  /\ Refuse

ReadPositional ==
  /\ Turn /\ Head(rest) \in Positional
  /\ n_positional < Len(Parsers[parser].positionals)
  /\ n_positional' = n_positional + 1
  /\ Consume(Parsers[parser].positionals[n_positional + 1], rest)
  /\ UNCHANGED <<line, parser, letters>>

ReadOption ==
  /\ Turn /\ Head(rest) \notin Positional
  /\ IsName(parser, Head(rest))
  /\ Consume(Named(parser, Head(rest)), Tail(rest))
  /\ UNCHANGED <<line, parser, letters, n_positional>>

\* "-xyz" that is not itself a name.
ReadLetters ==
  /\ Turn /\ Head(rest) \notin Positional
  /\ ~IsName(parser, Head(rest)) /\ Letters[Head(rest)] # <<>>
  /\ letters' = Letters[Head(rest)]
  /\ rest' = Tail(rest)
  /\ UNCHANGED <<line, parser, n_positional, used, values, status>>

ReadLetter ==
  /\ status = "parsing" /\ letters # <<>>
  /\ IsName(parser, Head(letters))
  /\ Consume(Named(parser, Head(letters)), rest)
  /\ letters' = Tail(letters)
  /\ UNCHANGED <<line, parser, n_positional>>

RefuseUnknown ==
  /\ \/ /\ Turn /\ Head(rest) \notin Positional
        /\ ~IsName(parser, Head(rest)) /\ Letters[Head(rest)] = <<>>
     \/ /\ status = "parsing" /\ letters # <<>>
        /\ ~IsName(parser, Head(letters))
  /\ Refuse

\* Argument::validate: nothing is required, and only a positional argument
\* has its number of values looked at again.
Valid(p) ==
  \A a \in ToSet(Parsers[p].positionals) :
    \/ Len(values[<<p, a>>]) \in Arg(p, a).min .. Arg(p, a).max
    \/ Arg(p, a).has_default

EndOfLine ==
  /\ status = "parsing" /\ letters = <<>> /\ rest = <<>>
  /\ status' = IF Valid(parser) /\ Valid("ezcollect") THEN "parsed" ELSE "refused"
  /\ UNCHANGED <<line, parser, rest, letters, n_positional, used, values>>

Parse ==
  \/ ReadSubcommand \/ RefuseExcess \/ ReadPositional \/ ReadOption
  \/ ReadLetters \/ ReadLetter \/ RefuseUnknown \/ EndOfLine

\* main goes on with the result.
Terminated == status # "parsing" /\ UNCHANGED vars

Next == Parse \/ Terminated

Spec == Init /\ [][Next]_vars /\ WF_vars(Parse)

-----------------------------------------------------------------------------
(***************************************************************************)
(* The language, without a loop: what each word of the line is follows     *)
(* from the words around it.  It is stated of plain lines, in which the    *)
(* letters of "-xyz" are flags up to the last, none of them is a digit     *)
(* ("-1" is a value), and none is "--help=value".                          *)
(***************************************************************************)
PlainLetters(word) ==
  /\ \A j \in DOMAIN Letters[word] : Letters[word][j] \notin Positional
  /\ \A j \in 1 .. Len(Letters[word]) - 1 :
       LET letter == Letters[word][j]
       IN IsName("record", letter) => Arg("record", Named("record", letter)).max = 0

Plain(words) ==
  \A k \in DOMAIN words :
    /\ PlainLetters(words[k])
    /\ Assigned[words[k]] # <<>> =>
         /\ PlainLetters(Assigned[words[k]][2])
         /\ ~IsName("summarize", Assigned[words[k]][1])

\* The positional words right after place k.
Run(words, k) ==
  CHOOSE n \in 0 .. Len(words) - k :
    /\ \A j \in k+1 .. k+n : words[j] \in Positional
    /\ k + n < Len(words) => words[k + n + 1] \notin Positional

FirstPositional(words) ==
  IF \E k \in DOMAIN words : words[k] \in Positional
  THEN CHOOSE k \in DOMAIN words :
         words[k] \in Positional /\ \A j \in 1..k-1 : words[j] \notin Positional
  ELSE Len(words) + 1

\* The place of the subcommand.
Command(words) == FirstPositional(words)

ParserAt(words, k) ==
  IF k > Command(words) /\ words[Command(words)] \in Parsers["ezcollect"].subcommands
  THEN words[Command(words)]
  ELSE "ezcollect"

\* The files of summarize begin at its first positional word and then take
\* every word.
Files(words) ==
  {k \in DOMAIN words :
     /\ k > Command(words) /\ words[Command(words)] = "summarize"
     /\ \E j \in Command(words)+1 .. k : words[j] \in Positional}

UpToPositional(words) == SubSeq(words, 1, FirstPositional(words) - 1)
FromPositional(words) == SubSeq(words, FirstPositional(words), Len(words))

\* The words with "-xyz" written out, unless p has an option of that name.
LettersOut(p, words) ==
  FlattenSeq([k \in DOMAIN words |->
    IF ~IsName(p, words[k]) /\ Letters[words[k]] # <<>>
    THEN Letters[words[k]]
    ELSE <<words[k]>>])

\* The words of a subparser, written out.
PartOut(p, words) ==
  CASE p = "record"    -> LettersOut("record", Preprocess("record", words))
    [] p = "summarize" -> LettersOut("summarize", UpToPositional(words))
                            \o FromPositional(words)
    [] OTHER           -> words

\* The line with "--name=value" and "-xyz" written out, except after the first
\* file of summarize.
WrittenOut(words) ==
  LET part == FromPositional(words)
  IN LettersOut("ezcollect", UpToPositional(words))
       \o IF part = <<>> THEN <<>> ELSE <<Head(part)>> \o PartOut(Head(part), Tail(part))

\* The argument that the name at place k stands for.
SlotAt(words, k) == <<ParserAt(words, k), Named(ParserAt(words, k), words[k])>>

IsOptionAt(words, k) ==
  /\ k \in DOMAIN words \ Files(words)
  /\ words[k] \notin Positional /\ IsName(ParserAt(words, k), words[k])

OptionOf(words, k) == Arg(SlotAt(words, k)[1], SlotAt(words, k)[2])

BadOption(words, k) ==
  \/ ~IsOptionAt(words, k)
  \/ \E j \in 1..k-1 :
       IsOptionAt(words, j) /\ SlotAt(words, j) = SlotAt(words, k)
  \/ /\ Run(words, k) < OptionOf(words, k).min
     /\ k = Len(words) => ~OptionOf(words, k).has_default

\* A positional word is the subcommand, a file, or a value of the option
\* before it.
BadPositional(words, k) ==
  /\ k = Command(words) => words[k] \notin Parsers["ezcollect"].subcommands
  /\ k # Command(words) =>
       ~\E j \in Command(words)+1 .. k-1 :
          IsOptionAt(words, j) /\ k - j <= Run(words, j) /\ k - j <= OptionOf(words, j).max

Bad(words, k) ==
  /\ k \notin Files(words)
  /\ IF words[k] \in Positional THEN BadPositional(words, k) ELSE BadOption(words, k)

Result(words) ==
  IF \E k \in DOMAIN words :
       /\ IsOptionAt(words, k) /\ OptionOf(words, k).exits
       /\ \A j \in 1..k : ~Bad(words, j)
  THEN "exited"
  ELSE IF \E k \in DOMAIN words : Bad(words, k) THEN "refused" ELSE "parsed"

\* What the line gives an argument: nothing, or one sequence of values.
ValuesOf(words, slot) ==
  IF slot = <<"summarize", "files">>
  THEN {SubSeq(words, k, Len(words)) :
          k \in {j \in Files(words) : j - 1 \notin Files(words)}}
  ELSE {SubSeq(words, k + 1, k + Least(Run(words, k), OptionOf(words, k).max)) :
          k \in {j \in DOMAIN words : IsOptionAt(words, j) /\ SlotAt(words, j) = slot}}

-----------------------------------------------------------------------------
\* The types, and no argument holds more values than it was declared with.
TypeOK ==
  /\ line \in Seq(Words) /\ parser \in DOMAIN Parsers /\ status \in Statuses
  /\ rest \in Seq(Words)
  /\ n_positional \in 0 .. Len(Parsers[parser].positionals)
  /\ used \subseteq Slots
  /\ values \in [Slots -> Seq(Words)]
  /\ \A slot \in Slots : Len(values[slot]) <= Arg(slot[1], slot[2]).max

\* A line is accepted, refused or answered by -h and -v as the words around
\* each word say, in whatever order the options stand: parse_args_internal
\* decides it from left to right, word by word.
AsTheGrammar ==
  status # "parsing" /\ Plain(line) => status = Result(WrittenOut(line))

\* In an accepted line each argument has exactly the words that follow its
\* name, and those of no other: no value is lost, moved to a neighbour or
\* left over from the parser in front of the subcommand.
ValuesBelong ==
  status = "parsed" /\ Plain(line) =>
    LET words == WrittenOut(line)
    IN \A slot \in Slots :
         /\ slot \in used <=> ValuesOf(words, slot) # {}
         /\ ValuesOf(words, slot) \subseteq {values[slot]}

\* The loop has no counter: each turn must consume a word or end it, so that
\* every command line is answered.
ParsingEnds == <>(status # "parsing")
=============================================================================
