---------------------------- MODULE MCArgParser ----------------------------
(***************************************************************************)
(* Every line of up to four words after `record`, of up to three after     *)
(* `summarize`, and every line of up to three words.                       *)
(***************************************************************************)
EXTENDS ArgParser

MCPositional == {"record", "summarize", "a", "-1"}

MCAssigned ==
  [w \in {"--pcomm=a", "--pcomm=-l", "--list=-gp"} |->
     CASE w = "--pcomm=a"  -> <<"--pcomm", "a">>
       [] w = "--pcomm=-l" -> <<"--pcomm", "-l">>
       [] w = "--list=-gp" -> <<"--list", "-gp">>]

MCLetters ==
  [w \in {"-gp", "-pg", "-lgh", "-x"} |->
     CASE w = "-gp"  -> <<"-g", "-p">>
       [] w = "-pg"  -> <<"-p", "-g">>
       [] w = "-lgh" -> <<"-l", "-g", "-h">>
       [] w = "-x"   -> <<"-x">>]

RecordWords ==
  {"a", "-1", "-g", "-l", "-i", "-p", "-e", "-gp", "-pg", "-lgh", "-x", "--pcomm=a", "--list=-gp"}

SummarizeWords == {"a", "record", "-g", "-i", "-gp", "--pcomm=a"}

AnyWords == {"record", "summarize", "a", "-g", "-v", "-gp", "--pcomm=-l", "--list"}

MCWords == RecordWords \cup SummarizeWords \cup AnyWords \cup {"-h", "--pcomm"}

MCLines ==
  {<<"record">> \o words : words \in BoundedSeq(RecordWords, 4)} \cup
  {<<"summarize">> \o words : words \in BoundedSeq(SummarizeWords, 3)} \cup
  BoundedSeq(AnyWords, 3)

Of(f) == [w \in MCWords |-> IF w \in DOMAIN f THEN f[w] ELSE <<>>]
MCLettersOf == Of(MCLetters)
MCAssignedOf == Of(MCAssigned)
=============================================================================
