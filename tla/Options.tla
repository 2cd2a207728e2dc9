------------------------------- MODULE Options -------------------------------
(***************************************************************************)
(* The command line that main (src/src/ezcollect.cc) declares, with the    *)
(* argument class of src/third/argparse.h.  An argument takes from min to  *)
(* max words as its values; the order of the calls that declare it counts, *)
(* since default_value, flag and nargs all set that range.                 *)
(***************************************************************************)
EXTENDS Naturals, Sequences

CONSTANT Many  \* numeric_limits<size_t>::max(): more words than a line has

ASSUME OptionsAssumption == Many \in Nat \ {0, 1}

Argument(names) ==
  [names |-> names, min |-> 1, max |-> 1, has_default |-> FALSE,
   takes_options |-> FALSE, exits |-> FALSE]

Nargs(arg, min, max) == [arg EXCEPT !.min = min, !.max = max]

DefaultValue(arg) == [arg EXCEPT !.min = 0, !.has_default = TRUE]

ImplicitValue(arg) == Nargs(arg, 0, 0)

Flag(arg) == ImplicitValue(DefaultValue(arg))

OneOrMore(arg) == Nargs(arg, 1, Many)

Remaining(arg) == [Nargs(arg, 0, Many) EXCEPT !.takes_options = TRUE]

\* The action of -h and -v prints something and calls exit(0).
Exiting(names) ==
  Nargs([Flag(Argument(names)) EXCEPT !.exits = TRUE], 0, 0)

Help == Exiting({"-h", "--help"})
Version == Exiting({"-v", "--version"})
Debug == Flag(Argument({"-g"}))

\* What main adds to the three parsers.
Parsers ==
  [ezcollect |->
     [subcommands |-> {"record", "summarize"},
      positionals |-> <<>>,
      args |-> [h |-> Help, v |-> Version, g |-> Debug]],
   record |->
     [subcommands |-> {},
      positionals |-> <<>>,
      args |->
        [h |-> Help, v |-> Version, g |-> Debug,
         l |-> DefaultValue(Flag(Argument({"-l", "--list"}))),
         i |-> Nargs(DefaultValue(Argument({"-i"})), 1, 1),
         p |-> Argument({"-p", "--pid"}),
         pcomm |-> Argument({"--pcomm"}),
         pcomm_prefix |-> Argument({"--pcomm-prefix"}),
         t |-> Argument({"-t", "--tid"}),
         tcomm |-> Argument({"--tcomm"}),
         tcomm_prefix |-> Argument({"--tcomm-prefix"}),
         e |-> OneOrMore(Argument({"-e"}))]],
   summarize |->
     [subcommands |-> {},
      positionals |-> <<"files">>,
      args |-> [h |-> Help, v |-> Version, g |-> Debug,
                files |-> Remaining(Argument({"files"}))]]]

Arg(p, a) == Parsers[p].args[a]

\* m_argument_map.
IsName(p, word) ==
  \E a \in DOMAIN Parsers[p].args : word \in Arg(p, a).names

Named(p, word) ==
  CHOOSE a \in DOMAIN Parsers[p].args : word \in Arg(p, a).names

Slots == UNION {{p} \X DOMAIN Parsers[p].args : p \in DOMAIN Parsers}
=============================================================================
