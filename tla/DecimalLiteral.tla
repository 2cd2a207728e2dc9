--------------------------- MODULE DecimalLiteral ---------------------------
(***************************************************************************)
(* What the parser takes for a value and what for an option:               *)
(* Argument::is_positional and is_decimal_literal (src/third/argparse.h),  *)
(* a scanner written with gotos, whose labels are the states here.  One    *)
(* character stands for each kind that the scanner tells apart.            *)
(***************************************************************************)
EXTENDS Naturals, Sequences, SequencesExt

CONSTANT MaxLength  \* of the words to scan

ASSUME DecimalLiteralAssumption == MaxLength \in Nat

Digits == {"0", "1"}
Signs == {"-", "+"}
Characters == Digits \cup Signs \cup {".", "e", "x"}

VARIABLES
  name,   \* the word
  s,      \* what is left of it
  label   \* where the scanner is; "yes" and "no" are its results

scannerVars == <<name, s, label>>

ScannerInit ==
  /\ name \in BoundedSeq(Characters, MaxLength)
  /\ s = name
  /\ label = "is_positional"

lookahead == IF s = <<>> THEN "eof" ELSE Head(s)

\* consume_digits
Undigited(text) ==
  LET starts == {n \in 0 .. Len(text) : \A k \in 1..n : text[k] \in Digits}
      n == CHOOSE n \in starts : \A m \in starts : m <= n
  IN SubSeq(text, n + 1, Len(text))

At(l) == label = l /\ UNCHANGED name

Goto(l, text) == label' = l /\ s' = text

Finish(result) == label' = (IF result THEN "yes" ELSE "no") /\ UNCHANGED s

-----------------------------------------------------------------------------
\* Any word that begins with "-" goes to the scanner; a lone "-" is a value.
IsPositional ==
  /\ At("is_positional")
  /\ IF lookahead = "-" /\ Len(s) > 1
     THEN Goto("is_decimal_literal", Tail(s))
     ELSE Finish(TRUE)

IsDecimalLiteral ==
  /\ At("is_decimal_literal")
  /\ \/ /\ lookahead = "0"
        /\ IF Len(s) = 1 THEN Finish(TRUE) ELSE Goto("integer_part_consumed", Undigited(s))
     \/ /\ lookahead \in Digits \ {"0"}
        /\ IF Undigited(s) = <<>> THEN Finish(TRUE)
                                  ELSE Goto("integer_part_consumed", Undigited(s))
     \/ lookahead = "." /\ Goto("post_decimal_point", Tail(s))
     \/ lookahead \notin Digits \cup {"."} /\ Finish(FALSE)

IntegerPartConsumed ==
  /\ At("integer_part_consumed")
  /\ \/ /\ lookahead = "."
        /\ Goto(IF Len(s) > 1 /\ s[2] \in Digits THEN "post_decimal_point"
                                                 ELSE "exponent_part_opt", Tail(s))
     \/ lookahead = "e" /\ Goto("post_e", Tail(s))
     \/ lookahead \notin {".", "e"} /\ Finish(FALSE)

PostDecimalPoint ==
  /\ At("post_decimal_point")
  /\ IF lookahead \in Digits THEN Goto("exponent_part_opt", Undigited(s))
                             ELSE Finish(FALSE)

ExponentPartOpt ==
  /\ At("exponent_part_opt")
  /\ IF lookahead = "e" THEN Goto("post_e", Tail(s)) ELSE Finish(lookahead = "eof")

\* The digits after the sign are optional.
BugPostE ==
  /\ At("post_e")
  /\ LET unsigned == IF lookahead \in Signs THEN Tail(s) ELSE s
     IN Finish(Undigited(unsigned) = <<>>)

PostE ==
  /\ At("post_e")
  /\ LET unsigned == IF lookahead \in Signs THEN Tail(s) ELSE s
     IN Finish(unsigned # <<>> /\ Undigited(unsigned) = <<>>)

ScannerTerminated == label \in {"yes", "no"} /\ UNCHANGED scannerVars

ScannerNext ==
  \/ IsPositional \/ IsDecimalLiteral \/ IntegerPartConsumed
  \/ PostDecimalPoint \/ ExponentPartOpt \/ PostE \/ ScannerTerminated

ScannerSpec == ScannerInit /\ [][ScannerNext]_scannerVars

-----------------------------------------------------------------------------
\* The grammar in the comments above is_positional and is_decimal_literal,
\* rule by rule.
IsDigits(t) == t # <<>> /\ \A k \in DOMAIN t : t[k] \in Digits

Starts(t, kind) == t # <<>> /\ Head(t) \in kind

Exponent(t) ==
  /\ Starts(t, {"e"})
  /\ IsDigits(Tail(t)) \/ (Starts(Tail(t), Signs) /\ IsDigits(Tail(Tail(t))))

ExponentOrNothing(t) == t = <<>> \/ Exponent(t)

Splits(t, First(_), Second(_)) ==
  \E n \in 0 .. Len(t) : First(SubSeq(t, 1, n)) /\ Second(SubSeq(t, n + 1, Len(t)))

Fractional(t) == Starts(t, {"."}) /\ Splits(Tail(t), IsDigits, ExponentOrNothing)

AfterInteger(t) ==
  \/ Fractional(t)
  \/ Starts(t, {"."}) /\ ExponentOrNothing(Tail(t))
  \/ Exponent(t)

Literal(t) ==
  \/ t = <<"0">>
  \/ IsDigits(t) /\ Head(t) # "0"
  \/ Splits(t, IsDigits, AfterInteger)
  \/ Fractional(t)

IsValue(t) == t \in {<<>>, <<"-">>} \/ ~Starts(t, {"-"}) \/ Literal(Tail(t))

\* The scanner accepts the grammar it is documented with, and nothing else:
\* a negative number in any notation is a value, and no option is.
FollowsGrammar ==
  label \in {"yes", "no"} => (label = "yes" <=> IsValue(name))
=============================================================================
