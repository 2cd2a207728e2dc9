--------------------------- MODULE RecordCmdProofs ---------------------------
(***************************************************************************)
(* Proofs about ArgParser and RecordCmd, for every command line, every     *)
(* table of words, every interval and every width of the integers.  The    *)
(* recursive functions of the model (the loop of split_foreach, FlattenSeq *)
(* of the community modules) are unfolded with the lemma Recursion and     *)
(* followed with the lemma Induction.                                      *)
(***************************************************************************)
EXTENDS RecordCmd, DecimalLiteral, SequenceTheorems, WellFoundedInduction, TLAPS

\* A set that has 0, and with each number the next, has every number.
LEMMA Induction ==
  ASSUME NEW T, 0 \in T, \A n \in Nat : n \in T => n + 1 \in T
  PROVE  Nat \subseteq T
<1> DEFINE less == {ss \in Nat \X Nat : ss[1] < ss[2]}
<1>1. less = OpToRel(<, Nat)
  BY DEF OpToRel
<1>2. IsWellFoundedOn(less, Nat)
  BY <1>1, NatLessThanWellFounded
<1>3. SUFFICES ASSUME Nat \ T # {} PROVE FALSE
  OBVIOUS
<1>4. PICK n \in Nat \ T : \A m \in Nat \ T : ~(<<m, n>> \in less)
  <2> HIDE DEF less
  <2>1. Nat \ T \subseteq Nat
    OBVIOUS
  <2> QED
    BY <1>2, <1>3, <2>1, WFMin
<1>5. n # 0 /\ n - 1 \in Nat /\ n - 1 < n
  BY <1>4
<1>6. n - 1 \in T
  BY <1>4, <1>5
<1> QED
  BY <1>4, <1>5, <1>6

\* The functions that begin with `first` and go on with `step`.
Runs(lo, n, S, first, step) ==
  {f \in [lo..n -> S] :
     f[lo] = first /\ \A i \in lo + 1 .. n : f[i] = step[<<i, f[i - 1]>>]}

\* What the definition of a recursive function takes for granted: there is a function that
\* begins with `first` and goes on with `step`.
LEMMA Recursion ==
  ASSUME NEW lo \in {0, 1}, NEW n \in Nat, lo <= n,
         NEW S, NEW first \in S, NEW step \in [(1..n) \X S -> S]
  PROVE  Runs(lo, n, S, first, step) # {}
<1> DEFINE Upto(k, f) == /\ f \in [lo..k -> S]
                         /\ f[lo] = first
                         /\ \A i \in lo + 1 .. k : f[i] = step[<<i, f[i - 1]>>]
           T == {k \in Nat : lo <= k /\ k <= n => \E f : Upto(k, f)}
<1>1. \E f : Upto(lo, f)
  <2>1. Upto(lo, [i \in lo..lo |-> first])
    OBVIOUS
  <2> QED
    BY <2>1
<1>2. 0 \in T
  <2>1. SUFFICES ASSUME lo <= 0 PROVE \E f : Upto(0, f)
    OBVIOUS
  <2>2. lo = 0
    BY <2>1
  <2> QED
    BY <1>1, <2>2
<1>3. ASSUME NEW k \in Nat, k \in T PROVE k + 1 \in T
  <2>1. SUFFICES ASSUME lo <= k + 1, k + 1 <= n PROVE \E f : Upto(k + 1, f)
    OBVIOUS
  <2>2. CASE lo = k + 1
    BY <1>1, <2>2
  <2>3. CASE lo <= k
    <3>1. PICK f : Upto(k, f)
      BY <1>3, <2>1, <2>3
    <3> DEFINE last == step[<<k + 1, f[k]>>]
               g == [i \in lo .. k + 1 |-> IF i = k + 1 THEN last ELSE f[i]]
    <3>2. last \in S
      BY <2>1, <2>3, <3>1
    <3>3. g \in [lo .. k + 1 -> S]
      BY <2>3, <3>1, <3>2
    <3>4. /\ g[k + 1] = last
          /\ \A i \in lo..k : g[i] = f[i]
      BY <2>3
    <3> HIDE DEF g
    <3>5. g[lo] = first
      BY <2>3, <3>1, <3>4
    <3>6. ASSUME NEW i \in lo + 1 .. k + 1 PROVE g[i] = step[<<i, g[i - 1]>>]
      <4>1. CASE i = k + 1
        BY <2>3, <3>4, <4>1
      <4>2. CASE i # k + 1
        <5>1. i \in lo + 1 .. k /\ i \in lo..k /\ i - 1 \in lo..k
          BY <2>3, <4>2
        <5> QED
          BY <3>1, <3>4, <5>1
      <4> QED
        BY <4>1, <4>2
    <3>7. Upto(k + 1, g)
      BY <3>3, <3>5, <3>6
    <3> QED
      BY <3>7
  <2> QED
    BY <2>1, <2>2, <2>3
<1> HIDE DEF T
<1>4. n \in T
  BY <1>2, <1>3, Induction
<1>5. \E f : Upto(n, f)
  BY <1>4 DEF T
<1> QED
  BY <1>5 DEF Runs

\* A set that has the empty sequence, and each sequence whose tail it has.
LEMMA SequenceInduction ==
  ASSUME NEW S, NEW T, <<>> \in T,
         \A seq \in Seq(S) : seq # <<>> /\ Tail(seq) \in T => seq \in T
  PROVE  Seq(S) \subseteq T
<1> DEFINE U == {n \in Nat : \A seq \in Seq(S) : Len(seq) = n => seq \in T}
<1>1. 0 \in U
  <2>1. ASSUME NEW seq \in Seq(S), Len(seq) = 0 PROVE seq \in T
    <3>1. seq = <<>>
      BY <2>1, EmptySeq
    <3> QED
      BY <3>1
  <2> QED
    BY <2>1
<1>2. ASSUME NEW n \in Nat, n \in U PROVE n + 1 \in U
  <2>1. ASSUME NEW seq \in Seq(S), Len(seq) = n + 1 PROVE seq \in T
    <3>1. seq # <<>>
      BY <2>1, EmptySeq
    <3>2. Tail(seq) \in Seq(S) /\ Len(Tail(seq)) = n
      BY <2>1, <3>1, HeadTailProperties
    <3> QED
      BY <1>2, <3>1, <3>2
  <2> QED
    BY <2>1
<1> HIDE DEF U
<1>3. Nat \subseteq U
  BY <1>1, <1>2, Induction
<1>4. ASSUME NEW seq \in Seq(S) PROVE seq \in T
  <2>1. Len(seq) \in U
    BY <1>3, LenProperties
  <2> QED
    BY <2>1 DEF U
<1> QED
  BY <1>4

\* What FlattenSeq computes.
Flattenings(n, S, seqs) ==
  {f \in [1..n -> Seq(S)] : f[1] = seqs[1] /\ \A i \in 2..n : f[i] = f[i - 1] \o seqs[i]}

\* FlattenSeq follows such a function to its end.
LEMMA FlattenUnfolds ==
  ASSUME NEW S, NEW seqs \in Seq(Seq(S)), seqs # <<>>
  PROVE  \E f \in Flattenings(Len(seqs), S, seqs) : FlattenSeq(seqs) = f[Len(seqs)]
<1> DEFINE n == Len(seqs)
           flat == CHOOSE flatten : flatten = [i \in 1..n |->
                     IF i = 1 THEN seqs[i] ELSE flatten[i - 1] \o seqs[i]]
           step == [p \in (1..n) \X Seq(S) |-> p[2] \o seqs[p[1]]]
<1>1. n \in Nat /\ n # 0
  BY EmptySeq
<1>2. \A i \in 1..n : seqs[i] \in Seq(S)
  OBVIOUS
<1>3. step \in [(1..n) \X Seq(S) -> Seq(S)]
  <2>1. ASSUME NEW p \in (1..n) \X Seq(S) PROVE p[2] \o seqs[p[1]] \in Seq(S)
    BY <1>2, ConcatProperties
  <2> QED
    BY <2>1
<1>4. \A i \in 1..n, words \in Seq(S) : step[<<i, words>>] = words \o seqs[i]
  OBVIOUS
<1>5. FlattenSeq(seqs) = flat[n]
  BY <1>1 DEF FlattenSeq
<1> HIDE DEF step, n
<1>6. seqs[1] \in Seq(S) /\ 1 <= n /\ 1 \in {0, 1}
  BY <1>1, <1>2
<1>7. PICK f \in [1..n -> Seq(S)] :
        f[1] = seqs[1] /\ \A i \in 1 + 1 .. n : f[i] = step[<<i, f[i - 1]>>]
  <2>1. Runs(1, n, Seq(S), seqs[1], step) # {}
    BY <1>1, <1>3, <1>6, Recursion
  <2> QED
    BY <2>1 DEF Runs
<1>8. \A i \in 2..n : f[i] = f[i - 1] \o seqs[i]
  <2>1. ASSUME NEW i \in 2..n PROVE f[i] = f[i - 1] \o seqs[i]
    <3>1. i \in 1 + 1 .. n /\ i \in 1..n /\ i - 1 \in 1..n
      BY <1>1, <2>1
    <3> QED
      BY <1>4, <1>7, <3>1
  <2> QED
    BY <2>1
<1>9. f = [i \in 1..n |-> IF i = 1 THEN seqs[i] ELSE f[i - 1] \o seqs[i]]
  <2>1. ASSUME NEW i \in 1..n, i # 1 PROVE i \in 2..n
    BY <1>1, <2>1
  <2> QED
    BY <1>7, <1>8, <2>1
<1>10. flat = [i \in 1..n |-> IF i = 1 THEN seqs[i] ELSE flat[i - 1] \o seqs[i]]
  BY <1>9
<1> HIDE DEF flat
<1>11. flat[1] = seqs[1] /\ \A i \in 2..n : flat[i] = flat[i - 1] \o seqs[i]
  <2>1. 1 \in 1..n /\ \A i \in 2..n : i \in 1..n /\ i # 1
    BY <1>1
  <2> QED
    BY <1>10, <2>1
<1>12. \A i \in 1..n : flat[i] = f[i]
  <2> DEFINE T == {k \in Nat : k \in 1..n => flat[k] = f[k]}
  <2>1. 0 \in T
    OBVIOUS
  <2>2. ASSUME NEW k \in Nat, k \in T PROVE k + 1 \in T
    <3>1. SUFFICES ASSUME k + 1 \in 1..n PROVE flat[k + 1] = f[k + 1]
      OBVIOUS
    <3>2. CASE k = 0
      BY <1>7, <1>11, <3>2
    <3>3. CASE k # 0
      <4>1. k + 1 \in 2..n /\ k \in 1..n /\ (k + 1) - 1 = k
        BY <1>1, <3>1, <3>3
      <4>2. flat[k] = f[k]
        BY <2>2, <4>1
      <4> QED
        BY <1>8, <1>11, <4>1, <4>2
    <3> QED
      BY <3>2, <3>3
  <2> HIDE DEF T
  <2>3. Nat \subseteq T
    BY <2>1, <2>2, Induction
  <2> QED
    BY <1>1, <2>3 DEF T
<1>13. FlattenSeq(seqs) = f[n]
  BY <1>1, <1>5, <1>12
<1>14. f \in Flattenings(n, S, seqs)
  BY <1>7, <1>8 DEF Flattenings
<1> QED
  BY <1>13, <1>14 DEF n

\* The words of some sequences of words, one sequence after the other.
LEMMA FlattenType ==
  ASSUME NEW S, NEW seqs \in Seq(Seq(S))
  PROVE  FlattenSeq(seqs) \in Seq(S)
<1>1. CASE seqs = <<>>
  <2>1. FlattenSeq(seqs) = seqs
    BY <1>1 DEF FlattenSeq
  <2> QED
    BY <1>1, <2>1, EmptySeq
<1>2. CASE seqs # <<>>
  <2>1. PICK f \in Flattenings(Len(seqs), S, seqs) : FlattenSeq(seqs) = f[Len(seqs)]
    BY <1>2, FlattenUnfolds
  <2>2. Len(seqs) \in 1..Len(seqs)
    BY <1>2, EmptySeq
  <2> QED
    BY <2>1, <2>2 DEF Flattenings
<1> QED
  BY <1>1, <1>2

\* The first of some sequences, and then the others.
LEMMA FlattenCons ==
  ASSUME NEW S, NEW seqs \in Seq(Seq(S)), seqs # <<>>
  PROVE  FlattenSeq(seqs) = Head(seqs) \o FlattenSeq(Tail(seqs))
<1> DEFINE n == Len(seqs)
           others == Tail(seqs)
<1>1. /\ n \in Nat /\ n # 0 /\ Head(seqs) = seqs[1] /\ seqs[1] \in Seq(S)
      /\ others \in Seq(Seq(S)) /\ Len(others) = n - 1
      /\ \A i \in 1 .. n - 1 : others[i] = seqs[i + 1] /\ others[i] \in Seq(S)
  <2>1. n \in Nat /\ n # 0
    BY EmptySeq
  <2> QED
    BY <2>1, HeadTailProperties
<1>2. PICK f \in Flattenings(n, S, seqs) : FlattenSeq(seqs) = f[n]
  BY FlattenUnfolds
<1>3. /\ f \in [1..n -> Seq(S)] /\ f[1] = seqs[1]
      /\ \A i \in 2..n : f[i] = f[i - 1] \o seqs[i]
  BY <1>2 DEF Flattenings
<1> HIDE DEF n, others
<1>4. CASE n = 1
  <2>1. others = <<>>
    BY <1>1, <1>4, EmptySeq
  <2>2. FlattenSeq(others) = <<>>
    <3>1. Len(others) = 0
      BY <1>1, <1>4
    <3> QED
      BY <2>1, <3>1 DEF FlattenSeq
  <2>3. seqs[1] \o <<>> = seqs[1]
    BY <1>1, ConcatEmptySeq
  <2> QED
    BY <1>1, <1>2, <1>3, <1>4, <2>2, <2>3 DEF others
<1>5. CASE n # 1
  <2> DEFINE m == n - 1
  <2>1. m \in Nat /\ m # 0 /\ others # <<>> /\ Len(others) = m
    BY <1>1, <1>5, EmptySeq
  <2>2. PICK g \in Flattenings(m, S, others) : FlattenSeq(others) = g[m]
    BY <1>1, <2>1, FlattenUnfolds
  <2>3. /\ g \in [1..m -> Seq(S)] /\ g[1] = others[1]
        /\ \A i \in 2..m : g[i] = g[i - 1] \o others[i]
    BY <2>2 DEF Flattenings
  <2> DEFINE Alike(k) == f[k + 1] = seqs[1] \o g[k]
             T == {k \in Nat : k \in 1..m => Alike(k)}
  <2> HIDE DEF Alike
  <2>4. 0 \in T
    OBVIOUS
  <2>5. ASSUME NEW k \in Nat, k \in T PROVE k + 1 \in T
    <3>1. SUFFICES ASSUME k + 1 \in 1..m PROVE Alike(k + 1)
      OBVIOUS
    <3>2. /\ (k + 1) + 1 \in 2..n /\ ((k + 1) + 1) - 1 = k + 1
          /\ k + 1 \in 1 .. n - 1
      BY <1>1, <3>1
    <3>3. f[(k + 1) + 1] = f[k + 1] \o others[k + 1]
      BY <1>1, <1>3, <3>2
    <3>4. CASE k = 0
      <4>1. f[k + 1] = seqs[1] /\ g[k + 1] = others[k + 1]
        BY <1>3, <2>3, <3>4
      <4> QED
        BY <3>3, <4>1 DEF Alike
    <3>5. CASE k # 0
      <4>1. k \in 1..m /\ k + 1 \in 2..m /\ (k + 1) - 1 = k
        BY <2>1, <3>1, <3>5
      <4>2. f[k + 1] = seqs[1] \o g[k]
        BY <2>5, <4>1 DEF Alike
      <4>3. g[k + 1] = g[k] \o others[k + 1]
        BY <2>3, <4>1
      <4>4. g[k] \in Seq(S) /\ others[k + 1] \in Seq(S)
        BY <1>1, <2>3, <3>2, <4>1
      <4>5. (seqs[1] \o g[k]) \o others[k + 1] = seqs[1] \o (g[k] \o others[k + 1])
        <5>1. seqs[1] \in Seq(S)
          BY <1>1
        <5>2. \A a, b, c \in Seq(S) : (a \o b) \o c = a \o (b \o c)
          BY ConcatAssociative
        <5> QED
          BY <4>4, <5>1, <5>2, Zenon
      <4> QED
        BY <3>3, <4>2, <4>3, <4>5 DEF Alike
    <3> QED
      BY <3>4, <3>5
  <2> HIDE DEF T, m
  <2>6. m \in T
    BY <2>1, <2>4, <2>5, Induction
  <2>7. f[m + 1] = seqs[1] \o g[m]
    <3>1. m \in 1..m
      BY <2>1
    <3> QED
      BY <2>6, <3>1 DEF T, Alike
  <2>8. m + 1 = n
    BY <1>1 DEF m
  <2> QED
    BY <1>1, <1>2, <2>2, <2>7, <2>8 DEF others
<1> QED
  BY <1>4, <1>5

-----------------------------------------------------------------------------
(***************************************************************************)
(* split_foreach.                                                          *)
(***************************************************************************)
\* The longest pieces of a text without a delimiter, by their places.
IsPiece(text, d, i, j) ==
  /\ i <= j /\ \A k \in i..j : text[k] # d
  /\ i > 1 => text[i - 1] = d
  /\ j < Len(text) => text[j + 1] = d

\* What the loop has called back when n places are done: the pieces that have ended, and
\* the empty text before a delimiter that comes first.
EndedPiece(text, d, n, x) ==
  \E i, j \in 1 .. Len(text) : j < n /\ IsPiece(text, d, i, j) /\ x = SubSeq(text, i, j)

Found(text, d, n) ==
  {x \in Seq(STRING) :
     EndedPiece(text, d, n, x) \/ (x = <<>> /\ n >= 1 /\ text[1] = d)}

LastDelimiter(text, d, n, last) ==
  /\ last \in 0..n
  /\ last # 0 => text[last] = d
  /\ \A k \in last + 1 .. n : text[k] # d

States(text) == [tokens : Seq(Seq(STRING)), last : 0 .. Len(text)]

Scanned(text, d, n, state) ==
  /\ state \in States(text)
  /\ LastDelimiter(text, d, n, state.last)
  /\ ToSet(state.tokens) = Found(text, d, n)

\* One turn of the loop.
Turned(text, d, i, before) ==
  CASE text[i] # d -> before
    [] text[i] = d /\ i > 1 /\ text[i - 1] = d -> [before EXCEPT !.last = i]
    [] OTHER -> [tokens |-> Append(before.tokens, SubSeq(text, before.last + 1, i - 1)),
                 last |-> i]

LEMMA SetOfAppend ==
  ASSUME NEW S, NEW list \in Seq(S), NEW x
  PROVE  ToSet(Append(list, x)) = ToSet(list) \cup {x}
<1>1. /\ Len(list) \in Nat /\ DOMAIN list = 1..Len(list)
      /\ DOMAIN Append(list, x) = 1..Len(list) + 1
      /\ \A i \in 1..Len(list) : Append(list, x)[i] = list[i]
      /\ Append(list, x)[Len(list) + 1] = x
  OBVIOUS
<1> DEFINE t == Append(list, x)
           n == Len(list)
<1>2. /\ n \in Nat /\ DOMAIN list = 1..n /\ DOMAIN t = 1..n + 1
      /\ \A i \in 1..n : t[i] = list[i]
      /\ t[n + 1] = x
  BY <1>1
<1> HIDE DEF t, n
<1>3. /\ \A i \in 1..n : i \in 1..n + 1
      /\ n + 1 \in 1..n + 1
      /\ \A i \in 1..n + 1 : i \in 1..n \/ i = n + 1
  BY <1>2
<1>4. {t[i] : i \in 1..n + 1} = {list[i] : i \in 1..n} \cup {x}
  BY <1>2, <1>3
<1> QED
  BY <1>2, <1>4 DEF ToSet, t

\* The empty part of a text.
LEMMA NoPart ==
  ASSUME NEW text \in Seq(STRING), NEW i \in 1 .. Len(text) + 1
  PROVE  SubSeq(text, i, i - 1) = <<>>
<1>1. SubSeq(text, i, i - 1) \in Seq(STRING) /\ Len(SubSeq(text, i, i - 1)) = 0
  BY SubSeqProperties
<1> QED
  BY <1>1

LEMMA PartType ==
  ASSUME NEW text \in Seq(STRING), NEW i \in 1 .. Len(text) + 1, NEW j \in 0 .. Len(text)
  PROVE  SubSeq(text, i, j) \in Seq(STRING)
OBVIOUS

\* If no piece ends before place i, nothing new is found there.
LEMMA NothingEnds ==
  ASSUME NEW text \in Seq(STRING), NEW d, NEW i \in 1..Len(text),
         \A a, b \in 1..Len(text) : IsPiece(text, d, a, b) => b # i - 1,
         i = 1 => text[1] # d
  PROVE  Found(text, d, i) = Found(text, d, i - 1)
<1>1. Len(text) \in Nat
  OBVIOUS
<1>2. \A b \in 1..Len(text) : b # i - 1 => (b < i <=> b < i - 1)
  BY <1>1
<1>3. \A x : EndedPiece(text, d, i, x) <=> EndedPiece(text, d, i - 1, x)
  BY <1>2, Zenon DEF EndedPiece
<1>4. (i >= 1 /\ text[1] = d) <=> (i - 1 >= 1 /\ text[1] = d)
  BY <1>1
<1> QED
  BY <1>3, <1>4, Zenon DEF Found

\* A turn keeps what the loop has found.
LEMMA TurnKeeps ==
  ASSUME NEW text \in Seq(STRING), NEW d, NEW i \in 1..Len(text),
         NEW state, Scanned(text, d, i - 1, state)
  PROVE  Scanned(text, d, i, Turned(text, d, i, state))
<1>1. /\ Len(text) \in Nat /\ DOMAIN text = 1..Len(text)
      /\ state.tokens \in Seq(Seq(STRING)) /\ state.last \in 0..i - 1
      /\ state.last # 0 => text[state.last] = d
      /\ \A k \in state.last + 1 .. i - 1 : text[k] # d
      /\ ToSet(state.tokens) = Found(text, d, i - 1)
      /\ state = [tokens |-> state.tokens, last |-> state.last]
  BY DEF Scanned, States, LastDelimiter
<1>2. CASE text[i] # d
  <2>1. Turned(text, d, i, state) = state
    BY <1>2 DEF Turned
  <2>2. LastDelimiter(text, d, i, state.last)
    BY <1>1, <1>2 DEF LastDelimiter
  <2>3. ASSUME NEW a \in 1..Len(text), NEW b \in 1..Len(text), IsPiece(text, d, a, b)
        PROVE  b # i - 1
    BY <1>1, <1>2, <2>3 DEF IsPiece
  <2>4. Found(text, d, i) = Found(text, d, i - 1)
    BY <1>2, <2>3, NothingEnds
  <2> QED
    BY <1>1, <2>1, <2>2, <2>4 DEF Scanned
<1>3. CASE text[i] = d /\ i > 1 /\ text[i - 1] = d
  <2>1. Turned(text, d, i, state) = [state EXCEPT !.last = i]
    BY <1>3 DEF Turned
  <2>2. Turned(text, d, i, state) = [tokens |-> state.tokens, last |-> i]
    BY <1>1, <2>1
  <2>3. LastDelimiter(text, d, i, i)
    BY <1>1, <1>3 DEF LastDelimiter
  <2>4. ASSUME NEW a \in 1..Len(text), NEW b \in 1..Len(text), IsPiece(text, d, a, b)
        PROVE  b # i - 1
    <3>1. b \in a..b
      BY <1>1, <2>4 DEF IsPiece
    <3>2. text[b] # d
      BY <2>4, <3>1 DEF IsPiece
    <3> QED
      BY <1>3, <3>2
  <2>5. Found(text, d, i) = Found(text, d, i - 1)
    BY <1>3, <2>4, NothingEnds
  <2>6. [tokens |-> state.tokens, last |-> i] \in States(text)
    BY <1>1 DEF States
  <2> QED
    BY <1>1, <2>2, <2>3, <2>5, <2>6 DEF Scanned
<1>4. CASE text[i] = d /\ ~(i > 1 /\ text[i - 1] = d)
  <2> DEFINE t == SubSeq(text, state.last + 1, i - 1)
             new == [tokens |-> Append(state.tokens, t), last |-> i]
  <2>1. Turned(text, d, i, state) = new
    BY <1>4 DEF Turned
  <2>2. t \in Seq(STRING)
    <3>1. state.last + 1 \in 1 .. Len(text) + 1 /\ i - 1 \in 0 .. Len(text)
      BY <1>1
    <3> QED
      BY <3>1, PartType
  <2>3. LastDelimiter(text, d, i, i)
    BY <1>1, <1>4 DEF LastDelimiter
  <2>4. new \in States(text)
    BY <1>1, <2>2 DEF States
  <2>5. ToSet(Append(state.tokens, t)) = Found(text, d, i - 1) \cup {t}
    BY <1>1, SetOfAppend
  <2>6. Found(text, d, i) = Found(text, d, i - 1) \cup {t}
    <3>1. CASE i = 1
      <4>1. state.last = 0
        BY <1>1, <3>1
      <4>2. t = <<>>
        <5>1. 1 \in 1 .. Len(text) + 1 /\ t = SubSeq(text, 1, 1 - 1)
          BY <1>1, <3>1, <4>1
        <5> QED
          BY <5>1, NoPart
      <4>3. \A x : ~EndedPiece(text, d, 1, x) /\ ~EndedPiece(text, d, 0, x)
        BY <1>1 DEF EndedPiece
      <4> HIDE DEF t
      <4>4. Found(text, d, 1) = {<<>>} /\ Found(text, d, 0) = {}
        <5>1. text[1] = d /\ <<>> \in Seq(STRING)
          BY <1>4, <3>1
        <5>2. ASSUME NEW x PROVE x \in Found(text, d, 1) <=> x = <<>>
          <6>1. ~EndedPiece(text, d, 1, x) /\ 1 >= 1
            BY <4>3
          <6> QED
            BY <5>1, <6>1, Zenon DEF Found
        <5>3. \A x : x \notin Found(text, d, 0)
          BY <4>3 DEF Found
        <5> QED
          BY <5>2, <5>3
      <4> QED
        BY <3>1, <4>2, <4>4
    <3>2. CASE i > 1
      <4> DEFINE a == state.last + 1
      <4>1. text[i - 1] # d
        BY <1>4, <3>2
      <4>2. state.last # i - 1
        BY <1>1, <3>2, <4>1
      <4>3. a \in 1..i - 1 /\ a \in 1..Len(text) /\ i - 1 \in 1..Len(text) /\ i - 1 < i
        BY <1>1, <3>2, <4>2
      <4>4. IsPiece(text, d, a, i - 1)
        BY <1>1, <1>4, <4>3 DEF IsPiece
      <4>5. ASSUME NEW b \in 1..Len(text), IsPiece(text, d, b, i - 1)
            PROVE  b = a
        <5>1. CASE b < a
          <6>1. state.last \in b..i - 1 /\ state.last # 0
            BY <1>1, <4>3, <4>5, <5>1
          <6> QED
            BY <1>1, <4>5, <6>1 DEF IsPiece
        <5>2. CASE b > a
          <6>1. b <= i - 1
            BY <4>5 DEF IsPiece
          <6>2. b - 1 \in state.last + 1 .. i - 1 /\ b > 1
            BY <1>1, <4>3, <5>2, <6>1
          <6> QED
            BY <1>1, <4>5, <6>2 DEF IsPiece
        <5> QED
          BY <1>1, <4>3, <5>1, <5>2
      <4>6. ASSUME NEW x
            PROVE  EndedPiece(text, d, i, x) <=> EndedPiece(text, d, i - 1, x) \/ x = t
        <5> HIDE DEF a
        <5>1. t = SubSeq(text, a, i - 1)
          BY DEF a
        <5> HIDE DEF t
        <5>2. \A b \in 1..Len(text) : b < i <=> b < i - 1 \/ b = i - 1
          BY <1>1
        <5>3. x = t => EndedPiece(text, d, i, x)
          BY <4>3, <4>4, <5>1 DEF EndedPiece
        <5>4. EndedPiece(text, d, i - 1, x) => EndedPiece(text, d, i, x)
          BY <5>2, Zenon DEF EndedPiece
        <5>5. ASSUME EndedPiece(text, d, i, x)
              PROVE  EndedPiece(text, d, i - 1, x) \/ x = t
          <6>1. PICK b, c \in 1..Len(text) :
                  c < i /\ IsPiece(text, d, b, c) /\ x = SubSeq(text, b, c)
            BY <5>5 DEF EndedPiece
          <6>2. CASE c = i - 1
            BY <4>5, <5>1, <6>1, <6>2
          <6>3. CASE c # i - 1
            <7>1. c < i - 1
              BY <5>2, <6>1, <6>3
            <7> QED
              BY <6>1, <7>1 DEF EndedPiece
          <6> QED
            BY <6>2, <6>3
        <5> QED
          BY <5>3, <5>4, <5>5
      <4>7. (i >= 1 /\ text[1] = d) <=> (i - 1 >= 1 /\ text[1] = d)
        BY <1>1, <3>2
      <4> HIDE DEF t, a
      <4> QED
        BY <2>2, <4>6, <4>7, Zenon DEF Found
    <3> QED
      BY <1>1, <3>1, <3>2
  <2> QED
    BY <2>1, <2>3, <2>4, <2>5, <2>6 DEF Scanned
<1> QED
  BY <1>2, <1>3, <1>4

\* The loop of split_foreach finds the pieces, in all of the text.
LEMMA ScanFinds ==
  ASSUME NEW text \in Seq(STRING), NEW d
  PROVE  Scanned(text, d, Len(text), Scan(text, d))
<1> DEFINE n == Len(text)
           S == States(text)
           first == [tokens |-> <<>>, last |-> 0]
           step == [p \in (1..n) \X S |-> Turned(text, d, p[1], p[2])]
           states == CHOOSE state : state = [i \in 0..n |->
             IF i = 0 THEN [tokens |-> <<>>, last |-> 0]
             ELSE LET before == state[i - 1]
                  IN CASE text[i] # d -> before
                       [] text[i] = d /\ i > 1 /\ text[i - 1] = d ->
                            [before EXCEPT !.last = i]
                       [] OTHER ->
                            [tokens |-> Append(before.tokens,
                                               SubSeq(text, before.last + 1, i - 1)),
                             last |-> i]]
<1>1. n \in Nat /\ first \in S
  BY DEF States
<1>2. ASSUME NEW i \in 1..n, NEW state \in S PROVE Turned(text, d, i, state) \in S
  <2>1. /\ state.tokens \in Seq(Seq(STRING)) /\ state.last \in 0..n
        /\ state = [tokens |-> state.tokens, last |-> state.last]
    BY DEF States
  <2>2. state.last + 1 \in 1 .. n + 1 /\ i - 1 \in 0..n /\ i \in 0..n
    BY <1>1, <2>1
  <2>3. SubSeq(text, state.last + 1, i - 1) \in Seq(STRING)
    BY <2>2, PartType
  <2> HIDE DEF n
  <2>4. Append(state.tokens, SubSeq(text, state.last + 1, i - 1)) \in Seq(Seq(STRING))
    BY <2>1, <2>3
  <2>5. /\ [state EXCEPT !.last = i] \in S
        /\ [tokens |-> Append(state.tokens, SubSeq(text, state.last + 1, i - 1)), last |-> i] \in S
    BY <2>1, <2>2, <2>4 DEF States, n
  <2> QED
    BY <2>5 DEF Turned
<1>3. step \in [(1..n) \X S -> S]
  <2>1. ASSUME NEW p \in (1..n) \X S PROVE Turned(text, d, p[1], p[2]) \in S
    BY <1>2
  <2> QED
    BY <2>1
<1>4. \A i \in 1..n, state \in S : step[<<i, state>>] = Turned(text, d, i, state)
  OBVIOUS
<1> HIDE DEF step, S, n, first
<1>5. Runs(0, n, S, first, step) # {}
  <2>1. 0 \in {0, 1} /\ 0 <= n
    BY <1>1
  <2> QED
    BY <1>1, <1>3, <2>1, Recursion
<1>6. PICK f \in [0..n -> S] :
        f[0] = first /\ \A i \in 0 + 1 .. n : f[i] = step[<<i, f[i - 1]>>]
  BY <1>5 DEF Runs
<1>7. ASSUME NEW i \in 0..n
      PROVE  f[i] = IF i = 0 THEN first ELSE Turned(text, d, i, f[i - 1])
  <2>1. CASE i = 0
    BY <1>6, <2>1
  <2>2. CASE i # 0
    <3>1. i \in 0 + 1 .. n /\ i \in 1..n /\ i - 1 \in 0..n
      BY <1>1, <2>2
    <3>2. f[i - 1] \in S
      BY <3>1
    <3> QED
      BY <1>4, <1>6, <2>2, <3>1, <3>2
  <2> QED
    BY <2>1, <2>2
<1>8. f = [i \in 0..n |-> IF i = 0 THEN first ELSE Turned(text, d, i, f[i - 1])]
  BY <1>7
<1>9. states = [i \in 0..n |-> IF i = 0 THEN first ELSE Turned(text, d, i, states[i - 1])]
  BY <1>8, Zenon DEF Turned, first
<1>10. Scan(text, d) = states[n]
  BY Zenon DEF Scan, n
<1> HIDE DEF states
<1> DEFINE T == {i \in Nat : i <= n => Scanned(text, d, i, states[i])}
<1>11. 0 \in T
  <2>1. states[0] = first
    BY <1>1, <1>9
  <2>2. first.tokens = <<>> /\ first.last = 0
    BY DEF first
  <2>3. ToSet(first.tokens) = {}
    BY <2>2 DEF ToSet
  <2>4. Found(text, d, 0) = {}
    <3>1. \A x : ~EndedPiece(text, d, 0, x)
      BY DEF EndedPiece
    <3> QED
      BY <3>1 DEF Found
  <2>5. LastDelimiter(text, d, 0, 0)
    BY DEF LastDelimiter
  <2> QED
    BY <1>1, <2>1, <2>2, <2>3, <2>4, <2>5 DEF Scanned, S
<1>12. ASSUME NEW i \in Nat, i \in T PROVE i + 1 \in T
  <2>1. SUFFICES ASSUME i + 1 <= n PROVE Scanned(text, d, i + 1, states[i + 1])
    OBVIOUS
  <2>2. i + 1 \in 0..n /\ i + 1 # 0 /\ (i + 1) - 1 = i /\ i <= n /\ i + 1 \in 1..Len(text)
    BY <1>1, <2>1 DEF n
  <2>3. states[i + 1] = Turned(text, d, i + 1, states[i])
    BY <1>9, <2>2
  <2>4. Scanned(text, d, i, states[i])
    BY <1>12, <2>2
  <2> QED
    BY <2>2, <2>3, <2>4, TurnKeeps
<1> HIDE DEF T
<1>13. n \in T
  BY <1>1, <1>11, <1>12, Induction
<1> QED
  BY <1>1, <1>10, <1>13 DEF T, n

\* split_foreach calls back the pieces between delimiters, and an empty text where the
\* text begins or ends with a delimiter or is itself empty.
LEMMA TokensAre ==
  ASSUME NEW text \in Seq(STRING), NEW d
  PROVE  /\ Tokens(text, d) \in Seq(Seq(STRING))
         /\ ToSet(Tokens(text, d))
              = Listed(text, d) \cup {entry \in {<<>>} : Stray(text, d)}
<1> DEFINE n == Len(text)
           state == Scan(text, d)
           t == SubSeq(text, state.last + 1, n)
<1>1. /\ n \in Nat /\ DOMAIN text = 1..n
      /\ state.tokens \in Seq(Seq(STRING)) /\ state.last \in 0..n
      /\ state.last # 0 => text[state.last] = d
      /\ \A k \in state.last + 1 .. n : text[k] # d
      /\ ToSet(state.tokens) = Found(text, d, n)
  BY ScanFinds DEF Scanned, States, LastDelimiter
<1>2. t \in Seq(STRING)
  <2>1. state.last + 1 \in 1 .. Len(text) + 1 /\ n \in 0 .. Len(text)
    BY <1>1
  <2> QED
    BY <2>1, PartType
<1>3. Tokens(text, d) = Append(state.tokens, t)
  BY DEF Tokens
<1> DEFINE AtEnd(x) == \E i \in 1..n : IsPiece(text, d, i, n) /\ x = SubSeq(text, i, n)
<1>4. ASSUME NEW x
      PROVE  x \in Listed(text, d) <=> EndedPiece(text, d, n, x) \/ AtEnd(x)
  <2> HIDE DEF n
  <2>1. x \in Listed(text, d) <=>
          \E i, j \in 1..n : IsPiece(text, d, i, j) /\ x = SubSeq(text, i, j)
    <3>1. DOMAIN text = 1..n /\ Len(text) = n
      BY <1>1 DEF n
    <3> DEFINE Parts(i) == {SubSeq(text, i, j) : j \in {j \in 1..n : IsPiece(text, d, i, j)}}
    <3>2. Listed(text, d) = UNION {Parts(i) : i \in 1..n}
      BY <3>1 DEF Listed, IsPiece
    <3>3. \A i : x \in Parts(i) <=>
                   \E j \in 1..n : IsPiece(text, d, i, j) /\ x = SubSeq(text, i, j)
      OBVIOUS
    <3> HIDE DEF Parts
    <3>4. x \in Listed(text, d) <=> \E i \in 1..n : x \in Parts(i)
      BY <3>2, Zenon
    <3> QED
      BY <3>3, <3>4, Zenon
  <2>2. \A j \in 1..n : j < n \/ j = n
    <3>1. n \in Nat
      BY <1>1 DEF n
    <3> QED
      BY <3>1
  <2>3. ASSUME NEW i \in 1..n PROVE n \in 1..n
    <3>1. n \in Nat
      BY <1>1 DEF n
    <3> QED
      BY <3>1
  <2>4. Len(text) = n
    BY DEF n
  <2>5. EndedPiece(text, d, n, x) <=>
          \E i, j \in 1..n : j < n /\ IsPiece(text, d, i, j) /\ x = SubSeq(text, i, j)
    BY <2>4, Zenon DEF EndedPiece
  <2> QED
    BY <2>1, <2>2, <2>3, <2>5, Zenon
<1>5. CASE state.last < n
  <2>1. IsPiece(text, d, state.last + 1, n) /\ state.last + 1 \in 1..n
    BY <1>1, <1>5 DEF IsPiece
  <2>2. ASSUME NEW i \in 1..n, IsPiece(text, d, i, n) PROVE i = state.last + 1
    <3>1. CASE i < state.last + 1
      <4>1. state.last \in i..n /\ state.last # 0
        BY <1>1, <3>1
      <4> QED
        BY <1>1, <2>2, <4>1 DEF IsPiece
    <3>2. CASE i > state.last + 1
      <4>1. i - 1 \in state.last + 1 .. n /\ i > 1
        BY <1>1, <3>2
      <4> QED
        BY <1>1, <2>2, <4>1 DEF IsPiece
    <3> QED
      BY <1>1, <3>1, <3>2
  <2>3. \A x : AtEnd(x) <=> x = t
    BY <2>1, <2>2
  <2>4. Stray(text, d) <=> n >= 1 /\ text[1] = d
    <3>1. text[n] # d /\ n >= 1
      BY <1>1, <1>5
    <3>2. text # <<>>
      BY <3>1
    <3> QED
      BY <3>1, <3>2 DEF Stray
  <2> HIDE DEF t, n, state, AtEnd
  <2>5. \A x : x \in ToSet(state.tokens) \cup {t}
                <=> x \in Listed(text, d) \/ (x = <<>> /\ Stray(text, d))
    <3>1. <<>> \in Seq(STRING)
      OBVIOUS
    <3>2. \A x : EndedPiece(text, d, n, x) => x \in Seq(STRING)
      <4>1. \A i, j \in 1..Len(text) : i \in 1 .. Len(text) + 1 /\ j \in 0 .. Len(text)
        OBVIOUS
      <4> QED
        BY <4>1, PartType DEF EndedPiece
    <3> QED
      BY <1>1, <1>4, <2>3, <2>4, <3>1, <3>2, Zenon DEF Found
  <2> QED
    BY <1>1, <1>2, <1>3, <2>5, SetOfAppend
<1>6. CASE state.last = n
  <2>1. \A x : ~AtEnd(x)
    <3>1. SUFFICES ASSUME NEW i \in 1..n, IsPiece(text, d, i, n) PROVE FALSE
      OBVIOUS
    <3>2. n \in i..n /\ n # 0
      BY <1>1
    <3> QED
      BY <1>1, <1>6, <3>1, <3>2 DEF IsPiece
  <2>2. t = <<>>
    <3>1. n + 1 \in 1 .. Len(text) + 1 /\ (n + 1) - 1 = n
      BY <1>1
    <3>2. SubSeq(text, n + 1, (n + 1) - 1) = <<>>
      BY <3>1, NoPart
    <3> QED
      BY <1>6, <3>1, <3>2
  <2>3. Stray(text, d)
    <3>1. CASE n = 0
      BY <3>1 DEF Stray
    <3>2. CASE n # 0
      BY <1>1, <1>6, <3>2 DEF Stray
    <3> QED
      BY <3>1, <3>2
  <2> HIDE DEF t, n, state, AtEnd
  <2>4. \A x : x \in ToSet(state.tokens) \cup {t}
                <=> x \in Listed(text, d) \/ (x = <<>> /\ Stray(text, d))
    <3>1. \A x : EndedPiece(text, d, n, x) => x \in Seq(STRING)
      <4>1. \A i, j \in 1..Len(text) : i \in 1 .. Len(text) + 1 /\ j \in 0 .. Len(text)
        OBVIOUS
      <4> QED
        BY <4>1, PartType DEF EndedPiece
    <3> QED
      BY <1>1, <1>4, <2>1, <2>2, <2>3, <3>1, Zenon DEF Found
  <2> QED
    BY <1>1, <1>2, <1>3, <2>4, SetOfAppend
<1> QED
  BY <1>1, <1>5, <1>6
-----------------------------------------------------------------------------
(***************************************************************************)
(* The scanner of numbers.                                                 *)
(***************************************************************************)
\* The first n characters of a text are its leading digits.
Leading(t, n) ==
  /\ n \in 0 .. Len(t) /\ \A k \in 1..n : t[k] \in Digits
  /\ n < Len(t) => t[n + 1] \notin Digits

LEMMA LeadingExists ==
  ASSUME NEW t \in Seq(Characters)
  PROVE  {n \in Nat : Leading(t, n)} # {}
<1>1. Len(t) \in Nat
  OBVIOUS
<1>2. SUFFICES ASSUME \A n \in Nat : ~Leading(t, n) PROVE FALSE
  OBVIOUS
<1> DEFINE U == {n \in Nat : n <= Len(t) /\ \A k \in 1..n : t[k] \in Digits}
<1>3. 0 \in U
  BY <1>1
<1>4. ASSUME NEW n \in Nat, n \in U PROVE n + 1 \in U
  <2>1. ~Leading(t, n) /\ n \in 0 .. Len(t) /\ \A k \in 1..n : t[k] \in Digits
    BY <1>1, <1>2, <1>4
  <2>2. n < Len(t) /\ t[n + 1] \in Digits
    BY <2>1 DEF Leading
  <2> QED
    BY <1>1, <2>1, <2>2
<1> HIDE DEF U
<1>5. Len(t) + 1 \in U
  BY <1>1, <1>3, <1>4, Induction
<1> QED
  BY <1>1, <1>5 DEF U

LEMMA UndigitedIs ==
  ASSUME NEW t \in Seq(Characters), NEW n, Leading(t, n)
  PROVE  Undigited(t) = SubSeq(t, n + 1, Len(t))
<1> DEFINE starts == {m \in 0 .. Len(t) : \A k \in 1..m : t[k] \in Digits}
           most == CHOOSE i \in starts : \A m \in starts : m <= i
<1>1. Len(t) \in Nat /\ n \in 0 .. Len(t)
  BY DEF Leading
<1>2. n \in starts
  BY DEF Leading
<1>3. ASSUME NEW m \in starts PROVE m <= n
  <2>1. SUFFICES ASSUME m > n PROVE FALSE
    BY <1>1
  <2>2. n + 1 \in 1..m /\ n < Len(t)
    BY <1>1, <2>1
  <2> QED
    BY <1>3, <2>2 DEF Leading
<1>4. ASSUME NEW i \in starts, \A m \in starts : m <= i PROVE i = n
  BY <1>1, <1>2, <1>3, <1>4
<1> HIDE DEF starts
<1>5. most = n
  BY <1>2, <1>3, <1>4
<1> QED
  BY <1>5, Zenon DEF Undigited, starts

LEMMA Within ==
  ASSUME NEW n \in Nat, NEW m \in 0..n
  PROVE  /\ m = n \/ m < n
         /\ (IF m + 1 <= n THEN n - (m + 1) + 1 ELSE 0) = n - m
OBVIOUS

\* A text without its leading digits: where it is cut, and that it is cut
\* nowhere else.
LEMMA Cut ==
  ASSUME NEW t \in Seq(Characters)
  PROVE  /\ Undigited(t) \in Seq(Characters)
         /\ ~Starts(Undigited(t), Digits)
         /\ Starts(t, Digits) =>
              \E n \in 0 .. Len(t) :
                /\ IsDigits(SubSeq(t, 1, n))
                /\ Undigited(t) = SubSeq(t, n + 1, Len(t))
         /\ \A n \in 0 .. Len(t) :
              IsDigits(SubSeq(t, 1, n)) /\ ~Starts(SubSeq(t, n + 1, Len(t)), Digits)
                => Undigited(t) = SubSeq(t, n + 1, Len(t)) /\ Starts(t, Digits)
         /\ IsDigits(t) <=> t # <<>> /\ Undigited(t) = <<>>
<1> DEFINE Rest(n) == SubSeq(t, n + 1, Len(t))
<1>1. Len(t) \in Nat /\ DOMAIN t = 1..Len(t) /\ \A k \in 1..Len(t) : t[k] \in Characters
  OBVIOUS
<1>2. ASSUME NEW n \in 0 .. Len(t)
      PROVE  /\ Rest(n) \in Seq(Characters)
             /\ n = Len(t) => Rest(n) = <<>>
             /\ n < Len(t) => Rest(n) # <<>> /\ Head(Rest(n)) = t[n + 1]
  <2>1. Rest(n) \in Seq(Characters) /\ Len(Rest(n)) = Len(t) - n
    <3>1. n + 1 \in 1 .. Len(t) + 1 /\ Len(t) \in n .. Len(t)
      BY <1>1
    <3>2. /\ SubSeq(t, n + 1, Len(t)) \in Seq(Characters)
          /\ Len(SubSeq(t, n + 1, Len(t))) =
               IF n + 1 <= Len(t) THEN Len(t) - (n + 1) + 1 ELSE 0
      BY <1>1, <3>1, SubSeqProperties
    <3>3. (IF n + 1 <= Len(t) THEN Len(t) - (n + 1) + 1 ELSE 0) = Len(t) - n
      BY <1>1, Within, Zenon
    <3> DEFINE length == Len(SubSeq(t, n + 1, Len(t)))
               l == IF n + 1 <= Len(t) THEN Len(t) - (n + 1) + 1 ELSE 0
    <3>4. length = l
      BY <3>2
    <3>5. l = Len(t) - n
      BY <3>3
    <3> HIDE DEF l
    <3>6. length = Len(t) - n
      BY <3>4, <3>5
    <3> QED
      BY <3>2, <3>6
  <2>2. n < Len(t) => Rest(n)[1] = t[n + 1]
    BY <1>1
  <2> HIDE DEF Rest
  <2>3. n < Len(t) => Rest(n) # <<>>
    BY <1>1, <2>1
  <2>4. n = Len(t) => Rest(n) = <<>>
    BY <1>1, <2>1
  <2> QED
    BY <2>1, <2>2, <2>3, <2>4
<1>3. ASSUME NEW n \in 0 .. Len(t)
      PROVE  IsDigits(SubSeq(t, 1, n)) <=> n > 0 /\ \A k \in 1..n : t[k] \in Digits
  <2> DEFINE first == SubSeq(t, 1, n)
  <2>1. first \in Seq(Characters) /\ Len(first) = n /\ \A k \in 1..n : first[k] = t[k]
    BY <1>1
  <2>2. DOMAIN first = 1..n
    BY <2>1
  <2> HIDE DEF first
  <2>3. first # <<>> <=> n > 0
    BY <2>1
  <2> QED
    BY <2>1, <2>2, <2>3 DEF IsDigits, first
<1>4. PICK m \in Nat : Leading(t, m)
  BY LeadingExists
<1>5. m \in 0 .. Len(t) /\ Undigited(t) = Rest(m)
  BY <1>4, UndigitedIs DEF Leading
<1> HIDE DEF Rest
<1>6. t # <<>> => Len(t) > 0 /\ Head(t) = t[1]
  BY <1>1
<1>7. Starts(t, Digits) <=> m > 0
  <2>1. t = <<>> => Len(t) = 0
    OBVIOUS
  <2>2. m > 0 => t # <<>> /\ t[1] \in Digits
    BY <1>1, <1>4, <1>5, <2>1 DEF Leading
  <2>3. m = 0 => t = <<>> \/ t[1] \notin Digits
    BY <1>1, <1>4, <1>6 DEF Leading
  <2> QED
    BY <1>5, <1>6, <2>2, <2>3 DEF Starts
<1>8. ~Starts(Undigited(t), Digits)
  <2>1. CASE m = Len(t)
    BY <1>2, <1>5, <2>1 DEF Starts
  <2>2. CASE m < Len(t)
    <3>1. Head(Rest(m)) = t[m + 1] /\ t[m + 1] \notin Digits
      BY <1>2, <1>4, <1>5, <2>2 DEF Leading
    <3> QED
      BY <1>5, <3>1 DEF Starts
  <2>3. m = Len(t) \/ m < Len(t)
    BY <1>1, <1>5, Within, Zenon
  <2> QED
    BY <2>1, <2>2, <2>3, Zenon
<1>9. Starts(t, Digits) => IsDigits(SubSeq(t, 1, m))
  BY <1>3, <1>4, <1>5, <1>7 DEF Leading
<1>10. ASSUME NEW n \in 0 .. Len(t), IsDigits(SubSeq(t, 1, n)), ~Starts(Rest(n), Digits)
       PROVE  Undigited(t) = Rest(n) /\ Starts(t, Digits)
  <2>1. n > 0 /\ \A k \in 1..n : t[k] \in Digits
    BY <1>3, <1>10
  <2>2. n < Len(t) => t[n + 1] \notin Digits
    BY <1>2, <1>10 DEF Starts
  <2>3. Leading(t, n)
    BY <2>1, <2>2 DEF Leading
  <2>4. Undigited(t) = Rest(n)
    BY <2>3, UndigitedIs DEF Rest
  <2>5. Starts(t, Digits)
    BY <1>1, <1>6, <2>1 DEF Starts
  <2> QED
    BY <2>4, <2>5
<1>11. IsDigits(t) <=> t # <<>> /\ Undigited(t) = <<>>
  <2>1. m = Len(t) => (IsDigits(t) <=> t # <<>>) /\ Undigited(t) = <<>>
    BY <1>1, <1>2, <1>4, <1>5 DEF Leading, IsDigits
  <2>2. m < Len(t) => ~IsDigits(t) /\ Undigited(t) # <<>>
    <3>1. m < Len(t) => m + 1 \in 1..Len(t) /\ t[m + 1] \notin Digits
      BY <1>1, <1>4, <1>5 DEF Leading
    <3> QED
      BY <1>1, <1>2, <1>5, <3>1 DEF IsDigits
  <2>3. m = Len(t) \/ m < Len(t)
    BY <1>1, <1>5, Within, Zenon
  <2> QED
    BY <2>1, <2>2, <2>3, Zenon
<1> QED
  BY <1>2, <1>5, <1>8, <1>9, <1>10, <1>11 DEF Rest

\* What cannot begin with a digit begins right after the leading ones.
LEMMA SplitsAfterInteger ==
  ASSUME NEW t \in Seq(Characters)
  PROVE  Splits(t, IsDigits, AfterInteger) <=> Starts(t, Digits) /\ AfterInteger(Undigited(t))
<1>1. \A u : AfterInteger(u) => ~Starts(u, Digits)
  BY DEF AfterInteger, Fractional, Exponent, Starts, Digits
<1>2. Splits(t, IsDigits, AfterInteger) <=>
        \E n \in 0 .. Len(t) :
          IsDigits(SubSeq(t, 1, n)) /\ AfterInteger(SubSeq(t, n + 1, Len(t)))
  BY DEF Splits
<1>3. ASSUME NEW n \in 0 .. Len(t), IsDigits(SubSeq(t, 1, n)),
             AfterInteger(SubSeq(t, n + 1, Len(t)))
      PROVE  Starts(t, Digits) /\ AfterInteger(Undigited(t))
  <2>1. ~Starts(SubSeq(t, n + 1, Len(t)), Digits)
    BY <1>1, <1>3, Zenon
  <2>2. Undigited(t) = SubSeq(t, n + 1, Len(t)) /\ Starts(t, Digits)
    BY <1>3, <2>1, Cut, Zenon
  <2> QED
    BY <1>3, <2>2, Zenon
<1>4. ASSUME Starts(t, Digits), AfterInteger(Undigited(t))
      PROVE  Splits(t, IsDigits, AfterInteger)
  <2>1. PICK n \in 0 .. Len(t) :
          IsDigits(SubSeq(t, 1, n)) /\ Undigited(t) = SubSeq(t, n + 1, Len(t))
    BY <1>4, Cut, Zenon
  <2> QED
    BY <1>2, <1>4, <2>1, Zenon
<1> QED
  BY <1>2, <1>3, <1>4, Zenon

LEMMA SplitsExponent ==
  ASSUME NEW t \in Seq(Characters)
  PROVE  Splits(t, IsDigits, ExponentOrNothing)
           <=> Starts(t, Digits) /\ ExponentOrNothing(Undigited(t))
<1>1. \A u : ExponentOrNothing(u) => ~Starts(u, Digits)
  BY DEF ExponentOrNothing, Exponent, Starts, Digits
<1>2. Splits(t, IsDigits, ExponentOrNothing) <=>
        \E n \in 0 .. Len(t) :
          IsDigits(SubSeq(t, 1, n)) /\ ExponentOrNothing(SubSeq(t, n + 1, Len(t)))
  BY DEF Splits
<1>3. ASSUME NEW n \in 0 .. Len(t), IsDigits(SubSeq(t, 1, n)),
             ExponentOrNothing(SubSeq(t, n + 1, Len(t)))
      PROVE  Starts(t, Digits) /\ ExponentOrNothing(Undigited(t))
  <2>1. ~Starts(SubSeq(t, n + 1, Len(t)), Digits)
    BY <1>1, <1>3, Zenon
  <2>2. Undigited(t) = SubSeq(t, n + 1, Len(t)) /\ Starts(t, Digits)
    BY <1>3, <2>1, Cut, Zenon
  <2> QED
    BY <1>3, <2>2, Zenon
<1>4. ASSUME Starts(t, Digits), ExponentOrNothing(Undigited(t))
      PROVE  Splits(t, IsDigits, ExponentOrNothing)
  <2>1. PICK n \in 0 .. Len(t) :
          IsDigits(SubSeq(t, 1, n)) /\ Undigited(t) = SubSeq(t, n + 1, Len(t))
    BY <1>4, Cut, Zenon
  <2> QED
    BY <1>2, <1>4, <2>1, Zenon
<1> QED
  BY <1>2, <1>3, <1>4, Zenon

\* What the rest of the word must be, at each label, for the word to be a value.
Wanted ==
  CASE label = "is_positional"         -> IsValue(s)
    [] label = "is_decimal_literal"    -> Literal(s)
    [] label = "integer_part_consumed" -> AfterInteger(s)
    [] label = "post_decimal_point"    -> Splits(s, IsDigits, ExponentOrNothing)
    [] label = "exponent_part_opt"     -> ExponentOrNothing(s)
    [] label = "post_e"                ->
         IsDigits(s) \/ (Starts(s, Signs) /\ IsDigits(Tail(s)))
    [] OTHER                           -> label = "yes"

ScannerInv ==
  /\ s \in Seq(Characters)
  /\ IsValue(name) <=> Wanted

\* A text by its first character.
LEMMA Heads ==
  ASSUME NEW t \in Seq(Characters)
  PROVE  /\ t # <<>> => Tail(t) \in Seq(Characters) /\ Head(t) \in Characters
         /\ (Len(t) = 1 /\ Head(t) = "0") <=> t = <<"0">>
         /\ (Len(t) = 1 /\ Head(t) = "-") <=> t = <<"-">>
         /\ Len(t) > 1 <=> t # <<>> /\ Tail(t) # <<>>
         /\ Len(t) > 1 => Head(Tail(t)) = t[2]
<1>1. Len(t) \in Nat /\ (t = <<>> <=> Len(t) = 0)
  BY EmptySeq
<1>2. t # <<>> => Tail(t) \in Seq(Characters) /\ Head(t) \in Characters
                  /\ Len(Tail(t)) = Len(t) - 1 /\ Head(t) = t[1]
  OBVIOUS
<1>3. \A c : Len(t) = 1 /\ t[1] = c => t = <<c>>
  OBVIOUS
<1>4. t # <<>> => (Tail(t) = <<>> <=> Len(t) = 1)
  <2>1. SUFFICES ASSUME t # <<>> PROVE Tail(t) = <<>> <=> Len(t) = 1
    OBVIOUS
  <2> DEFINE u == Tail(t)
  <2>2. u \in Seq(Characters) /\ Len(u) = Len(t) - 1
    BY <1>2, <2>1
  <2> HIDE DEF u
  <2>3. Len(<<>>) = 0 /\ (u # <<>> => Len(u) \in Nat \ {0})
    BY <2>2, EmptySeq
  <2>4. u = <<>> <=> Len(u) = 0
    BY <2>3
  <2> QED
    BY <1>1, <2>2, <2>4 DEF u
<1>5. Len(t) > 1 => Head(Tail(t)) = t[2]
  OBVIOUS
<1>6. \A c : <<c>> # <<>> /\ Len(<<c>>) = 1 /\ Head(<<c>>) = c
  OBVIOUS
<1> QED
  BY <1>1, <1>2, <1>3, <1>4, <1>5, <1>6

LEMMA ScannerStep ==
  ASSUME ScannerInv, ScannerNext
  PROVE  ScannerInv'
<1>1. s \in Seq(Characters) /\ (IsValue(name) <=> Wanted)
  BY DEF ScannerInv
<1>2. /\ s # <<>> => Tail(s) \in Seq(Characters) /\ Head(s) \in Characters
      /\ (Len(s) = 1 /\ Head(s) = "0") <=> s = <<"0">>
      /\ (Len(s) = 1 /\ Head(s) = "-") <=> s = <<"-">>
      /\ Len(s) > 1 <=> s # <<>> /\ Tail(s) # <<>>
      /\ Len(s) > 1 => Head(Tail(s)) = s[2]
  BY <1>1, Heads
<1>3. lookahead = IF s = <<>> THEN "eof" ELSE Head(s)
  BY DEF lookahead
<1>4. Undigited(s) \in Seq(Characters) /\ (IsDigits(s) <=> s # <<>> /\ Undigited(s) = <<>>)
  BY <1>1, Cut
<1>5. lookahead \in Digits <=> Starts(s, Digits)
  BY <1>3 DEF Starts, Digits
<1>6. CASE IsPositional
  <2>1. label = "is_positional" /\ name' = name
    BY <1>6 DEF IsPositional, At
  <2>2. CASE lookahead = "-" /\ Len(s) > 1
    <3>1. label' = "is_decimal_literal" /\ s' = Tail(s)
      BY <1>6, <2>2 DEF IsPositional, Goto
    <3>2. IsValue(s) <=> Literal(Tail(s))
      BY <1>2, <1>3, <2>2 DEF IsValue, Starts
    <3> QED
      BY <1>1, <1>2, <2>1, <2>2, <3>1, <3>2 DEF ScannerInv, Wanted
  <2>3. CASE ~(lookahead = "-" /\ Len(s) > 1)
    <3>1. label' = "yes" /\ s' = s
      BY <1>6, <2>3 DEF IsPositional, Finish
    <3>2. IsValue(s)
      <4>1. s # <<>> => Len(s) = 1 \/ Len(s) > 1
        <5>1. Len(s) \in Nat /\ (Len(s) = 0 => s = <<>>)
          BY <1>1
        <5>2. \A l \in Nat : l = 0 \/ l = 1 \/ l > 1
          OBVIOUS
        <5> QED
          BY <5>1, <5>2, Zenon
      <4>2. s \in {<<>>, <<"-">>} \/ ~Starts(s, {"-"})
        BY <1>2, <1>3, <2>3, <4>1 DEF Starts
      <4> QED
        BY <4>2 DEF IsValue
    <3> QED
      BY <1>1, <2>1, <3>1, <3>2 DEF ScannerInv, Wanted
  <2> QED
    BY <2>2, <2>3
<1>7. CASE IsDecimalLiteral
  <2>1. label = "is_decimal_literal" /\ name' = name
    BY <1>7 DEF IsDecimalLiteral, At
  <2>2. Literal(s) <=> \/ s = <<"0">>
                       \/ IsDigits(s) /\ Head(s) # "0"
                       \/ Starts(s, Digits) /\ AfterInteger(Undigited(s))
                       \/ Fractional(s)
    BY <1>1, SplitsAfterInteger DEF Literal
  <2>3. IsDigits(s) => Starts(s, Digits)
    BY <1>1 DEF IsDigits, Starts
  <2>4. Fractional(s) <=> Starts(s, {"."}) /\ Splits(Tail(s), IsDigits, ExponentOrNothing)
    BY DEF Fractional
  <2>5. ~AfterInteger(<<>>)
    BY DEF AfterInteger, Fractional, Exponent, Starts
  <2>6. CASE lookahead = "0"
    <3>1. s # <<>> /\ Head(s) = "0" /\ Starts(s, Digits) /\ ~Starts(s, {"."})
      BY <1>3, <2>6 DEF Starts, Digits
    <3>2. CASE Len(s) = 1
      <4>1. label' = "yes" /\ s' = s
        BY <1>7, <2>6, <3>2 DEF IsDecimalLiteral, Goto, Finish, Digits
      <4>2. Literal(s)
        BY <1>2, <2>2, <3>1, <3>2
      <4> QED
        BY <1>1, <2>1, <4>1, <4>2 DEF ScannerInv, Wanted
    <3>3. CASE Len(s) # 1
      <4>1. label' = "integer_part_consumed" /\ s' = Undigited(s)
        BY <1>7, <2>6, <3>3 DEF IsDecimalLiteral, Goto, Finish, Digits
      <4>2. Literal(s) <=> AfterInteger(Undigited(s))
        BY <1>2, <2>2, <2>4, <3>1, <3>3
      <4> QED
        BY <1>1, <1>4, <2>1, <4>1, <4>2 DEF ScannerInv, Wanted
    <3> QED
      BY <3>2, <3>3
  <2>7. CASE lookahead \in Digits \ {"0"}
    <3>1. s # <<>> /\ Head(s) # "0" /\ Starts(s, Digits) /\ ~Starts(s, {"."})
      BY <1>3, <2>7 DEF Starts, Digits
    <3>2. CASE Undigited(s) = <<>>
      <4>1. label' = "yes" /\ s' = s
        BY <1>7, <2>7, <3>2 DEF IsDecimalLiteral, Goto, Finish, Digits
      <4>2. Literal(s)
        BY <1>4, <2>2, <3>1, <3>2
      <4> QED
        BY <1>1, <2>1, <4>1, <4>2 DEF ScannerInv, Wanted
    <3>3. CASE Undigited(s) # <<>>
      <4>1. label' = "integer_part_consumed" /\ s' = Undigited(s)
        BY <1>7, <2>7, <3>3 DEF IsDecimalLiteral, Goto, Finish, Digits
      <4>2. s # <<"0">>
        BY <1>2, <3>1
      <4>3. Literal(s) <=> AfterInteger(Undigited(s))
        BY <1>4, <2>2, <2>4, <3>1, <3>3, <4>2
      <4> QED
        BY <1>1, <1>4, <2>1, <4>1, <4>3 DEF ScannerInv, Wanted
    <3> QED
      BY <3>2, <3>3
  <2>8. CASE lookahead = "."
    <3>1. s # <<>> /\ Head(s) = "." /\ ~Starts(s, Digits) /\ Starts(s, {"."})
      BY <1>3, <2>8 DEF Starts, Digits
    <3>2. label' = "post_decimal_point" /\ s' = Tail(s)
      BY <1>7, <2>8 DEF IsDecimalLiteral, Goto, Finish, Digits
    <3>3. s # <<"0">>
      BY <1>2, <3>1
    <3>4. Literal(s) <=> Splits(Tail(s), IsDigits, ExponentOrNothing)
      BY <2>2, <2>3, <2>4, <3>1, <3>3
    <3> QED
      BY <1>1, <1>2, <2>1, <3>1, <3>2, <3>4 DEF ScannerInv, Wanted
  <2>9. CASE lookahead \notin Digits \cup {"."}
    <3>1. ~Starts(s, Digits) /\ ~Starts(s, {"."})
      BY <1>3, <2>9 DEF Starts
    <3>2. label' = "no" /\ s' = s
      BY <1>7, <2>9 DEF IsDecimalLiteral, Goto, Finish, Digits
    <3>3. s # <<"0">>
      BY <1>2, <1>3, <2>9 DEF Digits
    <3>4. ~Literal(s)
      BY <2>2, <2>3, <2>4, <3>1, <3>3
    <3> QED
      BY <1>1, <2>1, <3>2, <3>4 DEF ScannerInv, Wanted
  <2> QED
    BY <2>6, <2>7, <2>8, <2>9
<1>8. CASE IntegerPartConsumed
  <2>1. label = "integer_part_consumed" /\ name' = name
    BY <1>8 DEF IntegerPartConsumed, At
  <2>2. AfterInteger(s) <=> \/ Fractional(s)
                            \/ Starts(s, {"."}) /\ ExponentOrNothing(Tail(s))
                            \/ Exponent(s)
    BY DEF AfterInteger
  <2>3. CASE lookahead = "."
    <3>1. s # <<>> /\ Head(s) = "." /\ Starts(s, {"."}) /\ ~Exponent(s)
      BY <1>3, <2>3 DEF Starts, Exponent
    <3>2. s' = Tail(s) /\ label' = IF Len(s) > 1 /\ s[2] \in Digits
                                   THEN "post_decimal_point" ELSE "exponent_part_opt"
      BY <1>8, <2>3 DEF IntegerPartConsumed, Goto, Finish
    <3>3. Tail(s) \in Seq(Characters)
      BY <1>2, <3>1
    <3>4. Fractional(s) <=> Starts(Tail(s), Digits) /\ ExponentOrNothing(Undigited(Tail(s)))
      BY <3>1, <3>3, SplitsExponent DEF Fractional
    <3>5. Fractional(s) <=> Splits(Tail(s), IsDigits, ExponentOrNothing)
      BY <3>1 DEF Fractional
    <3>6. (Len(s) > 1 /\ s[2] \in Digits) <=> Starts(Tail(s), Digits)
      BY <1>2, <3>1 DEF Starts
    <3>7. ExponentOrNothing(Tail(s)) => ~Starts(Tail(s), Digits)
      BY DEF ExponentOrNothing, Exponent, Starts, Digits
    <3>8. CASE Starts(Tail(s), Digits)
      <4>1. AfterInteger(s) <=> Splits(Tail(s), IsDigits, ExponentOrNothing)
        BY <2>2, <3>1, <3>5, <3>7, <3>8
      <4> QED
        BY <1>1, <2>1, <3>2, <3>3, <3>6, <3>8, <4>1 DEF ScannerInv, Wanted
    <3>9. CASE ~Starts(Tail(s), Digits)
      <4>1. AfterInteger(s) <=> ExponentOrNothing(Tail(s))
        BY <2>2, <3>1, <3>4, <3>9
      <4> QED
        BY <1>1, <2>1, <3>2, <3>3, <3>6, <3>9, <4>1 DEF ScannerInv, Wanted
    <3> QED
      BY <3>8, <3>9
  <2>4. CASE lookahead = "e"
    <3>1. s # <<>> /\ Starts(s, {"e"}) /\ ~Starts(s, {"."})
      BY <1>3, <2>4 DEF Starts
    <3>2. s' = Tail(s) /\ label' = "post_e"
      BY <1>8, <2>4 DEF IntegerPartConsumed, Goto, Finish
    <3>3. AfterInteger(s) <=> Exponent(s)
      BY <2>2, <3>1 DEF Fractional
    <3>4. Exponent(s) <=> \/ IsDigits(Tail(s))
                          \/ Starts(Tail(s), Signs) /\ IsDigits(Tail(Tail(s)))
      BY <3>1 DEF Exponent
    <3> QED
      BY <1>1, <1>2, <2>1, <3>1, <3>2, <3>3, <3>4 DEF ScannerInv, Wanted
  <2>5. CASE lookahead \notin {".", "e"}
    <3>1. ~Starts(s, {"."}) /\ ~Starts(s, {"e"})
      BY <1>3, <2>5 DEF Starts
    <3>2. s' = s /\ label' = "no"
      BY <1>8, <2>5 DEF IntegerPartConsumed, Goto, Finish
    <3>3. ~AfterInteger(s)
      BY <2>2, <3>1 DEF Fractional, Exponent
    <3> QED
      BY <1>1, <2>1, <3>2, <3>3 DEF ScannerInv, Wanted
  <2> QED
    BY <2>3, <2>4, <2>5
<1>9. CASE PostDecimalPoint
  <2>1. label = "post_decimal_point" /\ name' = name
    BY <1>9 DEF PostDecimalPoint, At
  <2>2. Splits(s, IsDigits, ExponentOrNothing)
          <=> Starts(s, Digits) /\ ExponentOrNothing(Undigited(s))
    BY <1>1, SplitsExponent
  <2>3. CASE Starts(s, Digits)
    <3>1. label' = "exponent_part_opt" /\ s' = Undigited(s)
      BY <1>5, <1>9, <2>3 DEF PostDecimalPoint, Goto
    <3> QED
      BY <1>1, <1>4, <2>1, <2>2, <2>3, <3>1 DEF ScannerInv, Wanted
  <2>4. CASE ~Starts(s, Digits)
    <3>1. label' = "no" /\ s' = s
      BY <1>5, <1>9, <2>4 DEF PostDecimalPoint, Finish
    <3> QED
      BY <1>1, <2>1, <2>2, <2>4, <3>1 DEF ScannerInv, Wanted
  <2> QED
    BY <2>3, <2>4
<1>10. CASE ExponentPartOpt
  <2>1. label = "exponent_part_opt" /\ name' = name
    BY <1>10 DEF ExponentPartOpt, At
  <2>2. CASE lookahead = "e"
    <3>1. s # <<>> /\ Starts(s, {"e"})
      BY <1>3, <2>2 DEF Starts
    <3>2. label' = "post_e" /\ s' = Tail(s)
      BY <1>10, <2>2 DEF ExponentPartOpt, Goto
    <3>3. ExponentOrNothing(s) <=> \/ IsDigits(Tail(s))
                                   \/ Starts(Tail(s), Signs) /\ IsDigits(Tail(Tail(s)))
      BY <3>1 DEF ExponentOrNothing, Exponent
    <3> QED
      BY <1>1, <1>2, <2>1, <3>1, <3>2, <3>3 DEF ScannerInv, Wanted
  <2>3. CASE lookahead # "e"
    <3>1. s' = s /\ label' = IF lookahead = "eof" THEN "yes" ELSE "no"
      BY <1>10, <2>3 DEF ExponentPartOpt, Finish
    <3>2. lookahead = "eof" <=> s = <<>>
      BY <1>2, <1>3 DEF Characters, Digits, Signs
    <3>3. ExponentOrNothing(s) <=> s = <<>>
      BY <1>3, <2>3 DEF ExponentOrNothing, Exponent, Starts
    <3> QED
      BY <1>1, <2>1, <3>1, <3>2, <3>3 DEF ScannerInv, Wanted
  <2> QED
    BY <2>2, <2>3
<1>11. CASE PostE
  <2> DEFINE unsigned == IF lookahead \in Signs THEN Tail(s) ELSE s
  <2>1. /\ label = "post_e" /\ name' = name /\ s' = s
        /\ label' = IF unsigned # <<>> /\ Undigited(unsigned) = <<>> THEN "yes" ELSE "no"
    BY <1>11 DEF PostE, At, Finish
  <2>2. lookahead \in Signs <=> Starts(s, Signs)
    BY <1>3 DEF Starts, Signs
  <2>3. unsigned \in Seq(Characters)
    BY <1>1, <1>2, <2>2 DEF Starts
  <2>4. unsigned # <<>> /\ Undigited(unsigned) = <<>> <=> IsDigits(unsigned)
    BY <2>3, Cut
  <2>5. IsDigits(unsigned) <=> IsDigits(s) \/ (Starts(s, Signs) /\ IsDigits(Tail(s)))
    <3>1. Starts(s, Signs) => ~IsDigits(s)
      BY <1>1 DEF Starts, IsDigits, Digits, Signs
    <3> QED
      BY <2>2, <3>1
  <2> HIDE DEF unsigned
  <2> QED
    BY <1>1, <2>1, <2>4, <2>5 DEF ScannerInv, Wanted
<1>12. CASE ScannerTerminated
  BY <1>12 DEF ScannerTerminated, scannerVars, ScannerInv, Wanted
<1> QED
  BY <1>6, <1>7, <1>8, <1>9, <1>10, <1>11, <1>12 DEF ScannerNext

\* The scanner accepts the documented grammar for words of every length.
THEOREM FollowsGrammarHolds == ScannerSpec => []FollowsGrammar
<1>1. ScannerInit => ScannerInv
  <2>1. SUFFICES ASSUME ScannerInit PROVE ScannerInv
    OBVIOUS
  <2>2. name \in Seq(Characters) /\ s = name /\ label = "is_positional"
    BY <2>1, DecimalLiteralAssumption DEF ScannerInit, BoundedSeq, SeqOf
  <2> QED
    BY <2>2 DEF ScannerInv, Wanted
<1>2. ScannerInv /\ [ScannerNext]_scannerVars => ScannerInv'
  <2> SUFFICES ASSUME ScannerInv, [ScannerNext]_scannerVars PROVE ScannerInv'
    OBVIOUS
  <2>1. CASE UNCHANGED scannerVars
    BY <2>1 DEF scannerVars, ScannerInv, Wanted
  <2> QED
    BY <2>1, ScannerStep
<1>3. ScannerInv => FollowsGrammar
  BY DEF ScannerInv, Wanted, FollowsGrammar
<1> QED
  BY <1>1, <1>2, <1>3, PTL DEF ScannerSpec
-----------------------------------------------------------------------------
(***************************************************************************)
(* The types of the parser.                                                *)
(***************************************************************************)
\* The arguments that go by some names.
Arguments(names) ==
  [names : {names}, min : Nat, max : Nat, has_default : BOOLEAN,
   takes_options : BOOLEAN, exits : BOOLEAN]

\* The calls that declare an argument, in whatever order.
LEMMA Declared ==
  ASSUME NEW names
  PROVE  /\ Argument(names) \in Arguments(names) /\ Exiting(names) \in Arguments(names)
         /\ \A arg \in Arguments(names) :
              /\ \A min, max \in Nat : Nargs(arg, min, max) \in Arguments(names)
              /\ DefaultValue(arg) \in Arguments(names)
              /\ Flag(arg) \in Arguments(names) /\ OneOrMore(arg) \in Arguments(names)
              /\ Remaining(arg) \in Arguments(names)
<1>1. Argument(names) \in Arguments(names)
  BY DEF Argument, Arguments
<1>2. \A arg \in Arguments(names), min, max \in Nat : Nargs(arg, min, max) \in Arguments(names)
  BY DEF Nargs, Arguments
<1>3. \A arg \in Arguments(names) : DefaultValue(arg) \in Arguments(names)
  BY DEF DefaultValue, Arguments
<1>4. \A arg \in Arguments(names) : ImplicitValue(arg) \in Arguments(names)
  BY <1>2 DEF ImplicitValue
<1>5. \A arg \in Arguments(names) : Flag(arg) \in Arguments(names)
  BY <1>3, <1>4 DEF Flag
<1>6. Many \in Nat
  BY OptionsAssumption
<1>7. \A arg \in Arguments(names) : OneOrMore(arg) \in Arguments(names)
  BY <1>2, <1>6 DEF OneOrMore
<1>8. \A arg \in Arguments(names) :
        /\ [arg EXCEPT !.takes_options = TRUE] \in Arguments(names)
        /\ [arg EXCEPT !.exits = TRUE] \in Arguments(names)
  BY DEF Arguments
<1>9. \A arg \in Arguments(names) : Remaining(arg) \in Arguments(names)
  BY <1>2, <1>6, <1>8 DEF Remaining
<1>10. Exiting(names) \in Arguments(names)
  BY <1>1, <1>2, <1>5, <1>8 DEF Exiting
<1> QED
  BY <1>1, <1>2, <1>3, <1>5, <1>7, <1>9, <1>10

LEMMA ParsersAre ==
  /\ DOMAIN Parsers = {"ezcollect", "record", "summarize"}
  /\ Parsers["ezcollect"].subcommands = {"record", "summarize"}
  /\ Parsers["record"].subcommands = {} /\ Parsers["summarize"].subcommands = {}
  /\ Parsers["ezcollect"].positionals = <<>> /\ Parsers["record"].positionals = <<>>
  /\ Parsers["summarize"].positionals = <<"files">>
  /\ DOMAIN Parsers["ezcollect"].args = {"h", "v", "g"}
  /\ DOMAIN Parsers["record"].args =
       {"h", "v", "g", "l", "i", "p", "pcomm", "pcomm_prefix", "t", "tcomm", "tcomm_prefix", "e"}
  /\ DOMAIN Parsers["summarize"].args = {"h", "v", "g", "files"}
BY DEF Parsers

\* The range of an argument.
Ranged(arg) == arg.min \in Nat /\ arg.max \in Nat

LEMMA ArgumentRanged ==
  ASSUME NEW names, NEW arg \in Arguments(names)
  PROVE  Ranged(arg)
BY DEF Arguments, Ranged

LEMMA ArgRanged ==
  ASSUME NEW p \in DOMAIN Parsers, NEW a \in DOMAIN Parsers[p].args
  PROVE  Ranged(Arg(p, a))
<1>1. \A names : Ranged(Argument(names)) /\ Ranged(OneOrMore(Argument(names)))
  BY Declared, ArgumentRanged
<1>2. Ranged(Help) /\ Ranged(Version) /\ Ranged(Debug)
  BY Declared, ArgumentRanged DEF Help, Version, Debug
<1>3. CASE p = "ezcollect"
  <2>1. LET args == Parsers["ezcollect"].args
        IN args["h"] = Help /\ args["v"] = Version /\ args["g"] = Debug
    BY DEF Parsers
  <2> QED
    BY <1>2, <1>3, <2>1, ParsersAre DEF Arg
<1>4. CASE p = "record"
  <2>1. LET args == Parsers["record"].args
        IN /\ args["h"] = Help /\ args["v"] = Version /\ args["g"] = Debug
           /\ args["l"] = DefaultValue(Flag(Argument({"-l", "--list"})))
           /\ args["i"] = Nargs(DefaultValue(Argument({"-i"})), 1, 1)
           /\ args["p"] = Argument({"-p", "--pid"})
           /\ args["pcomm"] = Argument({"--pcomm"})
           /\ args["pcomm_prefix"] = Argument({"--pcomm-prefix"})
           /\ args["t"] = Argument({"-t", "--tid"})
           /\ args["tcomm"] = Argument({"--tcomm"})
           /\ args["tcomm_prefix"] = Argument({"--tcomm-prefix"})
           /\ args["e"] = OneOrMore(Argument({"-e"}))
    BY DEF Parsers
  <2>2. Ranged(DefaultValue(Flag(Argument({"-l", "--list"}))))
    BY Declared, ArgumentRanged
  <2>3. Ranged(Nargs(DefaultValue(Argument({"-i"})), 1, 1))
    BY Declared, ArgumentRanged
  <2>4. \A b \in DOMAIN Parsers["record"].args : Ranged(Parsers["record"].args[b])
    BY <1>1, <1>2, <2>1, <2>2, <2>3, ParsersAre
  <2> QED
    BY <1>4, <2>4 DEF Arg
<1>5. CASE p = "summarize"
  <2>1. Ranged(Remaining(Argument({"files"})))
    BY Declared, ArgumentRanged
  <2>2. LET args == Parsers["summarize"].args
        IN /\ args["h"] = Help /\ args["v"] = Version /\ args["g"] = Debug
           /\ args["files"] = Remaining(Argument({"files"}))
    BY DEF Parsers
  <2> QED
    BY <1>2, <1>5, <2>1, <2>2, ParsersAre DEF Arg
<1> QED
  BY <1>3, <1>4, <1>5, ParsersAre

LEMMA SlotsAre ==
  ASSUME NEW slot
  PROVE  slot \in Slots <=>
           \E p \in DOMAIN Parsers : \E a \in DOMAIN Parsers[p].args : slot = <<p, a>>
BY DEF Slots

LEMMA SlotRanged ==
  ASSUME NEW slot \in Slots
  PROVE  Ranged(Arg(slot[1], slot[2]))
<1>1. PICK p \in DOMAIN Parsers : \E a \in DOMAIN Parsers[p].args : slot = <<p, a>>
  BY SlotsAre
<1>2. PICK a \in DOMAIN Parsers[p].args : slot = <<p, a>>
  BY <1>1
<1>3. slot[1] = p /\ slot[2] = a
  BY <1>2
<1> QED
  BY <1>1, <1>2, <1>3, ArgRanged

\* A set of numbers that is bounded has a greatest.
LEMMA Greatest ==
  ASSUME NEW n \in Nat, NEW S, S \subseteq 0..n, S # {}
  PROVE  Max(S) \in S
<1> DEFINE T == {k \in Nat : (\A x \in S : x <= k) => \E x \in S : \A y \in S : x >= y}
<1>1. 0 \in T
  <2>1. SUFFICES ASSUME \A x \in S : x <= 0 PROVE \E x \in S : \A y \in S : x >= y
    OBVIOUS
  <2>2. \A x \in S : x = 0
    BY <2>1
  <2>3. PICK x : x \in S
    OBVIOUS
  <2> QED
    BY <2>2, <2>3
<1>2. ASSUME NEW k \in Nat, k \in T PROVE k + 1 \in T
  <2>1. SUFFICES ASSUME \A x \in S : x <= k + 1 PROVE \E x \in S : \A y \in S : x >= y
    OBVIOUS
  <2>2. CASE k + 1 \in S
    BY <2>1, <2>2
  <2>3. CASE k + 1 \notin S
    <3>1. \A x \in S : x <= k
      BY <2>1, <2>3
    <3> QED
      BY <1>2, <3>1
  <2> QED
    BY <2>2, <2>3
<1> HIDE DEF T
<1>3. n \in T
  BY <1>1, <1>2, Induction
<1>4. \E x \in S : \A y \in S : x >= y
  BY <1>3 DEF T
<1> QED
  BY <1>4 DEF Max

LEMMA PreprocessType ==
  ASSUME NEW p, NEW words \in Seq(Words)
  PROVE  Preprocess(p, words) \in Seq(Words)
<1> DEFINE piece(k) == IF /\ ~IsName(p, words[k])
                          /\ Assigned[words[k]] # <<>>
                          /\ IsName(p, Assigned[words[k]][1])
                       THEN Assigned[words[k]]
                       ELSE <<words[k]>>
           pieces == [k \in DOMAIN words |-> piece(k)]
<1>1. ASSUME NEW k \in DOMAIN words PROVE piece(k) \in Seq(Words)
  <2>1. words[k] \in Words
    OBVIOUS
  <2>2. Assigned[words[k]] \in {<<>>} \cup (Words \X Words)
    BY <2>1, ArgParserAssumption
  <2>3. Assigned[words[k]] # <<>> => Assigned[words[k]] \in Seq(Words)
    <3>1. \A pair \in Words \X Words : pair \in Seq(Words)
      <4>1. SUFFICES ASSUME NEW pair \in Words \X Words PROVE pair \in Seq(Words)
        OBVIOUS
      <4>2. pair = <<pair[1], pair[2]>> /\ pair[1] \in Words /\ pair[2] \in Words
        BY <4>1
      <4>3. <<pair[1], pair[2]>> \in Seq(Words)
        BY <4>2
      <4> QED
        BY <4>2, <4>3, Zenon
    <3> QED
      BY <2>2, <3>1
  <2>4. <<words[k]>> \in Seq(Words)
    BY <2>1
  <2> QED
    BY <2>3, <2>4
<1>2. pieces \in Seq(Seq(Words))
  <2> HIDE DEF piece
  <2>1. DOMAIN words = 1..Len(words) /\ Len(words) \in Nat
    OBVIOUS
  <2>2. pieces \in [1..Len(words) -> Seq(Words)]
    BY <1>1, <2>1
  <2> QED
    BY <2>1, <2>2, SeqDef
<1>3. Preprocess(p, words) = FlattenSeq(pieces)
  BY DEF Preprocess
<1> QED
  BY <1>2, <1>3, FlattenType

\* The words that an argument takes are the first of those it is offered, and
\* not more than it was declared with.
LEMMA TakenType ==
  ASSUME NEW arg, Ranged(arg), NEW words \in Seq(Words)
  PROVE  /\ Taken(arg, words) \in Seq(Words)
         /\ Len(Taken(arg, words)) <= Len(words)
         /\ Len(Taken(arg, words)) <= arg.max
<1>1. arg.max \in Nat /\ Len(words) \in Nat
  BY DEF Ranged
<1> DEFINE most == Least(arg.max, Len(words))
           before == {n \in 0..most : \A k \in 1..n : words[k] \in Positional}
           count == IF arg.takes_options THEN most ELSE Max(before)
<1>2. most \in Nat /\ most <= arg.max /\ most <= Len(words)
  BY <1>1 DEF Least
<1>3. count \in 0..most
  <2> HIDE DEF most
  <2>1. 0 \in before /\ before \subseteq 0..most
    BY <1>2
  <2> HIDE DEF before
  <2>2. Max(before) \in 0..most
    BY <1>2, <2>1, Greatest
  <2> QED
    BY <1>2, <2>2
<1>4. Offered(arg, words) = SubSeq(words, 1, count)
  BY DEF Offered
<1> HIDE DEF count, most
<1>5. /\ Offered(arg, words) \in Seq(Words)
      /\ Len(Offered(arg, words)) = count
  <2>1. count \in 0..Len(words)
    BY <1>1, <1>2, <1>3
  <2>2. \A k \in 1..count : words[k] \in Words
    BY <1>1, <2>1
  <2>3. 1 \in 1 .. Len(words) + 1
    BY <1>1
  <2> QED
    BY <1>1, <1>4, <2>1, <2>2, <2>3, SubSeqProperties
<1>6. Taken(arg, words) = <<>> \/ Taken(arg, words) = Offered(arg, words)
  BY DEF Taken
<1>7. CASE Taken(arg, words) = <<>>
  <2>1. Len(<<>>) = 0 /\ <<>> \in Seq(Words)
    OBVIOUS
  <2> QED
    BY <1>1, <1>7, <2>1
<1>8. CASE Taken(arg, words) = Offered(arg, words)
  <2>1. count <= arg.max /\ count <= Len(words)
    BY <1>1, <1>2, <1>3
  <2> QED
    BY <1>5, <1>8, <2>1
<1> QED
  BY <1>6, <1>7, <1>8

LEMMA ConsumeType ==
  ASSUME TypeOK, NEW a \in DOMAIN Parsers[parser].args, NEW words \in Seq(Words),
         Consume(a, words), status = "parsing"
  PROVE  /\ rest' \in Seq(Words) /\ used' \subseteq Slots
         /\ values' \in [Slots -> Seq(Words)]
         /\ \A slot \in Slots : Len(values'[slot]) <= Arg(slot[1], slot[2]).max
         /\ status' \in Statuses
<1> DEFINE here == <<parser, a>>
           taken == Taken(Arg(parser, a), words)
<1>1. /\ parser \in DOMAIN Parsers /\ rest \in Seq(Words) /\ used \subseteq Slots
      /\ values \in [Slots -> Seq(Words)]
      /\ \A slot \in Slots : Len(values[slot]) <= Arg(slot[1], slot[2]).max
  BY DEF TypeOK
<1>2. here \in Slots
  BY <1>1, SlotsAre
<1>3. /\ taken \in Seq(Words) /\ Len(taken) <= Len(words)
      /\ Len(taken) <= Arg(parser, a).max
  BY <1>1, ArgRanged, TakenType
<1>4. here[1] = parser /\ here[2] = a
  OBVIOUS
<1>5. CASE here \in used \/ TooFew(Arg(parser, a), words)
  <2>1. status' = "refused" /\ UNCHANGED <<rest, used, values>>
    BY <1>5 DEF Consume
  <2> QED
    BY <1>1, <2>1 DEF Statuses
<1>6. CASE ~(here \in used \/ TooFew(Arg(parser, a), words))
  <2>1. /\ used' = used \cup {here}
        /\ values' = [values EXCEPT ![here] = taken]
        /\ rest' = SubSeq(words, Len(taken) + 1, Len(words))
        /\ status' = IF Arg(parser, a).exits THEN "exited" ELSE status
    BY <1>6 DEF Consume
  <2> HIDE DEF taken
  <2>2. rest' \in Seq(Words)
    BY <1>3, <2>1
  <2>3. status' \in Statuses
    BY <2>1 DEF Statuses
  <2> HIDE DEF here
  <2>4. values' \in [Slots -> Seq(Words)]
    BY <1>1, <1>3, <2>1
  <2>5. ASSUME NEW slot \in Slots PROVE Len(values'[slot]) <= Arg(slot[1], slot[2]).max
    <3>1. CASE slot = here
      BY <1>1, <1>2, <1>3, <1>4, <2>1, <3>1
    <3>2. CASE slot # here
      BY <1>1, <2>1, <3>2
    <3> QED
      BY <3>1, <3>2
  <2> QED
    BY <1>1, <1>2, <2>1, <2>2, <2>3, <2>4, <2>5
<1> QED
  BY <1>5, <1>6

LEMMA NamedType ==
  ASSUME NEW p, NEW word, IsName(p, word)
  PROVE  Named(p, word) \in DOMAIN Parsers[p].args
BY DEF IsName, Named

\* Each step of the parser keeps the types.
LEMMA TypeStep ==
  ASSUME TypeOK, Parse
  PROVE  TypeOK'
<1>1. /\ line \in Seq(Words) /\ parser \in DOMAIN Parsers /\ status \in Statuses
      /\ rest \in Seq(Words)
      /\ n_positional \in 0 .. Len(Parsers[parser].positionals)
      /\ used \subseteq Slots
      /\ values \in [Slots -> Seq(Words)]
      /\ \A slot \in Slots : Len(values[slot]) <= Arg(slot[1], slot[2]).max
  BY DEF TypeOK
<1>2. rest # <<>> => Head(rest) \in Words /\ Tail(rest) \in Seq(Words)
  BY <1>1
<1>3. CASE ReadSubcommand
  <2>1. /\ parser' = Head(rest) /\ Head(rest) \in Parsers[parser].subcommands
        /\ rest' = Preprocess(Head(rest), Tail(rest)) /\ n_positional' = 0
        /\ UNCHANGED <<line, used, values, status>> /\ rest # <<>>
    BY <1>3 DEF ReadSubcommand, Excess, Turn
  <2>2. parser' \in {"record", "summarize"}
    BY <1>1, <2>1, ParsersAre
  <2>3. Len(Parsers[parser'].positionals) \in Nat
    BY <2>2, ParsersAre
  <2>4. n_positional' \in 0 .. Len(Parsers[parser'].positionals)
    BY <2>1, <2>3
  <2>5. rest' \in Seq(Words)
    BY <1>2, <2>1, PreprocessType
  <2>6. parser' \in DOMAIN Parsers
    BY <2>2, ParsersAre
  <2> QED
    BY <1>1, <2>1, <2>4, <2>5, <2>6 DEF TypeOK
<1>4. CASE ReadPositional
  <2> DEFINE a == Parsers[parser].positionals[n_positional + 1]
  <2>1. /\ status = "parsing" /\ n_positional < Len(Parsers[parser].positionals)
        /\ n_positional' = n_positional + 1 /\ Consume(a, rest)
        /\ UNCHANGED <<line, parser>>
    BY <1>4 DEF ReadPositional, Turn
  <2>2. a \in DOMAIN Parsers[parser].args
    <3>1. parser = "summarize" /\ n_positional = 0
      BY <1>1, <2>1, ParsersAre
    <3> QED
      BY <3>1, ParsersAre
  <2> HIDE DEF a
  <2>3. n_positional' \in 0 .. Len(Parsers[parser'].positionals)
    BY <1>1, <2>1, ParsersAre
  <2>4. /\ rest' \in Seq(Words) /\ used' \subseteq Slots
        /\ values' \in [Slots -> Seq(Words)]
        /\ \A slot \in Slots : Len(values'[slot]) <= Arg(slot[1], slot[2]).max
        /\ status' \in Statuses
    BY <1>1, <2>1, <2>2, ConsumeType
  <2> QED
    BY <1>1, <2>1, <2>3, <2>4 DEF TypeOK
<1>5. CASE ReadOption
  <2> DEFINE a == Named(parser, Head(rest))
  <2>1. /\ status = "parsing" /\ rest # <<>> /\ IsName(parser, Head(rest))
        /\ Consume(a, Tail(rest)) /\ UNCHANGED <<line, parser, n_positional>>
    BY <1>5 DEF ReadOption, Turn
  <2>2. a \in DOMAIN Parsers[parser].args
    BY <2>1, NamedType
  <2> HIDE DEF a
  <2>3. /\ rest' \in Seq(Words) /\ used' \subseteq Slots
        /\ values' \in [Slots -> Seq(Words)]
        /\ \A slot \in Slots : Len(values'[slot]) <= Arg(slot[1], slot[2]).max
        /\ status' \in Statuses
    BY <1>1, <1>2, <2>1, <2>2, ConsumeType
  <2> QED
    BY <1>1, <2>1, <2>3 DEF TypeOK
<1>6. CASE ReadLetter
  <2> DEFINE a == Named(parser, Head(letters))
  <2>1. /\ status = "parsing" /\ IsName(parser, Head(letters))
        /\ Consume(a, rest) /\ UNCHANGED <<line, parser, n_positional>>
    BY <1>6 DEF ReadLetter
  <2>2. a \in DOMAIN Parsers[parser].args
    BY <2>1, NamedType
  <2> HIDE DEF a
  <2>3. /\ rest' \in Seq(Words) /\ used' \subseteq Slots
        /\ values' \in [Slots -> Seq(Words)]
        /\ \A slot \in Slots : Len(values'[slot]) <= Arg(slot[1], slot[2]).max
        /\ status' \in Statuses
    BY <1>1, <2>1, <2>2, ConsumeType
  <2> QED
    BY <1>1, <2>1, <2>3 DEF TypeOK
<1>7. CASE ReadLetters
  <2>1. rest' = Tail(rest) /\ rest # <<>>
        /\ UNCHANGED <<line, parser, n_positional, used, values, status>>
    BY <1>7 DEF ReadLetters, Turn
  <2> QED
    BY <1>1, <1>2, <2>1 DEF TypeOK
<1>8. CASE RefuseExcess \/ RefuseUnknown \/ EndOfLine
  <2>1. /\ status' \in {"refused", "parsed"}
        /\ UNCHANGED <<line, parser, rest, n_positional, used, values>>
    BY <1>8 DEF RefuseExcess, RefuseUnknown, EndOfLine, Refuse
  <2>2. status' \in Statuses
    BY <2>1 DEF Statuses
  <2> QED
    BY <1>1, <2>1, <2>2 DEF TypeOK
<1> QED
  BY <1>3, <1>4, <1>5, <1>6, <1>7, <1>8 DEF Parse

LEMMA InitTypes == Init => TypeOK
<1> SUFFICES ASSUME Init PROVE TypeOK
  OBVIOUS
<1>1. /\ line \in Seq(Words) /\ parser = "ezcollect"
      /\ rest = Preprocess("ezcollect", line) /\ n_positional = 0
      /\ used = {} /\ values = [slot \in Slots |-> <<>>] /\ status = "parsing"
  BY ArgParserAssumption DEF Init
<1>2. rest \in Seq(Words)
  BY <1>1, PreprocessType
<1>3. parser \in DOMAIN Parsers /\ n_positional \in 0 .. Len(Parsers[parser].positionals)
  BY <1>1, ParsersAre
<1>4. \A slot \in Slots : Len(values[slot]) <= Arg(slot[1], slot[2]).max
  <2>1. ASSUME NEW slot \in Slots PROVE Len(values[slot]) <= Arg(slot[1], slot[2]).max
    <3>1. Arg(slot[1], slot[2]).max \in Nat
      BY SlotRanged DEF Ranged
    <3>2. values[slot] = <<>>
      BY <1>1
    <3> QED
      BY <3>1, <3>2
  <2> QED
    BY <2>1
<1>5. values \in [Slots -> Seq(Words)] /\ status \in Statuses
  BY <1>1 DEF Statuses
<1> QED
  BY <1>1, <1>2, <1>3, <1>4, <1>5 DEF TypeOK

\* The parser.
THEOREM LineTypeCorrect == Spec => []TypeOK
<1>1. TypeOK /\ [Next]_vars => TypeOK'
  <2> SUFFICES ASSUME TypeOK, [Next]_vars PROVE TypeOK'
    OBVIOUS
  <2>1. CASE Parse
    BY <2>1, TypeStep
  <2>2. CASE UNCHANGED vars
    BY <2>2 DEF vars, TypeOK
  <2> QED
    BY <2>1, <2>2 DEF Next, Terminated
<1> QED
  BY <1>1, InitTypes, PTL DEF Spec
-----------------------------------------------------------------------------
(***************************************************************************)
(* The parser against the language.  Between two turns of its loop, the    *)
(* letters and the words that are left, written out, are what the line as  *)
(* written out has from some place on (Midway); the words before that      *)
(* place have been judged, and the values taken, as the language says.     *)
(***************************************************************************)
\* The words that g makes of each word, one after the other.
Flat(g, words) == FlattenSeq([k \in DOMAIN words |-> g[words[k]]])

\* Word by word.
LEMMA FlatCons ==
  ASSUME NEW g \in [Words -> Seq(Words)], NEW words \in Seq(Words)
  PROVE  /\ Flat(g, words) \in Seq(Words)
         /\ words = <<>> => Flat(g, words) = <<>>
         /\ words # <<>> => Flat(g, words) = g[Head(words)] \o Flat(g, Tail(words))
<1> DEFINE pieces(ws) == [k \in DOMAIN ws |-> g[ws[k]]]
<1>1. ASSUME NEW ws \in Seq(Words)
      PROVE  /\ pieces(ws) \in Seq(Seq(Words)) /\ Len(pieces(ws)) = Len(ws)
             /\ \A k \in 1..Len(ws) : pieces(ws)[k] = g[ws[k]]
  <2>1. DOMAIN ws = 1..Len(ws) /\ Len(ws) \in Nat /\ \A k \in 1..Len(ws) : ws[k] \in Words
    BY LenProperties
  <2>2. pieces(ws) \in [1..Len(ws) -> Seq(Words)]
    BY <2>1
  <2> QED
    BY <2>1, <2>2, SeqDef
<1>2. Flat(g, words) = FlattenSeq(pieces(words))
  BY DEF Flat
<1> HIDE DEF pieces
<1>3. Flat(g, words) \in Seq(Words)
  BY <1>1, <1>2, FlattenType
<1>4. words = <<>> => Flat(g, words) = <<>>
  <2>1. SUFFICES ASSUME words = <<>> PROVE FlattenSeq(pieces(words)) = <<>>
    BY <1>2
  <2>2. Len(pieces(words)) = 0 /\ pieces(words) \in Seq(Seq(Words))
    BY <1>1, <2>1, EmptySeq
  <2>3. pieces(words) = <<>>
    BY <2>2, EmptySeq
  <2> QED
    BY <2>2, <2>3 DEF FlattenSeq
<1>5. words # <<>> => Flat(g, words) = g[Head(words)] \o Flat(g, Tail(words))
  <2>1. SUFFICES ASSUME words # <<>> PROVE Flat(g, words) = g[Head(words)] \o Flat(g, Tail(words))
    OBVIOUS
  <2>2. /\ Len(words) \in Nat \ {0} /\ Head(words) = words[1]
        /\ Tail(words) \in Seq(Words) /\ Len(Tail(words)) = Len(words) - 1
        /\ \A k \in 1 .. Len(words) - 1 : Tail(words)[k] = words[k + 1]
    BY <2>1, EmptySeq, HeadTailProperties
  <2>3. pieces(words) # <<>>
    <3>1. Len(pieces(words)) # Len(<<>>)
      BY <1>1, <2>2
    <3> QED
      BY <3>1, Zenon
  <2>4. Head(pieces(words)) = g[Head(words)]
    <3>1. 1 \in 1..Len(words)
      BY <2>2
    <3>2. Head(pieces(words)) = pieces(words)[1]
      BY <1>1, <2>3, HeadTailProperties
    <3> QED
      BY <1>1, <2>2, <3>1, <3>2
  <2>5. Tail(pieces(words)) = pieces(Tail(words))
    <3>1. /\ Tail(pieces(words)) \in Seq(Seq(Words))
          /\ Len(Tail(pieces(words))) = Len(words) - 1
          /\ \A k \in 1 .. Len(words) - 1 : Tail(pieces(words))[k] = pieces(words)[k + 1]
      BY <1>1, <2>3, HeadTailProperties
    <3>2. /\ pieces(Tail(words)) \in Seq(Seq(Words))
          /\ Len(pieces(Tail(words))) = Len(words) - 1
          /\ \A k \in 1 .. Len(words) - 1 : pieces(Tail(words))[k] = g[Tail(words)[k]]
      BY <1>1, <2>2
    <3>3. ASSUME NEW k \in 1 .. Len(words) - 1
          PROVE  Tail(pieces(words))[k] = pieces(Tail(words))[k]
      <4>1. k + 1 \in 1..Len(words)
        BY <2>2, <3>3
      <4>2. pieces(words)[k + 1] = g[words[k + 1]]
        BY <1>1, <4>1
      <4> QED
        BY <2>2, <3>1, <3>2, <3>3, <4>2
    <3> QED
      BY <3>1, <3>2, <3>3, SeqEqual
  <2>6. FlattenSeq(pieces(words)) = Head(pieces(words)) \o FlattenSeq(Tail(pieces(words)))
    BY <1>1, <2>3, FlattenCons
  <2>7. Flat(g, Tail(words)) = FlattenSeq(pieces(Tail(words)))
    BY DEF Flat, pieces
  <2> QED
    BY <1>2, <2>4, <2>5, <2>6, <2>7
<1> QED
  BY <1>3, <1>4, <1>5

\* What a parser makes of one word.
LettersOf(p, word) ==
  IF ~IsName(p, word) /\ Letters[word] # <<>> THEN Letters[word] ELSE <<word>>

HalvesOf(p, word) ==
  IF ~IsName(p, word) /\ Assigned[word] # <<>> /\ IsName(p, Assigned[word][1])
  THEN Assigned[word]
  ELSE <<word>>

\* The pieces of a word are words.
LEMMA PiecesType ==
  ASSUME NEW p, NEW word \in Words
  PROVE  /\ LettersOf(p, word) \in Seq(Words)
         /\ HalvesOf(p, word) \in Seq(Words)
         /\ Assigned[word] # <<>> =>
              /\ Assigned[word][1] \in Words /\ Assigned[word][2] \in Words
              /\ Assigned[word] = <<Assigned[word][1], Assigned[word][2]>>
<1>1. <<word>> \in Seq(Words)
  OBVIOUS
<1>2. Letters[word] \in Seq(Words) /\ Assigned[word] \in {<<>>} \cup (Words \X Words)
  BY ArgParserAssumption
<1>3. \A pair \in Words \X Words :
        /\ pair[1] \in Words /\ pair[2] \in Words
        /\ pair = <<pair[1], pair[2]>> /\ pair \in Seq(Words)
  <2>1. SUFFICES ASSUME NEW pair \in Words \X Words
                 PROVE  /\ pair[1] \in Words /\ pair[2] \in Words
                        /\ pair = <<pair[1], pair[2]>> /\ pair \in Seq(Words)
    OBVIOUS
  <2>2. pair = <<pair[1], pair[2]>> /\ pair[1] \in Words /\ pair[2] \in Words
    BY <2>1
  <2>3. <<pair[1], pair[2]>> \in Seq(Words)
    BY <2>2
  <2> QED
    BY <2>2, <2>3, Zenon
<1>4. LettersOf(p, word) \in Seq(Words)
  BY <1>1, <1>2 DEF LettersOf
<1>5. HalvesOf(p, word) = <<word>> \/ (HalvesOf(p, word) = Assigned[word] /\ Assigned[word] # <<>>)
  BY DEF HalvesOf
<1>6. Assigned[word] # <<>> => Assigned[word] \in Words \X Words
  BY <1>2
<1>7. HalvesOf(p, word) \in Seq(Words)
  BY <1>1, <1>3, <1>5, <1>6
<1> QED
  BY <1>3, <1>4, <1>6, <1>7

\* The letters are written out word by word.
LEMMA LettersOutCons ==
  ASSUME NEW p, NEW words \in Seq(Words)
  PROVE  /\ LettersOut(p, words) \in Seq(Words)
         /\ words = <<>> => LettersOut(p, words) = <<>>
         /\ words # <<>> =>
              LettersOut(p, words) = LettersOf(p, Head(words)) \o LettersOut(p, Tail(words))
<1> DEFINE g == [word \in Words |-> LettersOf(p, word)]
<1>1. g \in [Words -> Seq(Words)]
  BY PiecesType
<1>2. \A ws \in Seq(Words) : LettersOut(p, ws) = Flat(g, ws)
  <2>1. SUFFICES ASSUME NEW ws \in Seq(Words) PROVE LettersOut(p, ws) = Flat(g, ws)
    OBVIOUS
  <2>2. \A k \in DOMAIN ws : ws[k] \in Words
    BY LenProperties
  <2>3. \A k \in DOMAIN ws : g[ws[k]] = LettersOf(p, ws[k])
    BY <2>2
  <2> HIDE DEF g
  <2>4. [k \in DOMAIN ws |-> g[ws[k]]] = [k \in DOMAIN ws |-> LettersOf(p, ws[k])]
    BY <2>3
  <2> QED
    BY <2>4 DEF LettersOut, LettersOf, Flat
<1>3. \A word \in Words : g[word] = LettersOf(p, word)
  OBVIOUS
<1> HIDE DEF g
<1>4. words # <<>> => Head(words) \in Words /\ Tail(words) \in Seq(Words)
  BY HeadTailProperties
<1>5. /\ Flat(g, words) \in Seq(Words)
      /\ words = <<>> => Flat(g, words) = <<>>
      /\ words # <<>> => Flat(g, words) = g[Head(words)] \o Flat(g, Tail(words))
  BY <1>1, FlatCons
<1> QED
  BY <1>2, <1>3, <1>4, <1>5

\* And so is "--name=value".
LEMMA PreprocessCons ==
  ASSUME NEW p, NEW words \in Seq(Words)
  PROVE  /\ Preprocess(p, words) \in Seq(Words)
         /\ words = <<>> => Preprocess(p, words) = <<>>
         /\ words # <<>> =>
              Preprocess(p, words) = HalvesOf(p, Head(words)) \o Preprocess(p, Tail(words))
<1> DEFINE g == [word \in Words |-> HalvesOf(p, word)]
<1>1. g \in [Words -> Seq(Words)]
  BY PiecesType
<1>2. \A ws \in Seq(Words) : Preprocess(p, ws) = Flat(g, ws)
  <2>1. SUFFICES ASSUME NEW ws \in Seq(Words) PROVE Preprocess(p, ws) = Flat(g, ws)
    OBVIOUS
  <2>2. \A k \in DOMAIN ws : ws[k] \in Words
    BY LenProperties
  <2>3. \A k \in DOMAIN ws : g[ws[k]] = HalvesOf(p, ws[k])
    BY <2>2
  <2> HIDE DEF g
  <2>4. [k \in DOMAIN ws |-> g[ws[k]]] = [k \in DOMAIN ws |-> HalvesOf(p, ws[k])]
    BY <2>3
  <2> QED
    BY <2>4 DEF Preprocess, HalvesOf, Flat
<1>3. \A word \in Words : g[word] = HalvesOf(p, word)
  OBVIOUS
<1> HIDE DEF g
<1>4. words # <<>> => Head(words) \in Words /\ Tail(words) \in Seq(Words)
  BY HeadTailProperties
<1>5. /\ Flat(g, words) \in Seq(Words)
      /\ words = <<>> => Flat(g, words) = <<>>
      /\ words # <<>> => Flat(g, words) = g[Head(words)] \o Flat(g, Tail(words))
  BY <1>1, FlatCons
<1> QED
  BY <1>2, <1>3, <1>4, <1>5

\* A plain word needs no splitting at "=", except in record.
LEMMA PreprocessPlain ==
  ASSUME NEW p \in {"ezcollect", "summarize"}, NEW words \in Seq(Words), Plain(words)
  PROVE  Preprocess(p, words) = words
<1> DEFINE T == {ws \in Seq(Words) : Plain(ws) => Preprocess(p, ws) = ws}
<1>1. <<>> \in T
  BY EmptySeq, PreprocessCons
<1>2. ASSUME NEW ws \in Seq(Words), ws # <<>>, Tail(ws) \in T PROVE ws \in T
  <2>1. SUFFICES ASSUME Plain(ws) PROVE Preprocess(p, ws) = ws
    OBVIOUS
  <2>2. /\ Len(ws) \in Nat \ {0} /\ DOMAIN ws = 1..Len(ws)
        /\ Head(ws) = ws[1] /\ Head(ws) \in Words
        /\ Tail(ws) \in Seq(Words) /\ Len(Tail(ws)) = Len(ws) - 1
        /\ \A k \in 1 .. Len(ws) - 1 : Tail(ws)[k] = ws[k + 1]
    BY <1>2, EmptySeq, HeadTailProperties, LenProperties
  <2>3. Plain(Tail(ws))
    <3>1. ASSUME NEW k \in DOMAIN Tail(ws) PROVE k + 1 \in DOMAIN ws /\ Tail(ws)[k] = ws[k + 1]
      <4>1. DOMAIN Tail(ws) = 1..Len(Tail(ws))
        BY <2>2, LenProperties
      <4> QED
        BY <2>2, <3>1, <4>1
    <3> QED
      BY <2>1, <3>1 DEF Plain
  <2>4. HalvesOf(p, Head(ws)) = <<Head(ws)>>
    <3>1. Assigned[ws[1]] # <<>> => ~IsName("summarize", Assigned[ws[1]][1])
      BY <2>1, <2>2 DEF Plain
    <3>2. \A word : IsName(p, word) => IsName("summarize", word)
      <4>1. \A a \in DOMAIN Parsers[p].args :
              a \in DOMAIN Parsers["summarize"].args /\ Arg(p, a) = Arg("summarize", a)
        <5>1. LET args == Parsers["ezcollect"].args
              IN args["h"] = Help /\ args["v"] = Version /\ args["g"] = Debug
          BY DEF Parsers
        <5>2. LET args == Parsers["summarize"].args
              IN args["h"] = Help /\ args["v"] = Version /\ args["g"] = Debug
          BY DEF Parsers
        <5> QED
          BY <5>1, <5>2, ParsersAre DEF Arg
      <4> QED
        BY <4>1 DEF IsName
    <3> QED
      BY <2>2, <3>1, <3>2 DEF HalvesOf
  <2>5. ws = <<Head(ws)>> \o Tail(ws)
    BY <1>2
  <2> QED
    BY <1>2, <2>2, <2>3, <2>4, <2>5, PreprocessCons
<1> HIDE DEF T
<1>3. words \in T
  BY <1>1, <1>2, SequenceInduction
<1> QED
  BY <1>3 DEF T

\* The greatest member of a set.
LEMMA MaxIs ==
  ASSUME NEW S, S \subseteq Nat, NEW x \in S, \A y \in S : y <= x
  PROVE  Max(S) = x
<1>1. ASSUME NEW z \in S, \A y \in S : z >= y PROVE z = x
  BY <1>1
<1>2. \A y \in S : x >= y
  OBVIOUS
<1> QED
  BY <1>1, <1>2 DEF Max

\* How many of the words, from the first on, are in Q.
InFront(words, Q) == {n \in 0..Len(words) : \A j \in 1..n : words[j] \in Q}
InRow(words, Q) == Max(InFront(words, Q))

\* InRow counts up to the first word that is not in Q.
LEMMA InRowIs ==
  ASSUME NEW words \in Seq(Words), NEW Q
  PROVE  LET m == InRow(words, Q)
         IN /\ m \in 0..Len(words)
            /\ \A j \in 1..m : words[j] \in Q
            /\ m < Len(words) => words[m + 1] \notin Q
            /\ \A n \in InFront(words, Q) : n <= m
<1> DEFINE S == InFront(words, Q)
<1>1. Len(words) \in Nat
  BY LenProperties
<1>2. 0 \in S /\ S \subseteq 0..Len(words)
  BY <1>1 DEF InFront
<1>3. \E x \in S : \A y \in S : y <= x
  <2> DEFINE T == {k \in Nat : (\A y \in S : y <= k) => \E x \in S : \A y \in S : y <= x}
  <2> HIDE DEF S
  <2>1. 0 \in T
    BY <1>2
  <2>2. ASSUME NEW k \in Nat, k \in T PROVE k + 1 \in T
    <3>1. SUFFICES ASSUME \A y \in S : y <= k + 1 PROVE \E x \in S : \A y \in S : y <= x
      OBVIOUS
    <3>2. CASE k + 1 \in S
      BY <3>1, <3>2
    <3>3. CASE k + 1 \notin S
      <4>1. \A y \in S : y <= k
        BY <1>1, <1>2, <3>1, <3>3
      <4> QED
        BY <2>2, <4>1
    <3> QED
      BY <3>2, <3>3
  <2> HIDE DEF T
  <2>3. Len(words) \in T
    BY <1>1, <2>1, <2>2, Induction
  <2>4. \A y \in S : y <= Len(words)
    BY <1>1, <1>2
  <2> QED
    BY <2>3, <2>4 DEF T
<1>4. PICK m \in S : \A y \in S : y <= m
  BY <1>3
<1>5. InRow(words, Q) = m
  <2>1. S \subseteq Nat
    BY <1>1, <1>2
  <2> QED
    BY <1>4, <2>1, MaxIs DEF InRow
<1>6. m \in 0..Len(words) /\ \A j \in 1..m : words[j] \in Q
  BY <1>4 DEF InFront
<1>7. m < Len(words) => words[m + 1] \notin Q
  <2>1. SUFFICES ASSUME m < Len(words), words[m + 1] \in Q PROVE FALSE
    OBVIOUS
  <2>2. m + 1 \in 0..Len(words)
    BY <1>1, <1>6, <2>1
  <2>3. \A j \in 1 .. m + 1 : words[j] \in Q
    BY <1>6, <2>1
  <2>4. m + 1 \in S
    BY <2>2, <2>3 DEF InFront
  <2>5. m + 1 <= m
    BY <1>4, <2>4
  <2> QED
    BY <1>6, <2>5
<1> QED
  BY <1>4, <1>5, <1>6, <1>7

\* And is the only number that does.
LEMMA InRowUnique ==
  ASSUME NEW words \in Seq(Words), NEW Q, NEW n \in 0..Len(words),
         \A j \in 1..n : words[j] \in Q, n < Len(words) => words[n + 1] \notin Q
  PROVE  InRow(words, Q) = n
<1> DEFINE m == InRow(words, Q)
<1>1. /\ m \in 0..Len(words) /\ \A j \in 1..m : words[j] \in Q
      /\ \A x \in InFront(words, Q) : x <= m
  BY InRowIs
<1>2. Len(words) \in Nat
  BY LenProperties
<1>3. n \in InFront(words, Q)
  BY DEF InFront
<1> HIDE DEF m
<1>4. n <= m
  BY <1>1, <1>3
<1>5. ~(n < m)
  <2>1. SUFFICES ASSUME n < m PROVE FALSE
    OBVIOUS
  <2>2. n + 1 \in 1..m /\ n < Len(words)
    BY <1>1, <1>2, <2>1
  <2> QED
    BY <1>1, <2>2
<1>6. m = n
  BY <1>1, <1>2, <1>4, <1>5
<1> QED
  BY <1>6 DEF m

\* The words from one on.
LEMMA RestIs ==
  ASSUME NEW words \in Seq(Words), NEW k \in 0..Len(words)
  PROVE  LET others == SubSeq(words, k + 1, Len(words))
         IN /\ others \in Seq(Words) /\ Len(others) = Len(words) - k
            /\ \A j \in 1 .. Len(words) - k : others[j] = words[k + j]
            /\ others = <<>> <=> k = Len(words)
            /\ k < Len(words) => /\ Head(others) = words[k + 1]
                                 /\ Tail(others) = SubSeq(words, k + 2, Len(words))
<1> DEFINE others == SubSeq(words, k + 1, Len(words))
<1>1. /\ Len(words) \in Nat /\ \A i \in 1..Len(words) : words[i] \in Words
  BY LenProperties
<1>2. \A i \in k + 1 .. Len(words) : words[i] \in Words
  BY <1>1
<1>3. /\ others \in Seq(Words)
      /\ Len(others) = IF k + 1 <= Len(words) THEN Len(words) - (k + 1) + 1 ELSE 0
      /\ \A i \in 1 .. Len(words) - (k + 1) + 1 : others[i] = words[(k + 1) + i - 1]
  BY <1>1, <1>2, SubSeqProperties
<1> HIDE DEF others
<1>4. Len(others) = Len(words) - k
  BY <1>1, <1>3
<1>5. ASSUME NEW j \in 1 .. Len(words) - k PROVE others[j] = words[k + j]
  <2>1. j \in 1 .. Len(words) - (k + 1) + 1 /\ (k + 1) + j - 1 = k + j
    BY <1>1
  <2> QED
    BY <1>3, <2>1
<1>6. others = <<>> <=> k = Len(words)
  <2>1. CASE k = Len(words)
    <3>1. Len(others) = 0
      BY <1>1, <1>4, <2>1
    <3> QED
      BY <1>3, <2>1, <3>1, EmptySeq
  <2>2. CASE k # Len(words)
    <3>1. Len(others) # Len(<<>>)
      BY <1>1, <1>4, <2>2
    <3>2. others # <<>>
      BY <3>1, Zenon
    <3> QED
      BY <2>2, <3>2
  <2> QED
    BY <2>1, <2>2
<1>7. k < Len(words) => /\ Head(others) = words[k + 1]
                        /\ Tail(others) = SubSeq(words, k + 2, Len(words))
  <2>1. SUFFICES ASSUME k < Len(words)
                 PROVE  /\ Head(others) = words[k + 1]
                        /\ Tail(others) = SubSeq(words, k + 2, Len(words))
    OBVIOUS
  <2>2. k + 1 \in 1..Len(words) /\ Len(words) \in k + 1 .. Len(words)
    BY <1>1, <2>1
  <2>3. (k + 1) + 1 = k + 2
    BY <1>1
  <2> QED
    BY <2>2, <2>3, HeadTailOfSubSeq DEF others
<1> QED
  BY <1>3, <1>4, <1>5, <1>6, <1>7 DEF others

\* Run counts the positional words.
LEMMA RunIs ==
  ASSUME NEW words \in Seq(Words), NEW k \in 0..Len(words)
  PROVE  /\ Run(words, k) = InRow(SubSeq(words, k + 1, Len(words)), Positional)
         /\ Run(words, k) \in 0 .. Len(words) - k
         /\ \A j \in k + 1 .. k + Run(words, k) : words[j] \in Positional
         /\ k + Run(words, k) < Len(words) => words[k + Run(words, k) + 1] \notin Positional
<1> DEFINE others == SubSeq(words, k + 1, Len(words))
           m == InRow(others, Positional)
           Right(n) == /\ \A j \in k+1 .. k+n : words[j] \in Positional
                       /\ k + n < Len(words) => words[k + n + 1] \notin Positional
<1>1. Len(words) \in Nat
  BY LenProperties
<1>2. /\ others \in Seq(Words) /\ Len(others) = Len(words) - k
      /\ \A j \in 1 .. Len(words) - k : others[j] = words[k + j]
  BY RestIs
<1>3. /\ m \in 0..Len(others) /\ \A j \in 1..m : others[j] \in Positional
      /\ m < Len(others) => others[m + 1] \notin Positional
  BY <1>2, InRowIs
<1> HIDE DEF m, others
<1>4. Right(m)
  <2>1. ASSUME NEW j \in k+1 .. k+m PROVE words[j] \in Positional
    <3>1. j - k \in 1..m /\ j - k \in 1 .. Len(words) - k /\ k + (j - k) = j
      BY <1>1, <1>2, <1>3
    <3> QED
      BY <1>2, <1>3, <3>1
  <2>2. ASSUME k + m < Len(words) PROVE words[k + m + 1] \notin Positional
    <3>1. m < Len(others) /\ m + 1 \in 1 .. Len(words) - k /\ k + (m + 1) = k + m + 1
      BY <1>1, <1>2, <1>3, <2>2
    <3> QED
      BY <1>2, <1>3, <3>1
  <2> QED
    BY <2>1, <2>2
<1>5. ASSUME NEW n \in 0 .. Len(words) - k, Right(n) PROVE n = m
  <2>1. ASSUME NEW j \in 1..n PROVE others[j] \in Positional
    <3>1. k + j \in k+1 .. k+n /\ j \in 1 .. Len(words) - k
      BY <1>1, <1>5
    <3> QED
      BY <1>2, <1>5, <3>1
  <2>2. ASSUME n < Len(others) PROVE others[n + 1] \notin Positional
    <3>1. k + n < Len(words) /\ n + 1 \in 1 .. Len(words) - k /\ k + (n + 1) = k + n + 1
      BY <1>1, <1>2, <1>5, <2>2
    <3> QED
      BY <1>2, <1>5, <3>1
  <2>3. n \in 0..Len(others)
    BY <1>2, <1>5
  <2> QED
    BY <1>2, <2>1, <2>2, <2>3, InRowUnique DEF m
<1>6. m \in 0 .. Len(words) - k
  BY <1>2, <1>3
<1>7. Run(words, k) = CHOOSE n \in 0 .. Len(words) - k : Right(n)
  BY DEF Run
<1> HIDE DEF Right
<1>8. Run(words, k) = m
  BY <1>4, <1>5, <1>6, <1>7
<1> QED
  BY <1>4, <1>6, <1>8 DEF Right, m, others

\* The first positional word.
LEMMA FirstIs ==
  ASSUME NEW words \in Seq(Words)
  PROVE  LET first == FirstPositional(words)
         IN /\ first \in 1 .. Len(words) + 1
            /\ \A j \in 1 .. first - 1 : words[j] \notin Positional
            /\ first <= Len(words) => words[first] \in Positional
<1> DEFINE n == InRow(words, Words \ Positional)
<1>1. /\ Len(words) \in Nat /\ DOMAIN words = 1..Len(words)
      /\ \A i \in 1..Len(words) : words[i] \in Words
  BY LenProperties
<1>2. /\ n \in 0..Len(words) /\ \A j \in 1..n : words[j] \in Words \ Positional
      /\ n < Len(words) => words[n + 1] \notin Words \ Positional
  BY InRowIs
<1> HIDE DEF n
<1> DEFINE Right(k) == words[k] \in Positional /\ \A j \in 1..k-1 : words[j] \notin Positional
<1>3. CASE \E k \in DOMAIN words : words[k] \in Positional
  <2>1. n < Len(words)
    BY <1>1, <1>2, <1>3
  <2>2. n + 1 \in DOMAIN words /\ Right(n + 1)
    BY <1>1, <1>2, <2>1
  <2>3. FirstPositional(words) = CHOOSE k \in DOMAIN words : Right(k)
    BY <1>3 DEF FirstPositional
  <2>4. FirstPositional(words) \in DOMAIN words /\ Right(FirstPositional(words))
    <3> HIDE DEF Right
    <3> QED
      BY <2>2, <2>3
  <2> QED
    BY <1>1, <2>4
<1>4. CASE ~\E k \in DOMAIN words : words[k] \in Positional
  <2>1. FirstPositional(words) = Len(words) + 1
    BY <1>4 DEF FirstPositional
  <2> QED
    BY <1>1, <1>4, <2>1
<1> QED
  BY <1>3, <1>4

\* And nothing else is.
LEMMA FirstUnique ==
  ASSUME NEW words \in Seq(Words), NEW k \in 1 .. Len(words) + 1,
         \A j \in 1 .. k - 1 : words[j] \notin Positional,
         k <= Len(words) => words[k] \in Positional
  PROVE  FirstPositional(words) = k
<1> DEFINE first == FirstPositional(words)
<1>1. /\ first \in 1 .. Len(words) + 1
      /\ \A j \in 1 .. first - 1 : words[j] \notin Positional
      /\ first <= Len(words) => words[first] \in Positional
  BY FirstIs
<1>2. Len(words) \in Nat
  BY LenProperties
<1> HIDE DEF first
<1>3. ~(first < k)
  BY <1>1, <1>2
<1>4. ~(k < first)
  BY <1>1, <1>2
<1>5. first = k
  BY <1>1, <1>2, <1>3, <1>4
<1> QED
  BY <1>5 DEF first

\* A part of the words after the first.
LEMMA TailPart ==
  ASSUME NEW words \in Seq(Words), words # <<>>,
         NEW m \in 1..Len(words), NEW n \in 0 .. Len(words) - 1
  PROVE  SubSeq(Tail(words), m, n) = SubSeq(words, m + 1, n + 1)
<1>1. /\ Len(words) \in Nat \ {0} /\ \A i \in 1..Len(words) : words[i] \in Words
      /\ Tail(words) \in Seq(Words) /\ Len(Tail(words)) = Len(words) - 1
      /\ \A i \in 1 .. Len(words) - 1 : Tail(words)[i] = words[i + 1]
  BY EmptySeq, LenProperties, HeadTailProperties
<1>2. \A i \in m..n : Tail(words)[i] = words[i + 1] /\ Tail(words)[i] \in Words
  BY <1>1
<1>3. \A i \in m + 1 .. n + 1 : words[i] \in Words
  BY <1>1
<1>4. /\ SubSeq(Tail(words), m, n) \in Seq(Words)
      /\ Len(SubSeq(Tail(words), m, n)) = IF m <= n THEN n - m + 1 ELSE 0
      /\ \A i \in 1 .. n - m + 1 : SubSeq(Tail(words), m, n)[i] = Tail(words)[m + i - 1]
  BY <1>2, SubSeqProperties
<1>5. /\ SubSeq(words, m + 1, n + 1) \in Seq(Words)
      /\ Len(SubSeq(words, m + 1, n + 1)) = IF m + 1 <= n + 1 THEN (n + 1) - (m + 1) + 1 ELSE 0
      /\ \A i \in 1 .. (n + 1) - (m + 1) + 1 :
           SubSeq(words, m + 1, n + 1)[i] = words[(m + 1) + i - 1]
  BY <1>3, SubSeqProperties
<1> DEFINE left == SubSeq(Tail(words), m, n)
           right == SubSeq(words, m + 1, n + 1)
<1> HIDE DEF left, right
<1>6. Len(left) = Len(right) /\ \A i \in 1..Len(left) : left[i] = right[i]
  <2>1. Len(left) = Len(right)
    BY <1>1, <1>4, <1>5 DEF left, right
  <2>2. ASSUME NEW i \in 1..Len(left) PROVE left[i] = right[i]
    <3>1. /\ i \in 1 .. n - m + 1 /\ i \in 1 .. (n + 1) - (m + 1) + 1
          /\ m + i - 1 \in m..n /\ (m + i - 1) + 1 = (m + 1) + i - 1
      BY <1>1, <1>4, <2>2 DEF left
    <3>2. left[i] = Tail(words)[m + i - 1] /\ right[i] = words[(m + 1) + i - 1]
      BY <1>4, <1>5, <3>1 DEF left, right
    <3>3. Tail(words)[m + i - 1] = words[(m + i - 1) + 1]
      BY <1>2, <3>1
    <3> QED
      BY <3>1, <3>2, <3>3
  <2> QED
    BY <2>1, <2>2
<1>7. left = right
  BY <1>4, <1>5, <1>6, SeqEqual DEF left, right
<1> QED
  BY <1>7 DEF left, right

\* The words up to the first positional one, and those from it on.
LEMMA Divides ==
  ASSUME NEW words \in Seq(Words)
  PROVE  /\ UpToPositional(words) \in Seq(Words) /\ FromPositional(words) \in Seq(Words)
         /\ words = <<>> => UpToPositional(words) = <<>> /\ FromPositional(words) = <<>>
         /\ words # <<>> /\ Head(words) \in Positional =>
              UpToPositional(words) = <<>> /\ FromPositional(words) = words
         /\ words # <<>> /\ Head(words) \notin Positional =>
              /\ UpToPositional(words) = <<Head(words)>> \o UpToPositional(Tail(words))
              /\ FromPositional(words) = FromPositional(Tail(words))
<1> DEFINE first == FirstPositional(words)
           n == Len(words)
<1>1. n \in Nat /\ \A i \in 1..n : words[i] \in Words
  BY LenProperties
<1>2. /\ first \in 1 .. n + 1
      /\ \A j \in 1 .. first - 1 : words[j] \notin Positional
      /\ first <= n => words[first] \in Positional
  BY FirstIs
<1>3. UpToPositional(words) = SubSeq(words, 1, first - 1)
  BY DEF UpToPositional
<1>4. FromPositional(words) = SubSeq(words, first, n)
  BY DEF FromPositional
<1> HIDE DEF first, n
<1>5. UpToPositional(words) \in Seq(Words) /\ FromPositional(words) \in Seq(Words)
  <2>1. /\ \A i \in 1 .. first - 1 : words[i] \in Words
        /\ \A i \in first .. n : words[i] \in Words
    BY <1>1, <1>2
  <2>2. first - 1 \in Int /\ first \in Int /\ n \in Int /\ 1 \in Int
    BY <1>1, <1>2
  <2> QED
    BY <1>3, <1>4, <2>1, <2>2, SubSeqProperties
<1>6. ASSUME words = <<>> PROVE UpToPositional(words) = <<>> /\ FromPositional(words) = <<>>
  <2>1. n = 0
    BY <1>6, EmptySeq DEF n
  <2>2. first = 1
    BY <1>2, <2>1
  <2> QED
    BY <1>3, <1>4, <2>1, <2>2, SubSeqEmpty
<1>7. words # <<>> => n # 0 /\ Head(words) = words[1]
  BY EmptySeq DEF n
<1>8. ASSUME words # <<>>, Head(words) \in Positional
      PROVE  UpToPositional(words) = <<>> /\ FromPositional(words) = words
  <2>1. first = 1
    <3>1. ~(1 \in 1 .. first - 1)
      BY <1>2, <1>7, <1>8
    <3> QED
      BY <1>2, <3>1
  <2>2. SubSeq(words, 1, n) = words
    BY SubSeqFull DEF n
  <2> QED
    BY <1>3, <1>4, <2>1, <2>2, SubSeqEmpty
<1>9. ASSUME words # <<>>, Head(words) \notin Positional
      PROVE  /\ UpToPositional(words) = <<Head(words)>> \o UpToPositional(Tail(words))
             /\ FromPositional(words) = FromPositional(Tail(words))
  <2>1. /\ Tail(words) \in Seq(Words) /\ Len(Tail(words)) = n - 1
        /\ \A i \in 1 .. n - 1 : Tail(words)[i] = words[i + 1]
    BY <1>9, HeadTailProperties DEF n
  <2>2. first \in 2 .. n + 1
    <3>1. first # 1
      BY <1>1, <1>2, <1>7, <1>9
    <3> QED
      BY <1>1, <1>2, <3>1
  <2>3. FirstPositional(Tail(words)) = first - 1
    <3>1. first - 1 \in 1 .. Len(Tail(words)) + 1
      BY <1>1, <2>1, <2>2
    <3>2. ASSUME NEW j \in 1 .. (first - 1) - 1 PROVE Tail(words)[j] \notin Positional
      <4>1. j \in 1 .. n - 1 /\ j + 1 \in 1 .. first - 1
        BY <1>1, <2>2, <3>2
      <4> QED
        BY <1>2, <2>1, <4>1
    <3>3. ASSUME first - 1 <= Len(Tail(words)) PROVE Tail(words)[first - 1] \in Positional
      <4>1. first - 1 \in 1 .. n - 1 /\ first <= n /\ (first - 1) + 1 = first
        BY <1>1, <2>1, <2>2, <3>3
      <4> QED
        BY <1>2, <2>1, <4>1
    <3> QED
      BY <2>1, <3>1, <3>2, <3>3, FirstUnique
  <2>4. SubSeq(Tail(words), 1, (first - 1) - 1) = SubSeq(words, 2, first - 1)
    <3>1. /\ 1 \in 1..n /\ (first - 1) - 1 \in 0 .. n - 1
          /\ ((first - 1) - 1) + 1 = first - 1 /\ 1 + 1 = 2
      BY <1>1, <1>7, <1>9, <2>2
    <3> QED
      BY <1>9, <3>1, TailPart DEF n
  <2>5. SubSeq(words, 1, first - 1) = <<words[1]>> \o SubSeq(words, 2, first - 1)
    <3>1. 1 \in 1..n /\ first - 1 \in 1..n /\ 1 + 1 = 2
      BY <1>1, <1>7, <1>9, <2>2
    <3> QED
      BY <3>1, SubSeqRecursiveFirst DEF n
  <2>6. SubSeq(Tail(words), first - 1, n - 1) = SubSeq(words, first, n)
    <3>1. /\ first - 1 \in 1..n /\ n - 1 \in 0 .. n - 1
          /\ (n - 1) + 1 = n /\ (first - 1) + 1 = first
      BY <1>1, <1>7, <1>9, <2>2
    <3> QED
      BY <1>9, <3>1, TailPart DEF n
  <2>7. UpToPositional(Tail(words)) = SubSeq(Tail(words), 1, (first - 1) - 1)
    BY <2>3 DEF UpToPositional
  <2>8. FromPositional(Tail(words)) = SubSeq(Tail(words), first - 1, n - 1)
    BY <2>1, <2>3 DEF FromPositional
  <2> QED
    BY <1>3, <1>4, <1>7, <1>9, <2>4, <2>5, <2>6, <2>7, <2>8
<1> QED
  BY <1>5, <1>6, <1>8, <1>9

\* What p makes of its words that are still to be read.
Out(p, words) ==
  CASE p = "ezcollect" -> WrittenOut(words)
    [] p = "record"    -> LettersOut("record", words)
    [] p = "summarize" -> PartOut("summarize", words)

\* A positional word is one piece.
LEMMA PositionalIs ==
  ASSUME NEW word \in Words, word \in Positional, NEW p
  PROVE  LettersOf(p, word) = <<word>> /\ HalvesOf(p, word) = <<word>>
BY ArgParserAssumption DEF LettersOf, HalvesOf

\* What is written out is made of words.
LEMMA PartOutType ==
  ASSUME NEW p, NEW words \in Seq(Words)
  PROVE  PartOut(p, words) \in Seq(Words)
<1>1. LettersOut("record", Preprocess("record", words)) \in Seq(Words)
  BY LettersOutCons, PreprocessCons
<1>2. LettersOut("summarize", UpToPositional(words)) \in Seq(Words)
  BY Divides, LettersOutCons
<1>3. LettersOut("summarize", UpToPositional(words)) \o FromPositional(words) \in Seq(Words)
  BY <1>2, Divides, ConcatProperties
<1> QED
  BY <1>1, <1>3 DEF PartOut

\* From the subcommand on, it is.
LEMMA BehindType ==
  ASSUME NEW part \in Seq(Words)
  PROVE  (IF part = <<>> THEN <<>> ELSE <<Head(part)>> \o PartOut(Head(part), Tail(part)))
           \in Seq(Words)
<1>1. CASE part = <<>>
  BY <1>1
<1>2. CASE part # <<>>
  <2>1. <<Head(part)>> \in Seq(Words) /\ Tail(part) \in Seq(Words)
    BY <1>2, HeadTailProperties
  <2>2. PartOut(Head(part), Tail(part)) \in Seq(Words)
    BY <2>1, PartOutType
  <2> QED
    BY <1>2, <2>1, <2>2, ConcatProperties
<1> QED
  BY <1>1, <1>2

\* Word by word.
LEMMA OutIs ==
  ASSUME NEW p \in {"ezcollect", "record", "summarize"}, NEW words \in Seq(Words)
  PROVE  /\ Out(p, words) \in Seq(Words)
         /\ words = <<>> => Out(p, words) = <<>>
         /\ words # <<>> /\ (Head(words) \notin Positional \/ p = "record") =>
              Out(p, words) = LettersOf(p, Head(words)) \o Out(p, Tail(words))
         /\ words # <<>> /\ Head(words) \in Positional /\ p = "ezcollect" =>
              Out(p, words) = <<Head(words)>> \o PartOut(Head(words), Tail(words))
         /\ words # <<>> /\ Head(words) \in Positional /\ p = "summarize" =>
              Out(p, words) = words
<1>1. words # <<>> => Head(words) \in Words /\ Tail(words) \in Seq(Words)
  BY HeadTailProperties
<1> DEFINE Behind(part) ==
             IF part = <<>> THEN <<>> ELSE <<Head(part)>> \o PartOut(Head(part), Tail(part))
           Rear(part) == IF p = "ezcollect" THEN Behind(part) ELSE part
<1>2. ASSUME NEW part \in Seq(Words) PROVE Rear(part) \in Seq(Words)
  BY BehindType
<1>3. CASE p = "record"
  <2>1. \A ws : Out(p, ws) = LettersOut("record", ws)
    BY <1>3 DEF Out
  <2> QED
    BY <1>1, <1>3, <2>1, LettersOutCons
<1>4. CASE p # "record"
  <2>1. \A ws : Out(p, ws) = LettersOut(p, UpToPositional(ws)) \o Rear(FromPositional(ws))
    BY <1>4 DEF Out, WrittenOut, PartOut
  <2>2. LettersOut(p, UpToPositional(words)) \in Seq(Words) /\ FromPositional(words) \in Seq(Words)
    BY Divides, LettersOutCons
  <2>3. Out(p, words) \in Seq(Words)
    <3>1. Rear(FromPositional(words)) \in Seq(Words)
      BY <1>2, <2>2
    <3> HIDE DEF Rear
    <3> QED
      BY <2>1, <2>2, <3>1, ConcatProperties
  <2>4. ASSUME UpToPositional(words) = <<>> PROVE Out(p, words) = Rear(FromPositional(words))
    <3>1. LettersOut(p, UpToPositional(words)) = <<>>
      BY <2>4, LettersOutCons, EmptySeq
    <3>2. Rear(FromPositional(words)) \in Seq(Words)
      BY <1>2, <2>2
    <3> HIDE DEF Rear
    <3> QED
      BY <2>1, <3>1, <3>2, ConcatEmptySeq
  <2>5. words = <<>> => Out(p, words) = <<>>
    BY <2>4, Divides
  <2>6. ASSUME words # <<>>, Head(words) \in Positional
        PROVE  Out(p, words) = IF p = "ezcollect"
                               THEN <<Head(words)>> \o PartOut(Head(words), Tail(words))
                               ELSE words
    <3>1. UpToPositional(words) = <<>> /\ FromPositional(words) = words
      BY <2>6, Divides
    <3> QED
      BY <2>4, <2>6, <3>1
  <2>7. ASSUME words # <<>>, Head(words) \notin Positional
        PROVE  Out(p, words) = LettersOf(p, Head(words)) \o Out(p, Tail(words))
    <3> DEFINE front == UpToPositional(Tail(words))
               rear == Rear(FromPositional(Tail(words)))
               head == LettersOf(p, Head(words))
    <3>1. /\ UpToPositional(words) = <<Head(words)>> \o front
          /\ FromPositional(words) = FromPositional(Tail(words))
      BY <2>7, Divides
    <3>2. front \in Seq(Words) /\ FromPositional(Tail(words)) \in Seq(Words)
      BY <1>1, <2>7, Divides
    <3>3. rear \in Seq(Words)
      BY <1>2, <3>2
    <3>4. Out(p, words) = LettersOut(p, UpToPositional(words)) \o rear
      BY <2>1, <3>1
    <3>5. Out(p, Tail(words)) = LettersOut(p, front) \o rear
      BY <2>1
    <3> HIDE DEF front, rear, Rear
    <3>6. LettersOut(p, UpToPositional(words)) = head \o LettersOut(p, front)
      <4> DEFINE ws == <<Head(words)>> \o front
      <4>1. ws \in Seq(Words) /\ ws # <<>> /\ Head(ws) = Head(words) /\ Tail(ws) = front
        BY <1>1, <2>7, <3>2
      <4> HIDE DEF ws
      <4>2. LettersOut(p, ws) = LettersOf(p, Head(ws)) \o LettersOut(p, Tail(ws))
        BY <4>1, LettersOutCons
      <4> QED
        BY <3>1, <4>1, <4>2 DEF ws
    <3>7. head \in Seq(Words) /\ LettersOut(p, front) \in Seq(Words)
      BY <1>1, <2>7, <3>2, PiecesType, LettersOutCons
    <3> HIDE DEF head
    <3>8. (head \o LettersOut(p, front)) \o rear = head \o (LettersOut(p, front) \o rear)
      <4>1. \A a, b, c \in Seq(Words) : (a \o b) \o c = a \o (b \o c)
        BY ConcatAssociative
      <4> QED
        BY <3>3, <3>7, <4>1, Zenon
    <3> QED
      BY <3>4, <3>5, <3>6, <3>8 DEF head
  <2> QED
    BY <1>4, <2>3, <2>5, <2>6, <2>7
<1> QED
  BY <1>3, <1>4

\* What Plain says of a word, unless p has an option of that name.
Lettered(p) == {word \in Words : IsName(p, word) \/ PlainLetters(word)}

PlainRest(p, words) == words \in Seq(Lettered(p)) /\ (p # "record" => Plain(words))

\* The letters of a plain line are plain.
LEMMA PlainIsLettered ==
  ASSUME NEW p, NEW words \in Seq(Words), Plain(words)
  PROVE  words \in Seq(Lettered(p))
<1>1. Len(words) \in Nat /\ words \in [1..Len(words) -> Words] /\ DOMAIN words = 1..Len(words)
  BY LenProperties
<1>2. \A k \in 1..Len(words) : words[k] \in Lettered(p)
  BY <1>1 DEF Plain, Lettered
<1>3. words \in [1..Len(words) -> Lettered(p)]
  BY <1>1, <1>2
<1> QED
  BY <1>1, <1>3, SeqDef

\* A plain line stays plain when it is read.
LEMMA PlainTail ==
  ASSUME NEW words \in Seq(Words), words # <<>>, Plain(words)
  PROVE  Plain(Tail(words))
<1>1. /\ Tail(words) \in Seq(Words) /\ Len(Tail(words)) = Len(words) - 1
      /\ \A k \in 1 .. Len(words) - 1 : Tail(words)[k] = words[k + 1]
      /\ Len(words) \in Nat /\ DOMAIN words = 1..Len(words)
      /\ DOMAIN Tail(words) = 1..Len(Tail(words))
  BY HeadTailProperties, LenProperties
<1>2. ASSUME NEW k \in DOMAIN Tail(words)
      PROVE  k + 1 \in DOMAIN words /\ Tail(words)[k] = words[k + 1]
  BY <1>1, <1>2
<1> QED
  BY <1>2 DEF Plain

\* And so does what is left.
LEMMA PlainRestTail ==
  ASSUME NEW p, NEW words, words # <<>>, PlainRest(p, words)
  PROVE  /\ words \in Seq(Words) /\ Head(words) \in Lettered(p)
         /\ PlainRest(p, Tail(words))
<1>1. words \in Seq(Lettered(p)) /\ Lettered(p) \subseteq Words
  BY DEF PlainRest, Lettered
<1>2. words \in Seq(Words)
  BY <1>1, SeqMonotonic
<1>3. Head(words) \in Lettered(p) /\ Tail(words) \in Seq(Lettered(p))
  BY <1>1, HeadTailProperties
<1> QED
  BY <1>2, <1>3, PlainTail DEF PlainRest

\* Of a plain line, record has only words whose letters are plain.
LEMMA PreprocessLettered ==
  ASSUME NEW words \in Seq(Words), Plain(words)
  PROVE  Preprocess("record", words) \in Seq(Lettered("record"))
<1> DEFINE L == Lettered("record")
           T == {ws \in Seq(Words) : Plain(ws) => Preprocess("record", ws) \in Seq(L)}
<1>1. <<>> \in T
  <2>1. Preprocess("record", <<>>) = <<>>
    BY EmptySeq, PreprocessCons
  <2> QED
    BY <2>1, EmptySeq
<1>2. ASSUME NEW ws \in Seq(Words), ws # <<>>, Tail(ws) \in T PROVE ws \in T
  <2>1. SUFFICES ASSUME Plain(ws) PROVE Preprocess("record", ws) \in Seq(L)
    OBVIOUS
  <2>2. Preprocess("record", Tail(ws)) \in Seq(L)
    BY <1>2, <2>1, PlainTail
  <2> DEFINE word == Head(ws)
  <2>3. word \in Words /\ word = ws[1] /\ 1 \in DOMAIN ws
    <3>1. Len(ws) \in Nat \ {0} /\ DOMAIN ws = 1..Len(ws)
      BY <1>2, EmptySeq, LenProperties
    <3> QED
      BY <1>2, <3>1, HeadTailProperties
  <2>4. /\ PlainLetters(word)
        /\ Assigned[word] # <<>> => PlainLetters(Assigned[word][2])
    BY <2>1, <2>3 DEF Plain
  <2> HIDE DEF word
  <2>5. HalvesOf("record", word) \in Seq(L)
    <3>1. CASE HalvesOf("record", word) = <<word>>
      <4>1. word \in L
        BY <2>3, <2>4 DEF Lettered
      <4>2. <<word>> \in Seq(L)
        BY <4>1
      <4> QED
        BY <3>1, <4>2
    <3>2. CASE HalvesOf("record", word) # <<word>>
      <4>1. /\ HalvesOf("record", word) = Assigned[word]
            /\ Assigned[word] # <<>> /\ IsName("record", Assigned[word][1])
        BY <3>2 DEF HalvesOf
      <4>2. /\ Assigned[word][1] \in Words /\ Assigned[word][2] \in Words
            /\ Assigned[word] = <<Assigned[word][1], Assigned[word][2]>>
        BY <2>3, <4>1, PiecesType
      <4>3. Assigned[word][1] \in L /\ Assigned[word][2] \in L
        BY <2>4, <4>1, <4>2 DEF Lettered
      <4>4. <<Assigned[word][1], Assigned[word][2]>> \in Seq(L)
        BY <4>3
      <4> QED
        BY <4>1, <4>2, <4>4
    <3> QED
      BY <3>1, <3>2
  <2>6. Preprocess("record", ws) = HalvesOf("record", word) \o Preprocess("record", Tail(ws))
    BY <1>2, PreprocessCons DEF word
  <2> QED
    BY <2>2, <2>5, <2>6, ConcatProperties
<1> HIDE DEF T
<1>3. words \in T
  BY <1>1, <1>2, SequenceInduction
<1> QED
  BY <1>3 DEF T

\* What an option takes: the positional words after it, up to its maximum.
Usual(arg) ==
  /\ Ranged(arg) /\ ~arg.takes_options
  /\ (arg.max = 0 /\ arg.min = 0) \/ (arg.max > 0 /\ arg.min = 1)

\* Taken and TooFew of such an option follow from the positional words in front.
LEMMA TakenIs ==
  ASSUME NEW arg, Usual(arg), NEW words \in Seq(Words)
  PROVE  LET n == Least(InRow(words, Positional), arg.max)
         IN /\ n \in 0..Len(words) /\ n <= InRow(words, Positional) /\ n <= arg.max
            /\ Taken(arg, words) = SubSeq(words, 1, n)
            /\ Len(Taken(arg, words)) = n
            /\ TooFew(arg, words) <=> /\ InRow(words, Positional) < arg.min
                                      /\ words = <<>> => ~arg.has_default
<1> DEFINE m == InRow(words, Positional)
           n == Least(m, arg.max)
           most == Least(arg.max, Len(words))
           before == {x \in 0..most : \A k \in 1..x : words[k] \in Positional}
<1>1. /\ m \in 0..Len(words) /\ \A j \in 1..m : words[j] \in Positional
      /\ \A x \in InFront(words, Positional) : x <= m
  BY InRowIs
<1>2. Len(words) \in Nat /\ arg.max \in Nat /\ arg.min \in Nat
  BY LenProperties DEF Usual, Ranged
<1> HIDE DEF m
<1>3. n \in 0..Len(words) /\ n <= m /\ n <= arg.max
  BY <1>1, <1>2 DEF Least
<1>4. most \in 0..Len(words) /\ n \in 0..most
  BY <1>1, <1>2 DEF Least
<1>5. Max(before) = n
  <2>1. n \in before
    BY <1>1, <1>2, <1>3, <1>4
  <2>2. ASSUME NEW x \in before PROVE x <= n
    <3>1. x \in 0..most /\ x \in InFront(words, Positional)
      BY <1>2, <1>4, <2>2 DEF InFront
    <3>2. x <= m /\ x <= arg.max
      BY <1>1, <1>2, <3>1 DEF Least
    <3> QED
      BY <1>1, <1>2, <3>2 DEF Least
  <2>3. before \subseteq Nat
    BY <1>4
  <2> HIDE DEF before
  <2> QED
    BY <2>1, <2>2, <2>3, MaxIs
<1>6. Offered(arg, words) = SubSeq(words, 1, n)
  BY <1>5 DEF Offered, Usual
<1> HIDE DEF n, most
<1>7. Len(SubSeq(words, 1, n)) = n
  <2>1. \A i \in 1..n : words[i] \in Words
    BY <1>2, <1>3, LenProperties
  <2>2. 1 \in Int /\ n \in Int
    BY <1>3
  <2>3. Len(SubSeq(words, 1, n)) = IF 1 <= n THEN n - 1 + 1 ELSE 0
    BY <2>1, <2>2, SubSeqProperties
  <2> QED
    BY <1>3, <2>3
<1>8. Taken(arg, words) = SubSeq(words, 1, n)
  <2>1. CASE arg.max = 0 \/ Len(words) < arg.min
    <3>1. n = 0
      <4>1. arg.max = 0 => n = 0
        BY <1>2, <1>3
      <4>2. Len(words) < arg.min => n = 0
        BY <1>2, <1>3 DEF Usual
      <4> QED
        BY <2>1, <4>1, <4>2
    <3>2. Taken(arg, words) = <<>>
      BY <2>1 DEF Taken
    <3> QED
      BY <3>1, <3>2, SubSeqEmpty
  <2>2. CASE ~(arg.max = 0 \/ Len(words) < arg.min)
    BY <1>6, <2>2 DEF Taken
  <2> QED
    BY <2>1, <2>2
<1>9. TooFew(arg, words) <=> m < arg.min /\ (words = <<>> => ~arg.has_default)
  <2>1. CASE arg.max = 0
    BY <1>1, <1>2, <2>1 DEF TooFew, Usual
  <2>2. CASE arg.max # 0
    <3>1. arg.min = 1 /\ arg.max > 0
      BY <1>2, <2>2 DEF Usual
    <3>2. Len(words) < arg.min <=> words = <<>>
      <4>1. words = <<>> => Len(words) = 0
        BY EmptySeq
      <4>2. words # <<>> => Len(words) # 0
        BY EmptySeq
      <4> QED
        BY <1>2, <3>1, <4>1, <4>2
    <3>3. TooFew(arg, words) <=>
            IF words = <<>> THEN ~arg.has_default ELSE n < 1
      BY <1>6, <1>7, <3>1, <3>2 DEF TooFew
    <3>4. n < 1 <=> m < 1
      BY <1>1, <1>2, <3>1 DEF n, Least
    <3>5. words = <<>> => m < 1
      BY <1>1, EmptySeq
    <3> QED
      BY <3>1, <3>3, <3>4, <3>5
  <2> QED
    BY <2>1, <2>2
<1> QED
  BY <1>3, <1>7, <1>8, <1>9 DEF n, m

\* The positional words in front stay in front when the words are written out.
LEMMA LeadOut ==
  ASSUME NEW words \in Seq(Lettered("record")),
         NEW m \in 0 .. InRow(words, Positional)
  PROVE  LET all == Out("record", words)
         IN /\ words \in Seq(Words) /\ all \in Seq(Words) /\ m \in 0..Len(all)
            /\ InRow(all, Positional) = InRow(words, Positional)
            /\ SubSeq(all, m + 1, Len(all)) = Out("record", SubSeq(words, m + 1, Len(words)))
            /\ SubSeq(all, 1, m) = SubSeq(words, 1, m)
<1> DEFINE r == InRow(words, Positional)
           all == Out("record", words)
           From(k) == SubSeq(words, k + 1, Len(words))
<1>1. words \in Seq(Words)
  BY SeqMonotonic DEF Lettered
<1>2. /\ r \in 0..Len(words) /\ \A j \in 1..r : words[j] \in Positional
      /\ r < Len(words) => words[r + 1] \notin Positional
  BY <1>1, InRowIs
<1>3. all \in Seq(Words)
  BY <1>1, OutIs
<1>4. /\ Len(words) \in Nat /\ Len(all) \in Nat
      /\ \A i \in 1..Len(words) : words[i] \in Lettered("record")
  BY <1>1, <1>3, LenProperties
<1>5. ASSUME NEW k \in 0..Len(words)
      PROVE  /\ From(k) \in Seq(Words) /\ (From(k) = <<>> <=> k = Len(words))
             /\ k < Len(words) => Head(From(k)) = words[k + 1] /\ Tail(From(k)) = From(k + 1)
  <2>1. From(k + 1) = SubSeq(words, k + 2, Len(words))
    <3>1. (k + 1) + 1 = k + 2
      OBVIOUS
    <3> QED
      BY <3>1
  <2>2. LET others == SubSeq(words, k + 1, Len(words))
        IN /\ others \in Seq(Words) /\ (others = <<>> <=> k = Len(words))
           /\ k < Len(words) => /\ Head(others) = words[k + 1]
                                /\ Tail(others) = SubSeq(words, k + 2, Len(words))
    BY <1>1, RestIs
  <2> QED
    BY <2>1, <2>2
<1> HIDE DEF From, r, all
<1>6. ASSUME NEW k \in 0..Len(words), k < Len(words)
      PROVE  Out("record", From(k))
               = LettersOf("record", words[k + 1]) \o Out("record", From(k + 1))
  <2>1. /\ From(k) \in Seq(Words) /\ From(k) # <<>>
        /\ Head(From(k)) = words[k + 1] /\ Tail(From(k)) = From(k + 1)
    BY <1>4, <1>5, <1>6
  <2> QED
    BY <2>1, OutIs
<1> DEFINE Alike(k) == /\ k <= Len(all)
                       /\ SubSeq(all, k + 1, Len(all)) = Out("record", From(k))
                       /\ \A j \in 1..k : all[j] = words[j]
           T == {k \in Nat : k <= r => Alike(k)}
<1> HIDE DEF Alike
<1>7. 0 \in T
  <2>1. SubSeq(all, 1, Len(all)) = all /\ SubSeq(words, 1, Len(words)) = words
    BY <1>1, <1>3, SubSeqFull
  <2>2. From(0) = words
    BY <2>1 DEF From
  <2> QED
    BY <1>4, <2>1, <2>2 DEF Alike, all
<1>8. ASSUME NEW k \in Nat, k \in T PROVE k + 1 \in T
  <2>1. SUFFICES ASSUME k + 1 <= r PROVE Alike(k + 1)
    OBVIOUS
  <2>2. /\ Alike(k) /\ k < Len(words) /\ k \in 0..Len(words)
        /\ k + 1 \in 1..r /\ k + 1 \in 0..Len(words)
    BY <1>2, <1>4, <1>8, <2>1
  <2>3. words[k + 1] \in Positional /\ words[k + 1] \in Words
    BY <1>1, <1>2, <1>4, <2>2
  <2>4. LettersOf("record", words[k + 1]) = <<words[k + 1]>>
    BY <2>3, PositionalIs
  <2> DEFINE others == Out("record", From(k + 1))
  <2>5. others \in Seq(Words)
    BY <1>5, <2>2, OutIs
  <2>6. SubSeq(all, k + 1, Len(all)) = <<words[k + 1]>> \o others
    BY <1>6, <2>2, <2>4 DEF Alike
  <2> HIDE DEF others
  <2>7. <<words[k + 1]>> \o others # <<>>
    BY <2>3, <2>5
  <2>8. k \in 0..Len(all) /\ k < Len(all)
    <3>1. k \in 0..Len(all)
      BY <1>4, <2>2 DEF Alike
    <3>2. k # Len(all)
      BY <1>3, <2>6, <2>7, <3>1, RestIs
    <3> QED
      BY <1>4, <3>1, <3>2
  <2>9. /\ Head(SubSeq(all, k + 1, Len(all))) = all[k + 1]
        /\ Tail(SubSeq(all, k + 1, Len(all))) = SubSeq(all, k + 2, Len(all))
    BY <1>3, <2>8, RestIs
  <2>10. all[k + 1] = words[k + 1] /\ SubSeq(all, k + 2, Len(all)) = others
    <3> DEFINE both == <<words[k + 1]>> \o others
    <3>1. Head(both) = words[k + 1] /\ Tail(both) = others
      BY <2>3, <2>5
    <3> HIDE DEF both
    <3>2. SubSeq(all, k + 1, Len(all)) = both
      BY <2>6 DEF both
    <3> QED
      BY <2>9, <3>1, <3>2, Zenon
  <2>11. \A j \in 1 .. k + 1 : all[j] = words[j]
    <3>1. ASSUME NEW j \in 1 .. k + 1 PROVE j = k + 1 \/ j \in 1..k
      BY <2>2
    <3> QED
      BY <2>2, <2>10, <3>1 DEF Alike
  <2>12. (k + 1) + 1 = k + 2 /\ k + 1 <= Len(all)
    BY <1>4, <2>8
  <2> QED
    BY <2>10, <2>11, <2>12 DEF Alike, others
<1> HIDE DEF T
<1>9. \A k \in 0..r : Alike(k)
  <2>1. Nat \subseteq T
    BY <1>7, <1>8, Induction
  <2> QED
    BY <1>2, <1>4, <2>1 DEF T
<1>10. InRow(all, Positional) = r
  <2>1. Alike(r)
    BY <1>2, <1>9
  <2>2. \A j \in 1..r : all[j] \in Positional
    BY <1>2, <2>1 DEF Alike
  <2>3. r \in 0..Len(all)
    BY <1>2, <1>4, <2>1 DEF Alike
  <2>4. ASSUME r < Len(all) PROVE all[r + 1] \notin Positional
    <3>1. Out("record", From(r)) # <<>> /\ Head(Out("record", From(r))) = all[r + 1]
      <4>1. SubSeq(all, r + 1, Len(all)) # <<>> /\ Head(SubSeq(all, r + 1, Len(all))) = all[r + 1]
        <5>1. r # Len(all)
          BY <1>4, <2>3, <2>4
        <5> QED
          BY <1>3, <2>3, <2>4, <5>1, RestIs
      <4> QED
        BY <2>1, <4>1 DEF Alike
    <3>2. r < Len(words)
      <4>1. r = Len(words) => Out("record", From(r)) = <<>>
        BY <1>2, <1>5, OutIs
      <4> QED
        BY <1>2, <1>4, <3>1, <4>1
    <3>3. words[r + 1] \notin Positional /\ words[r + 1] \in Lettered("record")
      BY <1>2, <1>4, <3>2
    <3> DEFINE first == LettersOf("record", words[r + 1])
               others == Out("record", From(r + 1))
    <3>4. Out("record", From(r)) = first \o others
      BY <1>2, <1>6, <3>2
    <3>5. first \in Seq(Words) /\ others \in Seq(Words)
      <4>1. words[r + 1] \in Words
        BY <3>3 DEF Lettered
      <4>2. r + 1 \in 0..Len(words)
        BY <1>2, <1>4, <3>2
      <4> QED
        BY <1>5, <4>1, <4>2, PiecesType, OutIs
    <3>6. first # <<>> /\ Head(first) \notin Positional
      <4>1. CASE first = <<words[r + 1]>>
        BY <3>3, <4>1
      <4>2. CASE first # <<words[r + 1]>>
        <5>1. /\ first = Letters[words[r + 1]] /\ first # <<>>
              /\ ~IsName("record", words[r + 1])
          BY <4>2 DEF LettersOf
        <5>2. \A j \in DOMAIN first : first[j] \notin Positional
          BY <3>3, <5>1 DEF Lettered, PlainLetters
        <5> HIDE DEF first
        <5>3. 1 \in DOMAIN first /\ Head(first) = first[1]
          BY <3>5, <5>1, EmptySeq, LenProperties
        <5> QED
          BY <5>1, <5>2, <5>3
      <4> QED
        BY <4>1, <4>2
    <3> HIDE DEF first, others
    <3>7. Head(first \o others) = Head(first)
      BY <3>5, <3>6
    <3> QED
      BY <3>1, <3>4, <3>6, <3>7
  <2> QED
    BY <1>3, <2>2, <2>3, <2>4, InRowUnique
<1>11. m \in 0..Len(all) /\ SubSeq(all, m + 1, Len(all)) = Out("record", From(m))
       /\ \A j \in 1..m : all[j] = words[j]
  <2>1. m \in 0..r
    BY DEF r
  <2>2. Alike(m)
    BY <1>9, <2>1
  <2> QED
    BY <1>4, <2>1, <2>2 DEF Alike
<1>12. SubSeq(all, 1, m) = SubSeq(words, 1, m)
  <2>1. m \in 0..Len(words) /\ m \in 0..Len(all)
    BY <1>2, <1>4, <1>11 DEF r
  <2>2. /\ \A i \in 1..m : all[i] \in Words
        /\ \A i \in 1..m : words[i] \in Words
    BY <1>1, <1>3, <1>4, <2>1, LenProperties
  <2>3. 1 \in Int /\ m \in Int /\ m - 1 + 1 = m
    BY <2>1
  <2> DEFINE left == SubSeq(all, 1, m)
             right == SubSeq(words, 1, m)
  <2>4. /\ left \in Seq(Words) /\ Len(left) = IF 1 <= m THEN m - 1 + 1 ELSE 0
        /\ \A i \in 1 .. m - 1 + 1 : left[i] = all[1 + i - 1]
    BY <2>2, <2>3, SubSeqProperties
  <2>5. /\ right \in Seq(Words) /\ Len(right) = IF 1 <= m THEN m - 1 + 1 ELSE 0
        /\ \A i \in 1 .. m - 1 + 1 : right[i] = words[1 + i - 1]
    BY <2>2, <2>3, SubSeqProperties
  <2> HIDE DEF left, right
  <2>6. Len(left) = m /\ Len(right) = m
    BY <2>1, <2>4, <2>5
  <2>7. ASSUME NEW i \in 1..Len(left) PROVE left[i] = right[i]
    <3>1. i \in 1 .. m - 1 + 1 /\ 1 + i - 1 = i /\ i \in 1..m
      BY <2>1, <2>6, <2>7
    <3> QED
      BY <1>11, <2>4, <2>5, <3>1
  <2>8. left = right
    BY <2>4, <2>5, <2>6, <2>7, SeqEqual
  <2> QED
    BY <2>8 DEF left, right
<1> QED
  BY <1>1, <1>3, <1>10, <1>11, <1>12 DEF all, r, From

\* Every argument but the files of summarize, which take all that is left.
LEMMA DeclaredUsual ==
  ASSUME NEW p \in DOMAIN Parsers, NEW a \in DOMAIN Parsers[p].args, a # "files"
  PROVE  Usual(Arg(p, a)) /\ (p # "record" => Arg(p, a).max = 0)
<1>1. Many \in Nat /\ Many # 0 /\ 1 > 0 /\ Many > 0
  BY OptionsAssumption
<1>2. \A names : Argument(names) \in Arguments(names) /\ ~Argument(names).takes_options
  BY Declared DEF Argument
<1> DEFINE Fine(arg) == /\ ~arg.takes_options
                        /\ (arg.max = 0 /\ arg.min = 0) \/ (arg.max > 0 /\ arg.min = 1)
<1>3. \A names : Fine(Argument(names)) /\ Fine(OneOrMore(Argument(names)))
  BY <1>1 DEF Argument, OneOrMore, Nargs
<1>4. /\ Fine(Help) /\ Help.max = 0
      /\ Fine(Version) /\ Version.max = 0
      /\ Fine(Debug) /\ Debug.max = 0
  BY DEF Help, Version, Debug, Exiting, Flag, ImplicitValue, DefaultValue, Nargs, Argument
<1>5. Fine(DefaultValue(Flag(Argument({"-l", "--list"}))))
  BY DEF Flag, ImplicitValue, DefaultValue, Nargs, Argument
<1>6. Fine(Nargs(DefaultValue(Argument({"-i"})), 1, 1))
  BY <1>1 DEF DefaultValue, Nargs, Argument
<1> HIDE DEF Fine
<1>7. Fine(Arg(p, a)) /\ (p # "record" => Arg(p, a).max = 0)
  <2>1. CASE p = "ezcollect"
    <3>1. LET args == Parsers["ezcollect"].args
          IN args["h"] = Help /\ args["v"] = Version /\ args["g"] = Debug
      BY DEF Parsers
    <3> QED
      BY <1>4, <2>1, <3>1, ParsersAre DEF Arg
  <2>2. CASE p = "record"
    <3>1. LET args == Parsers["record"].args
          IN /\ args["h"] = Help /\ args["v"] = Version /\ args["g"] = Debug
             /\ args["l"] = DefaultValue(Flag(Argument({"-l", "--list"})))
             /\ args["i"] = Nargs(DefaultValue(Argument({"-i"})), 1, 1)
             /\ args["p"] = Argument({"-p", "--pid"})
             /\ args["pcomm"] = Argument({"--pcomm"})
             /\ args["pcomm_prefix"] = Argument({"--pcomm-prefix"})
             /\ args["t"] = Argument({"-t", "--tid"})
             /\ args["tcomm"] = Argument({"--tcomm"})
             /\ args["tcomm_prefix"] = Argument({"--tcomm-prefix"})
             /\ args["e"] = OneOrMore(Argument({"-e"}))
      BY DEF Parsers
    <3>2. \A b \in DOMAIN Parsers["record"].args : Fine(Parsers["record"].args[b])
      BY <1>3, <1>4, <1>5, <1>6, <3>1, ParsersAre
    <3> QED
      BY <2>2, <3>2 DEF Arg
  <2>3. CASE p = "summarize"
    <3>1. LET args == Parsers["summarize"].args
          IN args["h"] = Help /\ args["v"] = Version /\ args["g"] = Debug
      BY DEF Parsers
    <3> QED
      BY <1>4, <2>3, <3>1, ParsersAre DEF Arg
  <2> QED
    BY <2>1, <2>2, <2>3, ParsersAre
<1> QED
  BY <1>7, ArgRanged DEF Usual, Fine

\* The files of summarize.
LEMMA FilesDeclared ==
  LET arg == Arg("summarize", "files")
  IN /\ arg.names = {"files"} /\ arg.min = 0 /\ arg.max = Many
     /\ arg.takes_options /\ ~arg.exits
<1>1. Parsers["summarize"].args["files"] = Remaining(Argument({"files"}))
  BY DEF Parsers
<1>2. LET arg == Remaining(Argument({"files"}))
      IN /\ arg.names = {"files"} /\ arg.min = 0 /\ arg.max = Many
         /\ arg.takes_options /\ ~arg.exits
  BY DEF Remaining, Nargs, Argument
<1> QED
  BY <1>1, <1>2 DEF Arg

\* No option is called by a positional word.
LEMMA NotFiles ==
  ASSUME NEW p \in DOMAIN Parsers, NEW word \in Words, word \notin Positional, IsName(p, word)
  PROVE  LET a == Named(p, word)
         IN /\ a \in DOMAIN Parsers[p].args /\ a # "files"
            /\ Usual(Arg(p, a)) /\ (p # "record" => Arg(p, a).max = 0)
            /\ <<p, a>> \in Slots
<1>1. /\ Named(p, word) \in DOMAIN Parsers[p].args
      /\ word \in Arg(p, Named(p, word)).names
  BY DEF IsName, Named
<1>2. Named(p, word) # "files"
  <2>1. SUFFICES ASSUME Named(p, word) = "files" PROVE FALSE
    OBVIOUS
  <2>2. p = "summarize"
    BY <1>1, <2>1, ParsersAre
  <2>3. word = "files"
    BY <1>1, <2>1, <2>2, FilesDeclared
  <2> QED
    BY <2>3, ArgParserAssumption
<1> QED
  BY <1>1, <1>2, DeclaredUsual, SlotsAre

\* A part of a sequence that begins at its end of another.
LEMMA PartOfRest ==
  ASSUME NEW words \in Seq(Words), NEW k \in 0..Len(words), NEW n \in 0 .. Len(words) - k
  PROVE  LET others == SubSeq(words, k + 1, Len(words))
         IN /\ SubSeq(others, 1, n) = SubSeq(words, k + 1, k + n)
            /\ SubSeq(others, n + 1, Len(others)) = SubSeq(words, k + n + 1, Len(words))
<1> DEFINE others == SubSeq(words, k + 1, Len(words))
<1>1. Len(words) \in Nat
  BY LenProperties
<1>2. /\ others \in Seq(Words) /\ Len(others) = Len(words) - k
  BY RestIs
<1> HIDE DEF others
<1>3. SubSeq(others, 1, n) = SubSeq(words, k + 1, k + n)
  <2>1. CASE n = 0
    <3>1. k + n < k + 1 /\ k + n \in Int /\ k + 1 \in Int
      BY <2>1
    <3> QED
      BY <2>1, <3>1, SubSeqEmpty
  <2>2. CASE n # 0
    <3>1. /\ k + 1 \in 1..Len(words) /\ Len(words) \in 1..Len(words)
          /\ 1 \in 1 .. Len(words) - (k + 1) + 1 /\ n \in 1 .. Len(words) - (k + 1) + 1
          /\ (k + 1) + 1 - 1 = k + 1 /\ (k + 1) + n - 1 = k + n
      BY <1>1, <2>2
    <3>2. SubSeq(others, 1, n) = SubSeq(words, (k + 1) + 1 - 1, (k + 1) + n - 1)
      BY <3>1, SubSeqOfSubSeq DEF others
    <3> QED
      BY <3>1, <3>2
  <2> QED
    BY <2>1, <2>2
<1>4. SubSeq(others, n + 1, Len(others)) = SubSeq(words, k + n + 1, Len(words))
  <2>1. CASE n = Len(words) - k
    <3>1. /\ n + 1 \in Int /\ Len(others) \in Int /\ Len(others) < n + 1
          /\ k + n + 1 \in Int /\ Len(words) \in Int /\ Len(words) < k + n + 1
      BY <1>1, <1>2, <2>1
    <3> QED
      BY <3>1, SubSeqEmpty
  <2>2. CASE n # Len(words) - k
    <3>1. /\ k + 1 \in 1..Len(words) /\ Len(words) \in 1..Len(words)
          /\ n + 1 \in 1 .. Len(words) - (k + 1) + 1
          /\ Len(others) \in 1 .. Len(words) - (k + 1) + 1
          /\ (k + 1) + (n + 1) - 1 = k + n + 1 /\ (k + 1) + Len(others) - 1 = Len(words)
      BY <1>1, <1>2, <2>2
    <3>2. SubSeq(others, n + 1, Len(others))
            = SubSeq(words, (k + 1) + (n + 1) - 1, (k + 1) + Len(others) - 1)
      BY <3>1, SubSeqOfSubSeq DEF others
    <3> QED
      BY <3>1, <3>2
  <2> QED
    BY <2>1, <2>2
<1> QED
  BY <1>3, <1>4 DEF others

\* No word is written out as nothing.
LEMMA OutOfSome ==
  ASSUME NEW words \in Seq(Words), words # <<>>
  PROVE  Out("record", words) # <<>>
<1>1. Head(words) \in Words /\ Tail(words) \in Seq(Words)
  BY HeadTailProperties
<1> DEFINE first == LettersOf("record", Head(words))
           others == Out("record", Tail(words))
<1>2. first \in Seq(Words) /\ others \in Seq(Words)
  BY <1>1, PiecesType, OutIs
<1>3. first # <<>>
  BY DEF LettersOf
<1>4. Out("record", words) = first \o others
  BY OutIs
<1> HIDE DEF first, others
<1>5. first \o others # <<>>
  BY <1>2, <1>3
<1> QED
  BY <1>4, <1>5

Takes(p, arg, words, k, others, ls) ==
  LET n == Least(Run(words, k), arg.max)
      taken == Taken(arg, others)
      later == SubSeq(others, Len(taken) + 1, Len(others))
  IN /\ n \in 0 .. Len(words) - k /\ n <= Run(words, k) /\ n <= arg.max
     /\ \A j \in k + 1 .. k + n : words[j] \in Positional
     /\ taken = SubSeq(words, k + 1, k + n)
     /\ ls \o Out(p, later) = SubSeq(words, k + n + 1, Len(words))
     /\ PlainRest(p, later) /\ Len(later) <= Len(others)
     /\ TooFew(arg, others) <=> /\ Run(words, k) < arg.min
                                /\ k = Len(words) => ~arg.has_default

\* An option at place k of the words as written out, and `others` what its
\* parser has not read, after the letters ls: the option takes the positional
\* words after it up to its maximum, and fails as BadOption says.
LEMMA OptionTakes ==
  ASSUME NEW p \in DOMAIN Parsers, NEW arg, Usual(arg),
         NEW words \in Seq(Words), NEW k \in 1..Len(words),
         NEW others, PlainRest(p, others), NEW ls \in Seq(Words),
         ls \o Out(p, others) = SubSeq(words, k + 1, Len(words)),
         arg.max = 0 \/ (ls = <<>> /\ p = "record")
  PROVE  Takes(p, arg, words, k, others, ls)
<1> DEFINE r == Run(words, k)
           n == Least(r, arg.max)
           m == InRow(others, Positional)
           taken == Taken(arg, others)
           later == SubSeq(others, Len(taken) + 1, Len(others))
<1>1. Len(words) \in Nat /\ arg.max \in Nat /\ arg.min \in Nat
  BY LenProperties DEF Usual, Ranged
<1>2. others \in Seq(Words) /\ others \in Seq(Lettered(p))
  <2>1. Lettered(p) \subseteq Words /\ others \in Seq(Lettered(p))
    BY DEF Lettered, PlainRest
  <2> QED
    BY <2>1, SeqMonotonic
<1>3. /\ r \in 0 .. Len(words) - k /\ \A j \in k + 1 .. k + r : words[j] \in Positional
      /\ r = InRow(SubSeq(words, k + 1, Len(words)), Positional)
  BY RunIs
<1>4. /\ Least(m, arg.max) \in 0..Len(others) /\ Least(m, arg.max) <= m
      /\ taken = SubSeq(others, 1, Least(m, arg.max))
      /\ Len(taken) = Least(m, arg.max)
      /\ TooFew(arg, others) <=> m < arg.min /\ (others = <<>> => ~arg.has_default)
  BY <1>2, TakenIs
<1>5. m \in 0..Len(others) /\ Len(others) \in Nat
  BY <1>2, InRowIs, LenProperties
<1> HIDE DEF r, m
<1>6. n \in 0 .. Len(words) - k /\ n <= r /\ n <= arg.max
  BY <1>1, <1>3 DEF Least
<1>7. \A j \in k + 1 .. k + n : words[j] \in Positional
  BY <1>1, <1>3, <1>6
<1>8. CASE arg.max = 0
  <2>1. n = 0 /\ Least(m, arg.max) = 0
    BY <1>1, <1>3, <1>5, <1>8 DEF Least
  <2>2. taken = <<>> /\ SubSeq(words, k + 1, k + n) = <<>>
    <3>1. k + n < k + 1 /\ k + n \in Int /\ k + 1 \in Int
      BY <2>1
    <3> QED
      BY <1>4, <2>1, <3>1, SubSeqEmpty
  <2>3. later = others
    <3>1. Len(taken) + 1 = 1
      BY <1>4, <2>1
    <3> QED
      BY <1>2, <3>1, SubSeqFull
  <2>4. k + n + 1 = k + 1
    BY <2>1
  <2>5. TooFew(arg, others) <=> r < arg.min /\ (k = Len(words) => ~arg.has_default)
    <3>1. arg.min = 0 /\ ~(m < arg.min) /\ ~(r < arg.min)
      BY <1>1, <1>3, <1>5, <1>8 DEF Usual
    <3> QED
      BY <1>4, <3>1
  <2>6. Len(later) <= Len(others)
    BY <1>5, <2>3
  <2> HIDE DEF n, taken, later
  <2> QED
    BY <1>6, <1>7, <2>2, <2>3, <2>4, <2>5, <2>6 DEF n, taken, later, r, Takes
<1>9. CASE ls = <<>> /\ p = "record"
  <2> DEFINE all == Out("record", others)
  <2>1. all \in Seq(Words) /\ all = SubSeq(words, k + 1, Len(words))
    <3>1. all \in Seq(Words)
      BY <1>2, OutIs
    <3> HIDE DEF all
    <3>2. <<>> \o all = all
      BY <3>1, ConcatEmptySeq
    <3> QED
      BY <1>9, <3>1, <3>2 DEF all
  <2>2. others \in Seq(Lettered("record"))
    BY <1>2, <1>9
  <2>3. InRow(all, Positional) = m
    <3>1. 0 \in 0 .. InRow(others, Positional)
      BY <1>5 DEF m
    <3> QED
      BY <2>2, <3>1, LeadOut DEF m
  <2>4. r = m
    BY <1>3, <2>1, <2>3
  <2>5. n \in 0 .. InRow(others, Positional)
    BY <1>3, <1>5, <1>6, <2>4 DEF m
  <2>6. /\ SubSeq(all, n + 1, Len(all)) = Out("record", SubSeq(others, n + 1, Len(others)))
        /\ SubSeq(all, 1, n) = SubSeq(others, 1, n)
    BY <2>2, <2>5, LeadOut
  <2>7. /\ SubSeq(all, 1, n) = SubSeq(words, k + 1, k + n)
        /\ SubSeq(all, n + 1, Len(all)) = SubSeq(words, k + n + 1, Len(words))
    <3>1. k \in 0..Len(words)
      BY <1>1
    <3> HIDE DEF n, all
    <3>2. LET part == SubSeq(words, k + 1, Len(words))
          IN /\ SubSeq(part, 1, n) = SubSeq(words, k + 1, k + n)
             /\ SubSeq(part, n + 1, Len(part)) = SubSeq(words, k + n + 1, Len(words))
      BY <1>6, <3>1, PartOfRest
    <3> QED
      BY <2>1, <3>2, Zenon
  <2>8. Len(taken) = n /\ taken = SubSeq(others, 1, n)
    BY <1>4, <2>4
  <2>9. taken = SubSeq(words, k + 1, k + n)
    BY <2>6, <2>7, <2>8
  <2>10. Out(p, later) = SubSeq(words, k + n + 1, Len(words))
    BY <1>9, <2>6, <2>7, <2>8
  <2>11. later \in Seq(Lettered(p)) /\ Len(later) <= Len(others)
    <3>1. \A i \in n + 1 .. Len(others) : others[i] \in Lettered(p)
      BY <1>2, <1>5, <1>6, LenProperties
    <3>2. n + 1 \in Int /\ Len(others) \in Int
      BY <1>5, <1>6
    <3>3. /\ SubSeq(others, n + 1, Len(others)) \in Seq(Lettered(p))
          /\ Len(SubSeq(others, n + 1, Len(others))) =
               IF n + 1 <= Len(others) THEN Len(others) - (n + 1) + 1 ELSE 0
      BY <3>1, <3>2, SubSeqProperties
    <3>4. later = SubSeq(others, n + 1, Len(others))
      BY <2>8
    <3> HIDE DEF later, n
    <3>5. later \in Seq(Lettered(p))
      BY <3>3, <3>4, Zenon
    <3>6. Len(later) = IF n + 1 <= Len(others) THEN Len(others) - (n + 1) + 1 ELSE 0
      BY <3>3, <3>4, Zenon
    <3>7. n \in Nat
      BY <1>6, <1>1, <1>3
    <3> QED
      BY <1>5, <3>5, <3>6, <3>7
  <2>12. ls \o Out(p, later) = SubSeq(words, k + n + 1, Len(words))
    <3>1. Out(p, later) \in Seq(Words)
      <4>1. Lettered(p) \subseteq Words
        BY DEF Lettered
      <4>2. later \in Seq(Words)
        BY <2>11, <4>1, SeqMonotonic
      <4> QED
        BY <1>9, <4>2, OutIs
    <3>2. <<>> \o Out(p, later) = Out(p, later)
      BY <3>1, ConcatEmptySeq
    <3> QED
      BY <1>9, <2>10, <3>2
  <2>13. others = <<>> <=> k = Len(words)
    <3>1. all = <<>> <=> k = Len(words)
      <4>1. k \in 0..Len(words)
        BY <1>1
      <4> QED
        BY <2>1, <4>1, RestIs
    <3>2. others = <<>> <=> all = <<>>
      BY <1>2, OutIs, OutOfSome
    <3> QED
      BY <3>1, <3>2
  <2>14. TooFew(arg, others) <=> r < arg.min /\ (k = Len(words) => ~arg.has_default)
    BY <1>4, <2>4, <2>13
  <2>15. PlainRest(p, later)
    BY <1>9, <2>11 DEF PlainRest
  <2> HIDE DEF n, taken, later
  <2> QED
    BY <1>6, <1>7, <2>9, <2>11, <2>12, <2>14, <2>15 DEF n, taken, later, r, Takes
<1> QED
  BY <1>8, <1>9

FilesSlot == <<"summarize", "files">>

Reach(words, j) == Least(Run(words, j), OptionOf(words, j).max)

Exits(words, k) == IsOptionAt(words, k) /\ OptionOf(words, k).exits

\* The parser that is in its loop after the first k of the words.
Placed(words, k) ==
  /\ parser = "ezcollect" => \A j \in 1..k : words[j] \notin Positional
  /\ parser # "ezcollect" => Command(words) \in 1..k /\ words[Command(words)] = parser
  /\ parser = "summarize" /\ n_positional = 0 =>
       \A j \in Command(words) + 1 .. k : words[j] \notin Positional

\* None of the first k words is wrong or ends the program, and no option among
\* them has values after them.
Judged(words, k) ==
  \A j \in 1..k :
    /\ ~Bad(words, j)
    /\ IsOptionAt(words, j) => ~OptionOf(words, j).exits /\ j + Reach(words, j) <= k

\* What is used, and the values, are those of the options among the first k
\* words.
Kept(words, k) ==
  /\ \A slot \in Slots \ {FilesSlot} :
       slot \in used <=> \E j \in 1..k : IsOptionAt(words, j) /\ SlotAt(words, j) = slot
  /\ \A j \in 1..k :
       IsOptionAt(words, j) =>
         /\ SlotAt(words, j) \in Slots \ {FilesSlot}
         /\ values[SlotAt(words, j)] = SubSeq(words, j + 1, j + Reach(words, j))

\* The place of the first file of summarize, or none.
Filed(words) ==
  IF n_positional = 1
  THEN /\ parser = "summarize" /\ FilesSlot \in used
       /\ \E f \in Files(words) :
            f - 1 \notin Files(words) /\ values[FilesSlot] = SubSeq(words, f, Len(words))
  ELSE FilesSlot \notin used

\* The parsers there are, and where they stop.
LEMMA ParserIs ==
  ASSUME TypeOK
  PROVE  /\ parser \in {"ezcollect", "record", "summarize"} /\ parser \in DOMAIN Parsers
         /\ n_positional \in {0, 1}
         /\ parser # "summarize" => n_positional = 0
         /\ Parsers["ezcollect"].subcommands = {"record", "summarize"}
<1>1. parser \in DOMAIN Parsers /\ n_positional \in 0 .. Len(Parsers[parser].positionals)
  BY DEF TypeOK
<1>2. CASE parser = "summarize"
  <2>1. Len(Parsers[parser].positionals) = 1
    BY <1>2, ParsersAre
  <2> QED
    BY <1>1, <1>2, <2>1, ParsersAre
<1>3. CASE parser # "summarize"
  <2>1. Len(Parsers[parser].positionals) = 0
    BY <1>1, <1>3, ParsersAre
  <2> QED
    BY <1>1, <1>3, <2>1, ParsersAre
<1> QED
  BY <1>2, <1>3

\* What the word at place k + 1 is follows from the parser.
LEMMA Here ==
  ASSUME TypeOK, n_positional = 0, NEW words \in Seq(Words), NEW k \in Nat, k < Len(words),
         Placed(words, k)
  PROVE  /\ words[k + 1] \in Words
         /\ words[k + 1] \notin Positional \/ parser # "summarize" => k + 1 \notin Files(words)
         /\ words[k + 1] \notin Positional \/ parser # "ezcollect" =>
              /\ ParserAt(words, k + 1) = parser
              /\ k + 1 # Command(words)
         /\ parser = "ezcollect" /\ words[k + 1] \in Positional => k + 1 = Command(words)
         /\ words[k + 1] \notin Positional => Placed(words, k + 1)
<1> DEFINE c == Command(words)
<1>1. /\ c \in 1 .. Len(words) + 1
      /\ \A j \in 1 .. c - 1 : words[j] \notin Positional
      /\ c <= Len(words) => words[c] \in Positional
  BY FirstIs DEF Command
<1>2. Len(words) \in Nat /\ \A i \in 1..Len(words) : words[i] \in Words
  BY LenProperties
<1>3. k + 1 \in 1..Len(words)
  BY <1>2
<1>4. parser \in {"ezcollect", "record", "summarize"}
  BY ParserIs
<1> HIDE DEF c
<1>5. /\ parser = "ezcollect" => \A j \in 1..k : words[j] \notin Positional
      /\ parser # "ezcollect" => c \in 1..k /\ words[c] = parser
      /\ parser = "summarize" => \A j \in c + 1 .. k : words[j] \notin Positional
  BY DEF Placed, c
<1>6. parser = "ezcollect" => ~(c <= k)
  <2>1. c <= k => c \in 1..k /\ words[c] \in Positional
    BY <1>1, <1>2, <1>3
  <2> QED
    BY <1>5, <2>1
<1>7. ASSUME parser = "ezcollect" PROVE c = k + 1 <=> words[k + 1] \in Positional
  <2>1. c = k + 1 => words[k + 1] \in Positional
    BY <1>1, <1>3
  <2>2. c # k + 1 => k + 1 \in 1 .. c - 1
    BY <1>1, <1>2, <1>3, <1>6, <1>7
  <2> QED
    BY <1>1, <2>1, <2>2
<1>8. ASSUME words[k + 1] \notin Positional \/ parser # "summarize"
      PROVE  k + 1 \notin Files(words)
  <2>1. SUFFICES ASSUME k + 1 > c, words[c] = "summarize",
                        NEW j \in c + 1 .. k + 1, words[j] \in Positional
                 PROVE  FALSE
    BY DEF Files, c
  <2>2. parser = "summarize"
    BY <1>1, <1>3, <1>4, <1>5, <1>6, <2>1
  <2>3. j \in c + 1 .. k
    BY <1>1, <1>8, <2>1, <2>2
  <2> QED
    BY <1>5, <2>1, <2>2, <2>3
<1>9. ASSUME words[k + 1] \notin Positional \/ parser # "ezcollect"
      PROVE  ParserAt(words, k + 1) = parser /\ k + 1 # c
  <2>1. CASE parser = "ezcollect"
    <3>1. ~(k + 1 > c) /\ k + 1 # c
      BY <1>1, <1>6, <1>7, <1>9, <2>1
    <3> QED
      BY <2>1, <3>1 DEF ParserAt, c
  <2>2. CASE parser # "ezcollect"
    <3>1. k + 1 > c /\ words[c] = parser /\ words[c] \in {"record", "summarize"}
      BY <1>4, <1>5, <2>2
    <3>2. k + 1 # c
      BY <1>5, <2>2
    <3> QED
      BY <3>1, <3>2, ParsersAre DEF ParserAt, c
  <2> QED
    BY <2>1, <2>2
<1>10. ASSUME words[k + 1] \notin Positional PROVE Placed(words, k + 1)
  <2>1. \A j \in 1 .. k + 1 : j \in 1..k \/ j = k + 1
    OBVIOUS
  <2>2. \A j \in c + 1 .. k + 1 : j \in c + 1 .. k \/ j = k + 1
    BY <1>1
  <2>3. c \in 1..k => c \in 1 .. k + 1
    OBVIOUS
  <2> QED
    BY <1>5, <1>10, <2>1, <2>2, <2>3 DEF Placed, c
<1> QED
  BY <1>2, <1>3, <1>7, <1>8, <1>9, <1>10 DEF c

\* An option at place k + 1 is one of the parser that is in its loop.
LEMMA OptionHere ==
  ASSUME TypeOK, n_positional = 0, NEW words \in Seq(Words), NEW k \in Nat, k < Len(words),
         Placed(words, k), words[k + 1] \notin Positional
  PROVE  /\ IsOptionAt(words, k + 1) <=> IsName(parser, words[k + 1])
         /\ SlotAt(words, k + 1) = <<parser, Named(parser, words[k + 1])>>
         /\ OptionOf(words, k + 1) = Arg(parser, Named(parser, words[k + 1]))
         /\ Bad(words, k + 1) <=> BadOption(words, k + 1)
<1>1. /\ k + 1 \notin Files(words) /\ ParserAt(words, k + 1) = parser
  BY Here
<1>2. k + 1 \in DOMAIN words
  BY LenProperties
<1>3. IsOptionAt(words, k + 1) <=> IsName(parser, words[k + 1])
  BY <1>1, <1>2 DEF IsOptionAt
<1>4. SlotAt(words, k + 1) = <<parser, Named(parser, words[k + 1])>>
  BY <1>1 DEF SlotAt
<1>5. OptionOf(words, k + 1) = Arg(parser, Named(parser, words[k + 1]))
  BY <1>4 DEF OptionOf
<1>6. Bad(words, k + 1) <=> BadOption(words, k + 1)
  BY <1>1 DEF Bad
<1> QED
  BY <1>3, <1>4, <1>5, <1>6

\* What Plain says of the letters that are left.
Loose(ls) ==
  /\ ls \in Seq(Words)
  /\ \A j \in 1..Len(ls) :
       /\ ls[j] \notin Positional
       /\ j < Len(ls) /\ IsName("record", ls[j]) => Arg("record", Named("record", ls[j])).max = 0

\* The loop has read the first k of the words.
Midway(words, k) ==
  /\ letters \o Out(parser, rest) = SubSeq(words, k + 1, Len(words))
  /\ Loose(letters) /\ PlainRest(parser, rest)
  /\ parser # "record" => Len(rest) <= Many
  /\ n_positional = 1 => letters = <<>> /\ rest = <<>>
  /\ Placed(words, k) /\ Judged(words, k) /\ Kept(words, k) /\ Filed(words)

\* The answer, of the words as written out.
Answer(words) ==
  /\ status = "parsing" => \E k \in 0..Len(words) : Midway(words, k)
  /\ status = "refused" =>
       \E k \in 1..Len(words) : Bad(words, k) /\ \A j \in 1 .. k - 1 : ~Exits(words, j)
  /\ status = "exited" =>
       \E k \in 1..Len(words) : Exits(words, k) /\ \A j \in 1..k : ~Bad(words, j)
  /\ status = "parsed" =>
       LET n == Len(words)
       IN Placed(words, n) /\ Judged(words, n) /\ Kept(words, n) /\ Filed(words)

\* The loop throws at the first wrong word.
LEMMA RefusedHere ==
  ASSUME NEW words \in Seq(Words), NEW k \in Nat, k < Len(words),
         Judged(words, k), Bad(words, k + 1), status' = "refused"
  PROVE  Answer(words)'
<1>1. k + 1 \in 1..Len(words) /\ (k + 1) - 1 = k
  BY LenProperties
<1>2. \A j \in 1..k : ~Exits(words, j)
  BY DEF Judged, Exits
<1>3. \E n \in 1..Len(words) : Bad(words, n) /\ \A j \in 1 .. n - 1 : ~Exits(words, j)
  BY <1>1, <1>2
<1>4. status' # "parsing" /\ status' # "exited" /\ status' # "parsed"
  OBVIOUS
<1> QED
  BY <1>3, <1>4 DEF Answer

\* An option is read, with its values.
LEMMA OptionStep ==
  ASSUME TypeOK, TypeOK', n_positional = 0, status = "parsing",
         NEW words \in Seq(Words), NEW k \in Nat, k < Len(words),
         Placed(words, k), Judged(words, k), Kept(words, k), Filed(words),
         words[k + 1] \notin Positional, IsName(parser, words[k + 1]),
         NEW others, PlainRest(parser, others), parser # "record" => Len(others) <= Many,
         letters' \o Out(parser, others) = SubSeq(words, k + 2, Len(words)), Loose(letters'),
         \/ letters' = <<>> \/ parser # "record"
         \/ Arg(parser, Named(parser, words[k + 1])).max = 0,
         Consume(Named(parser, words[k + 1]), others),
         UNCHANGED <<parser, n_positional>>
  PROVE  Answer(words)'
<1> DEFINE N == Len(words)
           a == Named(parser, words[k + 1])
           arg == Arg(parser, a)
           slot == <<parser, a>>
           n == Least(Run(words, k + 1), arg.max)
           taken == Taken(arg, others)
           later == SubSeq(others, Len(taken) + 1, Len(others))
<1>1. /\ N \in Nat /\ k + 1 \in 1..N /\ (k + 1) + 1 = k + 2 /\ words[k + 1] \in Words
  BY LenProperties
<1>2. /\ parser \in DOMAIN Parsers /\ parser \in {"ezcollect", "record", "summarize"}
      /\ used \subseteq Slots /\ values \in [Slots -> Seq(Words)] /\ letters' \in Seq(Words)
      /\ parser' = parser /\ n_positional' = n_positional
  BY ParserIs DEF TypeOK, Loose
<1>3. /\ a \in DOMAIN Parsers[parser].args /\ a # "files"
      /\ Usual(arg) /\ (parser # "record" => arg.max = 0) /\ slot \in Slots
  BY <1>1, <1>2, NotFiles
<1>4. /\ IsOptionAt(words, k + 1) /\ SlotAt(words, k + 1) = slot
      /\ OptionOf(words, k + 1) = arg
      /\ Bad(words, k + 1) <=> BadOption(words, k + 1)
  BY OptionHere
<1>5. /\ n \in 0 .. N - (k + 1) /\ n <= Run(words, k + 1) /\ n <= arg.max
      /\ \A j \in (k + 1) + 1 .. (k + 1) + n : words[j] \in Positional
      /\ taken = SubSeq(words, (k + 1) + 1, (k + 1) + n)
      /\ letters' \o Out(parser, later) = SubSeq(words, (k + 1) + n + 1, N)
      /\ PlainRest(parser, later) /\ Len(later) <= Len(others)
      /\ TooFew(arg, others) <=> /\ Run(words, k + 1) < arg.min
                                 /\ k + 1 = N => ~arg.has_default
  <2>1. arg.max = 0 \/ (letters' = <<>> /\ parser = "record")
    BY <1>3
  <2>2. letters' \o Out(parser, others) = SubSeq(words, (k + 1) + 1, Len(words))
    BY <1>1
  <2>3. k + 1 \in 1..Len(words)
    BY <1>1
  <2> HIDE DEF arg, a, slot, N, n, taken, later
  <2>4. Takes(parser, arg, words, k + 1, others, letters')
    BY <1>2, <1>3, <2>1, <2>2, <2>3, OptionTakes
  <2> QED
    BY <2>4 DEF N, n, taken, later, Takes
<1>6. Reach(words, k + 1) = n
  BY <1>4 DEF Reach
<1> HIDE DEF a, arg, slot, n, taken, later
<1>7. slot # FilesSlot
  BY <1>3 DEF slot, FilesSlot
<1>8. BadOption(words, k + 1) <=> slot \in used \/ TooFew(arg, others)
  <2>1. slot \in used <=> \E j \in 1..k : IsOptionAt(words, j) /\ SlotAt(words, j) = slot
    BY <1>3, <1>7 DEF Kept
  <2>2. 1 .. (k + 1) - 1 = 1..k
    OBVIOUS
  <2> QED
    BY <1>4, <1>5, <2>1, <2>2 DEF BadOption
<1>9. /\ slot \in used \/ TooFew(arg, others) => status' = "refused"
      /\ ~(slot \in used \/ TooFew(arg, others)) =>
           /\ used' = used \cup {slot}
           /\ values' = [values EXCEPT ![slot] = taken]
           /\ rest' = later
           /\ status' = IF arg.exits THEN "exited" ELSE status
  BY DEF Consume, a, arg, slot, taken, later
<1>10. CASE slot \in used \/ TooFew(arg, others)
  BY <1>1, <1>4, <1>8, <1>9, <1>10, RefusedHere
<1>11. CASE ~(slot \in used \/ TooFew(arg, others)) /\ arg.exits
  <2>1. ~Bad(words, k + 1) /\ Exits(words, k + 1) /\ status' = "exited"
    BY <1>4, <1>8, <1>9, <1>11 DEF Exits
  <2>2. \A j \in 1 .. k + 1 : j \in 1..k \/ j = k + 1
    OBVIOUS
  <2>3. \A j \in 1 .. k + 1 : ~Bad(words, j)
    BY <2>1, <2>2 DEF Judged
  <2>4. \E m \in 1..Len(words) : Exits(words, m) /\ \A j \in 1..m : ~Bad(words, j)
    BY <1>1, <2>1, <2>3
  <2>5. status' # "parsing" /\ status' # "refused" /\ status' # "parsed"
    BY <2>1
  <2> QED
    BY <2>4, <2>5 DEF Answer
<1>12. CASE ~(slot \in used \/ TooFew(arg, others)) /\ ~arg.exits
  <2>0. PICK m \in 0..N : m = (k + 1) + n
    BY <1>1, <1>5
  <2>1. /\ used' = used \cup {slot} /\ values' = [values EXCEPT ![slot] = taken]
        /\ rest' = later /\ status' = "parsing"
    BY <1>9, <1>12
  <2>2. m \in 0..N /\ m + 1 = (k + 1) + n + 1 /\ k <= m /\ k + 1 <= m
    BY <1>1, <1>5, <2>0
  <2>3. \A j \in 1..m : j \in 1..k \/ j = k + 1 \/ j \in (k + 1) + 1 .. m
    BY <1>1, <2>2
  <2>4. ~Bad(words, k + 1)
    BY <1>4, <1>8, <1>12
  <2>5. \A j \in (k + 1) + 1 .. m : words[j] \in Positional
    BY <1>5, <2>0
  <2>6. ASSUME NEW j \in (k + 1) + 1 .. m PROVE ~Bad(words, j) /\ ~IsOptionAt(words, j)
    <3>1. words[j] \in Positional
      BY <2>5, <2>6
    <3>2. ~IsOptionAt(words, j)
      BY <3>1 DEF IsOptionAt
    <3>3. parser = "record"
      <4>1. n # 0
        BY <1>1, <1>5, <2>0, <2>6
      <4>2. arg.max # 0
        BY <1>5, <4>1
      <4> QED
        BY <1>3, <4>2
    <3>4. Command(words) \in 1..k
      BY <3>3 DEF Placed
    <3>5. j # Command(words) /\ k + 1 \in Command(words) + 1 .. j - 1
      BY <2>6, <3>4
    <3>6. j - (k + 1) <= Run(words, k + 1) /\ j - (k + 1) <= OptionOf(words, k + 1).max
      <4>1. j - (k + 1) <= n
        BY <1>5, <2>0, <2>6
      <4>2. Run(words, k + 1) \in Nat /\ arg.max \in Nat
        BY <1>1, <1>3, RunIs DEF Usual, Ranged
      <4> QED
        BY <1>4, <1>5, <2>6, <4>1, <4>2
    <3>7. ~BadPositional(words, j)
      BY <1>4, <3>5, <3>6 DEF BadPositional
    <3> QED
      BY <3>1, <3>2, <3>7 DEF Bad
  <2>7. Judged(words, m)
    <3>1. ASSUME NEW j \in 1..m
          PROVE  /\ ~Bad(words, j)
                 /\ IsOptionAt(words, j) => ~OptionOf(words, j).exits /\ j + Reach(words, j) <= m
      <4>1. CASE j \in 1..k
        <5>1. /\ ~Bad(words, j)
              /\ IsOptionAt(words, j) => ~OptionOf(words, j).exits /\ j + Reach(words, j) <= k
          BY <4>1 DEF Judged
        <5>2. IsOptionAt(words, j) => Reach(words, j) \in Int
          <6>1. SUFFICES ASSUME IsOptionAt(words, j) PROVE Reach(words, j) \in Int
            OBVIOUS
          <6>2. SlotAt(words, j) \in Slots
            BY <4>1, <6>1 DEF Kept
          <6>3. OptionOf(words, j).max \in Nat
            BY <6>2, SlotRanged DEF OptionOf, Ranged
          <6>4. Run(words, j) \in Nat
            <7>1. j \in 0..Len(words)
              BY <1>1, <4>1
            <7> QED
              BY <7>1, RunIs
          <6> QED
            BY <6>3, <6>4 DEF Reach, Least
        <5> QED
          BY <2>2, <4>1, <5>1, <5>2
      <4>2. CASE j = k + 1
        <5>1. j + Reach(words, j) = m
          BY <1>6, <2>0, <4>2
        <5>2. m <= m
          BY <2>2
        <5> QED
          BY <1>4, <1>12, <2>4, <4>2, <5>1, <5>2
      <4>3. CASE j \in (k + 1) + 1 .. m
        BY <2>6, <4>3
      <4> QED
        BY <2>3, <3>1, <4>1, <4>2, <4>3
    <3> QED
      BY <3>1 DEF Judged
  <2>8. Kept(words, m)'
    <3>1. ASSUME NEW some \in Slots \ {FilesSlot}
          PROVE  some \in used' <=> \E j \in 1..m : IsOptionAt(words, j) /\ SlotAt(words, j) = some
      <4>1. some \in used <=> \E j \in 1..k : IsOptionAt(words, j) /\ SlotAt(words, j) = some
        BY <3>1 DEF Kept
      <4>2. some \in used' <=> some \in used \/ some = slot
        BY <2>1
      <4>3. 1..k \subseteq 1..m /\ k + 1 \in 1..m
        BY <2>2
      <4> QED
        BY <1>4, <2>3, <2>6, <4>1, <4>2, <4>3
    <3>2. ASSUME NEW j \in 1..m, IsOptionAt(words, j)
          PROVE  /\ SlotAt(words, j) \in Slots \ {FilesSlot}
                 /\ values'[SlotAt(words, j)] = SubSeq(words, j + 1, j + Reach(words, j))
      <4>1. CASE j \in 1..k
        <5>1. /\ SlotAt(words, j) \in Slots \ {FilesSlot}
              /\ values[SlotAt(words, j)] = SubSeq(words, j + 1, j + Reach(words, j))
          BY <3>2, <4>1 DEF Kept
        <5>2. SlotAt(words, j) \in used
          BY <3>2, <4>1, <5>1 DEF Kept
        <5>3. SlotAt(words, j) # slot
          BY <1>12, <5>2
        <5>4. values'[SlotAt(words, j)] = values[SlotAt(words, j)]
          BY <1>2, <2>1, <5>1, <5>3
        <5> QED
          BY <5>1, <5>4
      <4>2. CASE j = k + 1
        <5>1. values'[slot] = taken
          BY <1>2, <1>3, <2>1
        <5> QED
          BY <1>3, <1>4, <1>5, <1>6, <1>7, <4>2, <5>1
      <4>3. CASE j \in (k + 1) + 1 .. m
        BY <2>6, <3>2, <4>3
      <4> QED
        BY <2>3, <3>2, <4>1, <4>2, <4>3
    <3> QED
      BY <3>1, <3>2 DEF Kept
  <2>9. Placed(words, m)'
    <3>1. Placed(words, k + 1)
      BY <1>1, Here
    <3>2. parser # "record" => m = k + 1
      <4>1. SUFFICES ASSUME parser # "record" PROVE m = k + 1
        OBVIOUS
      <4>2. n = 0
        BY <1>3, <1>5, <4>1
      <4> QED
        BY <1>1, <2>0, <4>2
    <3>3. Command(words) \in 1 .. k + 1 => Command(words) \in 1..m
      BY <2>2
    <3> QED
      BY <1>2, <3>1, <3>2, <3>3 DEF Placed
  <2>10. Filed(words)'
    <3>1. n_positional' = 0 /\ FilesSlot \notin used'
      BY <1>2, <1>7, <2>1 DEF Filed
    <3> QED
      BY <3>1 DEF Filed
  <2>11. Judged(words, m)'
    BY <2>7
  <2>12. Midway(words, m)'
    <3>1. letters' \o Out(parser', rest') = SubSeq(words, m + 1, Len(words))
      BY <1>2, <1>5, <2>1, <2>2
    <3>2. PlainRest(parser', rest') /\ (parser' # "record" => Len(rest') <= Many)
      <4>1. Len(later) \in Nat /\ Len(others) \in Nat
        <5>1. later \in Seq(Lettered(parser)) /\ others \in Seq(Lettered(parser))
          BY <1>5 DEF PlainRest
        <5> QED
          BY <5>1, LenProperties
      <4>2. Many \in Nat
        BY OptionsAssumption
      <4>3. parser # "record" => Len(later) <= Many
        BY <1>5, <4>1, <4>2
      <4> QED
        BY <1>2, <1>5, <2>1, <4>3
    <3>3. n_positional' # 1
      BY <1>2
    <3> QED
      BY <2>8, <2>9, <2>10, <2>11, <3>1, <3>2, <3>3 DEF Midway
  <2>13. \E x \in 0..Len(words) : Midway(words, x)'
    BY <2>2, <2>12
  <2>14. status' # "refused" /\ status' # "exited" /\ status' # "parsed"
    BY <2>1
  <2> QED
    BY <2>13, <2>14 DEF Answer
<1> QED
  BY <1>10, <1>11, <1>12

\* What begins with a word that is still to be read.
LEMMA FirstOfRest ==
  ASSUME NEW words \in Seq(Words), NEW k \in 0..Len(words),
         NEW word \in Words, NEW others \in Seq(Words),
         <<word>> \o others = SubSeq(words, k + 1, Len(words))
  PROVE  /\ k < Len(words) /\ k \in Nat /\ words[k + 1] = word
         /\ others = SubSeq(words, k + 2, Len(words))
<1> DEFINE all == <<word>> \o others
<1>1. /\ all # <<>> /\ Head(all) = word /\ Tail(all) = others
  <2>1. Len(all) = 1 + Len(others) /\ Len(others) \in Nat
    BY LenProperties
  <2>2. Len(all) # Len(<<>>)
    BY <2>1, EmptySeq
  <2>3. all # <<>>
    BY <2>2, Zenon
  <2> QED
    BY <2>3
<1> HIDE DEF all
<1>2. all = SubSeq(words, k + 1, Len(words))
  BY DEF all
<1>3. Len(words) \in Nat /\ k \in Nat
  BY LenProperties
<1>4. k # Len(words)
  BY <1>1, <1>2, RestIs
<1>5. k < Len(words)
  BY <1>3, <1>4
<1>6. /\ Head(SubSeq(words, k + 1, Len(words))) = words[k + 1]
      /\ Tail(SubSeq(words, k + 1, Len(words))) = SubSeq(words, k + 2, Len(words))
  BY <1>5, RestIs
<1> QED
  BY <1>1, <1>2, <1>3, <1>5, <1>6

\* The next word is at place k + 1.
LEMMA NextWord ==
  ASSUME TypeOK, NEW words \in Seq(Words), NEW k \in 0..Len(words), Midway(words, k),
         letters = <<>>, rest # <<>>
  PROVE  /\ n_positional = 0 /\ Head(rest) \in Words /\ Tail(rest) \in Seq(Words)
         /\ PlainRest(parser, Tail(rest)) /\ Head(rest) \in Lettered(parser)
         /\ parser # "record" => Len(rest) <= Many /\ Len(Tail(rest)) <= Many
         /\ Out(parser, rest) = SubSeq(words, k + 1, Len(words))
<1>1. /\ letters \o Out(parser, rest) = SubSeq(words, k + 1, Len(words))
      /\ PlainRest(parser, rest) /\ (parser # "record" => Len(rest) <= Many)
      /\ n_positional # 1 /\ parser \in {"ezcollect", "record", "summarize"}
      /\ rest \in Seq(Words) /\ rest # <<>> /\ n_positional = 0
  BY ParserIs DEF Midway, TypeOK
<1>2. /\ Head(rest) \in Words /\ Tail(rest) \in Seq(Words)
      /\ Len(Tail(rest)) = Len(rest) - 1 /\ Len(rest) \in Nat
  BY <1>1, HeadTailProperties, LenProperties
<1>3. Out(parser, rest) = SubSeq(words, k + 1, Len(words))
  <2>1. Out(parser, rest) \in Seq(Words)
    BY <1>1, OutIs
  <2>2. <<>> \o Out(parser, rest) = Out(parser, rest)
    BY <2>1, ConcatEmptySeq
  <2> QED
    BY <1>1, <2>2
<1>4. PlainRest(parser, Tail(rest)) /\ Head(rest) \in Lettered(parser)
  BY <1>1, PlainRestTail
<1>5. Many \in Nat
  BY OptionsAssumption
<1> QED
  BY <1>1, <1>2, <1>3, <1>4, <1>5

\* A word that is not a combination of letters stands for itself.
LEMMA NextOption ==
  ASSUME TypeOK, NEW words \in Seq(Words), NEW k \in 0..Len(words), Midway(words, k),
         letters = <<>>, rest # <<>>,
         Head(rest) \notin Positional \/ parser = "record",
         LettersOf(parser, Head(rest)) = <<Head(rest)>>
  PROVE  /\ k < Len(words) /\ k \in Nat /\ words[k + 1] = Head(rest)
         /\ Out(parser, Tail(rest)) = SubSeq(words, k + 2, Len(words))
<1>1. /\ Head(rest) \in Words /\ Tail(rest) \in Seq(Words)
      /\ Out(parser, rest) = SubSeq(words, k + 1, Len(words))
  BY NextWord
<1>2. parser \in {"ezcollect", "record", "summarize"} /\ rest \in Seq(Words)
  BY ParserIs DEF TypeOK
<1>3. Out(parser, rest) = <<Head(rest)>> \o Out(parser, Tail(rest))
  BY <1>2, OutIs
<1>4. Out(parser, Tail(rest)) \in Seq(Words)
  BY <1>1, <1>2, OutIs
<1> QED
  BY <1>1, <1>3, <1>4, FirstOfRest

\* The next letter is at place k + 1.
LEMMA NextLetter ==
  ASSUME TypeOK, NEW words \in Seq(Words), NEW k \in 0..Len(words), Midway(words, k),
         letters # <<>>
  PROVE  /\ k < Len(words) /\ k \in Nat /\ words[k + 1] = Head(letters)
         /\ n_positional = 0 /\ Head(letters) \notin Positional
         /\ Tail(letters) \o Out(parser, rest) = SubSeq(words, k + 2, Len(words))
         /\ Loose(Tail(letters))
         /\ \/ Tail(letters) = <<>>
            \/ IsName("record", Head(letters)) =>
                 Arg("record", Named("record", Head(letters))).max = 0
<1>1. /\ letters \o Out(parser, rest) = SubSeq(words, k + 1, Len(words))
      /\ Loose(letters) /\ n_positional # 1
      /\ parser \in {"ezcollect", "record", "summarize"} /\ rest \in Seq(Words)
      /\ n_positional \in {0, 1} /\ letters \in Seq(Words)
  BY ParserIs DEF Midway, TypeOK, Loose
<1>2. Out(parser, rest) \in Seq(Words)
  BY <1>1, OutIs
<1>3. /\ Head(letters) \in Words /\ Tail(letters) \in Seq(Words)
      /\ Len(Tail(letters)) = Len(letters) - 1 /\ Len(letters) \in Nat \ {0}
      /\ \A j \in 1..Len(Tail(letters)) : Tail(letters)[j] = letters[j + 1]
      /\ Head(letters) = letters[1]
  BY <1>1, HeadTailProperties, EmptySeq
<1>4. letters = <<Head(letters)>> \o Tail(letters)
  BY <1>1, <1>3
<1>5. letters \o Out(parser, rest) = <<Head(letters)>> \o (Tail(letters) \o Out(parser, rest))
  <2>1. \A a, b, c \in Seq(Words) : (a \o b) \o c = a \o (b \o c)
    BY ConcatAssociative
  <2>2. <<Head(letters)>> \in Seq(Words)
    BY <1>3
  <2>3. (<<Head(letters)>> \o Tail(letters)) \o Out(parser, rest)
          = <<Head(letters)>> \o (Tail(letters) \o Out(parser, rest))
    <3>1. ASSUME NEW h \in Seq(Words), NEW t \in Seq(Words), NEW u \in Seq(Words)
          PROVE  (h \o t) \o u = h \o (t \o u)
      BY <2>1
    <3> QED
      BY <1>2, <1>3, <2>2, <3>1, Zenon
  <2> DEFINE split == <<Head(letters)>> \o Tail(letters)
  <2>4. letters = split
    BY <1>4
  <2>5. split \o Out(parser, rest) = <<Head(letters)>> \o (Tail(letters) \o Out(parser, rest))
    BY <2>3
  <2> HIDE DEF split
  <2>6. letters \o Out(parser, rest) = split \o Out(parser, rest)
    BY <2>4
  <2> QED
    BY <2>5, <2>6
<1>6. Tail(letters) \o Out(parser, rest) \in Seq(Words)
  BY <1>2, <1>3, ConcatProperties
<1>7. /\ k < Len(words) /\ k \in Nat /\ words[k + 1] = Head(letters)
      /\ Tail(letters) \o Out(parser, rest) = SubSeq(words, k + 2, Len(words))
  BY <1>1, <1>3, <1>5, <1>6, FirstOfRest
<1>8. Loose(Tail(letters))
  <2>1. ASSUME NEW j \in 1..Len(Tail(letters))
        PROVE  /\ j + 1 \in 1..Len(letters) /\ Tail(letters)[j] = letters[j + 1]
               /\ j < Len(Tail(letters)) => j + 1 < Len(letters)
    BY <1>3, <2>1
  <2> QED
    BY <1>1, <1>3, <2>1 DEF Loose
<1>9. 1 \in 1..Len(letters) /\ (Len(letters) = 1 => Tail(letters) = <<>>)
  <2>1. Len(letters) = 1 => Len(Tail(letters)) = 0
    BY <1>3
  <2>2. Len(Tail(letters)) = 0 => Tail(letters) = <<>>
    BY <1>3, EmptySeq
  <2> QED
    BY <1>3, <2>1, <2>2
<1>10. 1 = Len(letters) \/ 1 < Len(letters)
  BY <1>3
<1> QED
  BY <1>1, <1>3, <1>7, <1>8, <1>9, <1>10 DEF Loose

\* The values of an option are counted.
LEMMA ReachType ==
  ASSUME NEW words \in Seq(Words), NEW j \in 1..Len(words), SlotAt(words, j) \in Slots
  PROVE  Reach(words, j) \in Nat
<1>1. OptionOf(words, j).max \in Nat
  BY SlotRanged DEF OptionOf, Ranged
<1>2. j \in 0..Len(words)
  BY LenProperties
<1>3. Run(words, j) \in Nat
  BY <1>2, RunIs
<1> QED
  BY <1>1, <1>3 DEF Reach, Least

\* The words after k have been read with it.
LEMMA JudgedOn ==
  ASSUME NEW words \in Seq(Words), NEW k \in 0..Len(words), NEW m \in k..Len(words),
         Judged(words, k), Kept(words, k),
         \A j \in k + 1 .. m : ~Bad(words, j) /\ ~IsOptionAt(words, j)
  PROVE  Judged(words, m)
<1>1. Len(words) \in Nat
  BY LenProperties
<1>2. ASSUME NEW j \in 1..m
      PROVE  /\ ~Bad(words, j)
             /\ IsOptionAt(words, j) => ~OptionOf(words, j).exits /\ j + Reach(words, j) <= m
  <2>1. CASE j \in 1..k
    <3>1. /\ ~Bad(words, j)
          /\ IsOptionAt(words, j) => ~OptionOf(words, j).exits /\ j + Reach(words, j) <= k
      BY <2>1 DEF Judged
    <3>2. IsOptionAt(words, j) => Reach(words, j) \in Nat
      <4>1. IsOptionAt(words, j) => SlotAt(words, j) \in Slots
        BY <2>1 DEF Kept
      <4>2. j \in 1..Len(words)
        BY <1>1, <2>1
      <4> QED
        BY <4>1, <4>2, ReachType
    <3> QED
      BY <1>1, <2>1, <3>1, <3>2
  <2>2. CASE j \in k + 1 .. m
    BY <2>2
  <2> QED
    BY <1>1, <2>1, <2>2
<1> QED
  BY <1>2 DEF Judged

\* The same of what has been used.
LEMMA KeptOn ==
  ASSUME NEW words \in Seq(Words), NEW k \in 0..Len(words), NEW m \in k..Len(words),
         Kept(words, k), \A j \in k + 1 .. m : ~IsOptionAt(words, j),
         \A slot \in Slots \ {FilesSlot} :
           (slot \in used' <=> slot \in used) /\ values'[slot] = values[slot]
  PROVE  Kept(words, m)'
<1>1. Len(words) \in Nat
  BY LenProperties
<1>2. \A j \in 1..m : j \in 1..k \/ j \in k + 1 .. m
  BY <1>1
<1>3. 1..k \subseteq 1..m
  BY <1>1
<1>4. \A j \in 1..m : IsOptionAt(words, j) => j \in 1..k
  BY <1>2
<1>5. ASSUME NEW slot \in Slots \ {FilesSlot}
      PROVE  slot \in used' <=> \E j \in 1..m : IsOptionAt(words, j) /\ SlotAt(words, j) = slot
  <2>1. slot \in used <=> \E j \in 1..k : IsOptionAt(words, j) /\ SlotAt(words, j) = slot
    BY DEF Kept
  <2> QED
    BY <1>3, <1>4, <2>1
<1>6. ASSUME NEW j \in 1..m, IsOptionAt(words, j)
      PROVE  /\ SlotAt(words, j) \in Slots \ {FilesSlot}
             /\ values'[SlotAt(words, j)] = SubSeq(words, j + 1, j + Reach(words, j))
  <2>1. j \in 1..k
    BY <1>4, <1>6
  <2>2. /\ SlotAt(words, j) \in Slots \ {FilesSlot}
        /\ values[SlotAt(words, j)] = SubSeq(words, j + 1, j + Reach(words, j))
    BY <1>6, <2>1 DEF Kept
  <2> QED
    BY <2>2
<1> QED
  BY <1>5, <1>6 DEF Kept

\* ReadOption: an option that stands for itself.
LEMMA StepOption ==
  ASSUME TypeOK, TypeOK', NEW words \in Seq(Words), Answer(words), ReadOption
  PROVE  Answer(words)'
<1>1. /\ letters = <<>> /\ rest # <<>> /\ status = "parsing"
      /\ Head(rest) \notin Positional /\ IsName(parser, Head(rest))
      /\ Consume(Named(parser, Head(rest)), Tail(rest))
      /\ letters' = letters /\ UNCHANGED <<parser, n_positional>>
  BY DEF ReadOption, Turn
<1>2. PICK k \in 0..Len(words) : Midway(words, k)
  BY <1>1 DEF Answer
<1>3. /\ n_positional = 0 /\ PlainRest(parser, Tail(rest))
      /\ parser # "record" => Len(Tail(rest)) <= Many
      /\ Tail(rest) \in Seq(Words)
  BY <1>1, <1>2, NextWord
<1>4. LettersOf(parser, Head(rest)) = <<Head(rest)>>
  BY <1>1 DEF LettersOf
<1>5. /\ k < Len(words) /\ k \in Nat /\ words[k + 1] = Head(rest)
      /\ Out(parser, Tail(rest)) = SubSeq(words, k + 2, Len(words))
  BY <1>1, <1>2, <1>4, NextOption
<1>6. letters' \o Out(parser, Tail(rest)) = SubSeq(words, k + 2, Len(words))
  <2>1. parser \in {"ezcollect", "record", "summarize"}
    BY ParserIs
  <2>2. Out(parser, Tail(rest)) \in Seq(Words)
    BY <1>3, <2>1, OutIs
  <2>3. <<>> \o Out(parser, Tail(rest)) = Out(parser, Tail(rest))
    BY <2>2, ConcatEmptySeq
  <2> QED
    BY <1>1, <1>5, <2>3
<1>7. Loose(letters') /\ letters' = <<>>
  <2>1. letters' = <<>> /\ <<>> \in Seq(Words) /\ Len(<<>>) = 0
    BY <1>1, EmptySeq
  <2> QED
    BY <2>1 DEF Loose
<1>8. Placed(words, k) /\ Judged(words, k) /\ Kept(words, k) /\ Filed(words)
  BY <1>2 DEF Midway
<1>9. words[k + 1] \notin Positional /\ IsName(parser, words[k + 1])
  BY <1>1, <1>5
<1>10. Consume(Named(parser, words[k + 1]), Tail(rest))
  BY <1>1, <1>5
<1> QED
  BY <1>1, <1>3, <1>5, <1>6, <1>7, <1>8, <1>9, <1>10, OptionStep

\* ReadLetter: one of "-xyz", of which only the last takes values.
LEMMA StepLetter ==
  ASSUME TypeOK, TypeOK', NEW words \in Seq(Words), Answer(words), ReadLetter
  PROVE  Answer(words)'
<1>1. /\ letters # <<>> /\ status = "parsing" /\ IsName(parser, Head(letters))
      /\ Consume(Named(parser, Head(letters)), rest)
      /\ letters' = Tail(letters) /\ UNCHANGED <<parser, n_positional>>
  BY DEF ReadLetter
<1>2. PICK k \in 0..Len(words) : Midway(words, k)
  BY <1>1 DEF Answer
<1>3. /\ k < Len(words) /\ k \in Nat /\ words[k + 1] = Head(letters)
      /\ n_positional = 0 /\ Head(letters) \notin Positional
      /\ Tail(letters) \o Out(parser, rest) = SubSeq(words, k + 2, Len(words))
      /\ Loose(Tail(letters))
      /\ \/ Tail(letters) = <<>>
         \/ IsName("record", Head(letters)) =>
              Arg("record", Named("record", Head(letters))).max = 0
  BY <1>1, <1>2, NextLetter
<1>4. /\ PlainRest(parser, rest) /\ (parser # "record" => Len(rest) <= Many)
      /\ Placed(words, k) /\ Judged(words, k) /\ Kept(words, k) /\ Filed(words)
  BY <1>2 DEF Midway
<1>5. /\ words[k + 1] \notin Positional /\ IsName(parser, words[k + 1])
      /\ Consume(Named(parser, words[k + 1]), rest)
  BY <1>1, <1>3
<1>6. /\ letters' \o Out(parser, rest) = SubSeq(words, k + 2, Len(words))
      /\ Loose(letters')
  BY <1>1, <1>3
<1>7. \/ letters' = <<>> \/ parser # "record"
      \/ Arg(parser, Named(parser, words[k + 1])).max = 0
  BY <1>1, <1>3
<1> QED
  BY <1>1, <1>3, <1>4, <1>5, <1>6, <1>7, OptionStep

\* ReadLetters: "-xyz" is replaced by its letters, and no word is passed.
LEMMA StepLetters ==
  ASSUME TypeOK, TypeOK', NEW words \in Seq(Words), Answer(words), ReadLetters
  PROVE  Answer(words)'
<1> DEFINE word == Head(rest)
<1>1. /\ letters = <<>> /\ rest # <<>> /\ status = "parsing"
      /\ word \notin Positional /\ ~IsName(parser, word) /\ Letters[word] # <<>>
      /\ letters' = Letters[word] /\ rest' = Tail(rest)
      /\ UNCHANGED <<parser, n_positional, used, values, status>>
  BY DEF ReadLetters, Turn
<1>2. PICK k \in 0..Len(words) : Midway(words, k)
  BY <1>1 DEF Answer
<1>3. /\ n_positional = 0 /\ PlainRest(parser, Tail(rest))
      /\ word \in Lettered(parser) /\ word \in Words
      /\ parser # "record" => Len(Tail(rest)) <= Many
      /\ Out(parser, rest) = SubSeq(words, k + 1, Len(words))
  BY <1>1, <1>2, NextWord
<1>4. parser \in {"ezcollect", "record", "summarize"} /\ rest \in Seq(Words)
  BY ParserIs DEF TypeOK
<1> HIDE DEF word
<1>5. Out(parser, rest) = Letters[word] \o Out(parser, Tail(rest))
  <2>1. LettersOf(parser, word) = Letters[word]
    BY <1>1 DEF LettersOf
  <2>2. Head(rest) \notin Positional /\ LettersOf(parser, Head(rest)) = Letters[word]
    BY <1>1, <2>1 DEF word
  <2> QED
    BY <1>1, <1>4, <2>2, OutIs
<1>6. Loose(Letters[word])
  <2>1. PlainLetters(word)
    BY <1>1, <1>3 DEF Lettered
  <2>2. Letters[word] \in Seq(Words)
    BY <1>3, ArgParserAssumption
  <2>3. DOMAIN Letters[word] = 1..Len(Letters[word]) /\ Len(Letters[word]) \in Nat
    BY <2>2, LenProperties
  <2>4. ASSUME NEW j \in 1..Len(Letters[word]), j < Len(Letters[word])
        PROVE  j \in 1 .. Len(Letters[word]) - 1
    BY <2>3, <2>4
  <2> QED
    BY <2>1, <2>2, <2>3, <2>4 DEF Loose, PlainLetters
<1>7. Placed(words, k) /\ Judged(words, k) /\ Kept(words, k) /\ Filed(words)
  BY <1>2 DEF Midway
<1>8. Placed(words, k)' /\ Judged(words, k)' /\ Kept(words, k)' /\ Filed(words)'
  BY <1>1, <1>7 DEF Placed, Judged, Kept, Filed
<1>9. /\ letters' \o Out(parser', rest') = SubSeq(words, k + 1, Len(words))
      /\ Loose(letters') /\ PlainRest(parser', rest')
      /\ parser' # "record" => Len(rest') <= Many
      /\ n_positional' # 1
  <2>1. letters' \o Out(parser', rest') = SubSeq(words, k + 1, Len(words))
    BY <1>1, <1>3, <1>5
  <2>2. Loose(letters')
    BY <1>1, <1>6
  <2>3. PlainRest(parser', rest') /\ (parser' # "record" => Len(rest') <= Many)
    BY <1>1, <1>3
  <2>4. n_positional' # 1
    BY <1>1, <1>3
  <2> QED
    BY <2>1, <2>2, <2>3, <2>4
<1>10. Midway(words, k)'
  BY <1>8, <1>9 DEF Midway
<1>11. status' = "parsing" /\ \E x \in 0..Len(words) : Midway(words, x)'
  BY <1>1, <1>2, <1>10
<1> QED
  BY <1>11 DEF Answer

\* RefuseUnknown: the word at place k + 1 is no option.
LEMMA StepUnknown ==
  ASSUME TypeOK, NEW words \in Seq(Words), Answer(words), RefuseUnknown
  PROVE  Answer(words)'
<1>1. status = "parsing" /\ status' = "refused"
  BY DEF RefuseUnknown, Refuse, Turn
<1>2. PICK k \in 0..Len(words) : Midway(words, k)
  BY <1>1 DEF Answer
<1>3. Placed(words, k) /\ Judged(words, k)
  BY <1>2 DEF Midway
<1>4. /\ k < Len(words) /\ k \in Nat /\ n_positional = 0
      /\ words[k + 1] \notin Positional /\ ~IsName(parser, words[k + 1])
  <2>1. CASE letters # <<>>
    <3>1. ~IsName(parser, Head(letters))
      BY <2>1 DEF RefuseUnknown, Turn
    <3> QED
      BY <1>2, <2>1, <3>1, NextLetter
  <2>2. CASE letters = <<>>
    <3>1. /\ rest # <<>> /\ Head(rest) \notin Positional
          /\ ~IsName(parser, Head(rest)) /\ Letters[Head(rest)] = <<>>
      BY <2>2 DEF RefuseUnknown, Turn
    <3>2. LettersOf(parser, Head(rest)) = <<Head(rest)>>
      BY <3>1 DEF LettersOf
    <3>3. n_positional = 0
      BY <1>2, <2>2, <3>1, NextWord
    <3> QED
      BY <1>2, <2>2, <3>1, <3>2, <3>3, NextOption
  <2> QED
    BY <2>1, <2>2
<1>5. Bad(words, k + 1)
  <2>1. /\ IsOptionAt(words, k + 1) <=> IsName(parser, words[k + 1])
        /\ Bad(words, k + 1) <=> BadOption(words, k + 1)
    BY <1>3, <1>4, OptionHere
  <2> QED
    BY <1>4, <2>1 DEF BadOption
<1> QED
  BY <1>1, <1>3, <1>4, <1>5, RefusedHere

\* The place of a positional word that begins what is left.
LEMMA NextPositional ==
  ASSUME TypeOK, NEW words \in Seq(Words), NEW k \in 0..Len(words), Midway(words, k),
         letters = <<>>, rest # <<>>, Head(rest) \in Positional
  PROVE  /\ k < Len(words) /\ k \in Nat /\ words[k + 1] = Head(rest)
         /\ n_positional = 0
         /\ parser = "ezcollect" =>
              PartOut(Head(rest), Tail(rest)) = SubSeq(words, k + 2, Len(words))
         /\ parser = "summarize" => rest = SubSeq(words, k + 1, Len(words))
<1>1. /\ n_positional = 0 /\ Head(rest) \in Words /\ Tail(rest) \in Seq(Words)
      /\ Out(parser, rest) = SubSeq(words, k + 1, Len(words))
  BY NextWord
<1>2. parser \in {"ezcollect", "record", "summarize"} /\ rest \in Seq(Words)
  BY ParserIs DEF TypeOK
<1>3. CASE parser = "record"
  <2>1. LettersOf(parser, Head(rest)) = <<Head(rest)>>
    BY <1>1, PositionalIs
  <2>2. k < Len(words) /\ k \in Nat /\ words[k + 1] = Head(rest)
    BY <1>3, <2>1, NextOption
  <2> QED
    BY <1>1, <1>3, <2>2
<1>4. CASE parser = "ezcollect"
  <2>1. Out(parser, rest) = <<Head(rest)>> \o PartOut(Head(rest), Tail(rest))
    BY <1>2, <1>4, OutIs
  <2>2. PartOut(Head(rest), Tail(rest)) \in Seq(Words)
    BY <1>1, PartOutType
  <2> HIDE DEF PartOut
  <2>3. /\ k < Len(words) /\ k \in Nat /\ words[k + 1] = Head(rest)
        /\ PartOut(Head(rest), Tail(rest)) = SubSeq(words, k + 2, Len(words))
    BY <1>1, <2>1, <2>2, FirstOfRest
  <2> QED
    BY <1>1, <1>4, <2>3
<1>5. CASE parser = "summarize"
  <2>1. Out(parser, rest) = rest
    BY <1>2, <1>5, OutIs
  <2>2. rest = <<Head(rest)>> \o Tail(rest)
    BY <1>2
  <2>3. <<Head(rest)>> \o Tail(rest) = SubSeq(words, k + 1, Len(words))
    BY <1>1, <2>1, <2>2
  <2>4. k < Len(words) /\ k \in Nat /\ words[k + 1] = Head(rest)
    BY <1>1, <2>3, FirstOfRest
  <2> QED
    BY <1>1, <1>5, <2>1, <2>4
<1> QED
  BY <1>2, <1>3, <1>4, <1>5

\* ReadSubcommand: the word is the command, and its parser goes on behind it.
LEMMA StepSubcommand ==
  ASSUME TypeOK, TypeOK', NEW words \in Seq(Words), Answer(words), ReadSubcommand
  PROVE  Answer(words)'
<1> DEFINE word == Head(rest)
<1>1. /\ letters = <<>> /\ rest # <<>> /\ status = "parsing" /\ word \in Positional
      /\ word \in Parsers[parser].subcommands /\ parser' = word
      /\ rest' = Preprocess(word, Tail(rest)) /\ n_positional' = 0
      /\ UNCHANGED <<letters, used, values, status>>
  BY DEF ReadSubcommand, Excess, Turn
<1>2. PICK k \in 0..Len(words) : Midway(words, k)
  BY <1>1 DEF Answer
<1>3. parser = "ezcollect" /\ word \in {"record", "summarize"}
  BY <1>1, ParsersAre, ParserIs
<1>4. /\ k < Len(words) /\ k \in Nat /\ words[k + 1] = word /\ n_positional = 0
      /\ PartOut(word, Tail(rest)) = SubSeq(words, k + 2, Len(words))
  BY <1>1, <1>2, <1>3, NextPositional
<1>5. /\ PlainRest(parser, Tail(rest)) /\ Tail(rest) \in Seq(Words)
      /\ Len(Tail(rest)) <= Many
  BY <1>1, <1>2, <1>3, NextWord
<1>6. Placed(words, k) /\ Judged(words, k) /\ Kept(words, k) /\ Filed(words)
  BY <1>2 DEF Midway
<1>7. Len(words) \in Nat /\ k + 1 \in 1..Len(words)
  <2>1. Len(words) \in Nat
    BY LenProperties
  <2> QED
    BY <1>4, <2>1
<1>8. k + 1 = Command(words) /\ k + 1 \notin Files(words)
  BY <1>1, <1>3, <1>4, <1>6, Here
<1>9. Plain(Tail(rest))
  BY <1>3, <1>5 DEF PlainRest
<1> HIDE DEF word
<1>10. /\ Out(parser', rest') = PartOut(word, Tail(rest)) /\ PlainRest(parser', rest')
       /\ parser' # "record" => Len(rest') <= Many
  <2>1. CASE word = "record"
    <3>1. PartOut("record", Tail(rest)) = LettersOut("record", Preprocess("record", Tail(rest)))
      BY DEF PartOut
    <3>2. Preprocess("record", Tail(rest)) \in Seq(Lettered("record"))
      BY <1>5, <1>9, PreprocessLettered
    <3>3. Out("record", Preprocess("record", Tail(rest))) = PartOut("record", Tail(rest))
      BY <3>1 DEF Out
    <3>4. PlainRest("record", Preprocess("record", Tail(rest)))
      BY <3>2 DEF PlainRest
    <3> QED
      BY <1>1, <2>1, <3>3, <3>4
  <2>2. CASE word = "summarize"
    <3>1. Preprocess("summarize", Tail(rest)) = Tail(rest)
      BY <1>5, <1>9, PreprocessPlain
    <3>2. Out("summarize", Tail(rest)) = PartOut("summarize", Tail(rest))
      BY DEF Out
    <3>3. PlainRest("summarize", Tail(rest))
      BY <1>5, <1>9, PlainIsLettered DEF PlainRest
    <3> QED
      BY <1>1, <1>5, <2>2, <3>1, <3>2, <3>3
  <2> QED
    BY <1>3, <2>1, <2>2
<1>11. letters' \o Out(parser', rest') = SubSeq(words, (k + 1) + 1, Len(words))
  <2>1. PartOut(word, Tail(rest)) \in Seq(Words)
    BY <1>5, PartOutType
  <2>2. letters' = <<>> /\ (k + 1) + 1 = k + 2
    BY <1>1, <1>4
  <2>3. <<>> \o PartOut(word, Tail(rest)) = PartOut(word, Tail(rest))
    BY <2>1, ConcatEmptySeq
  <2> QED
    BY <1>4, <1>10, <2>2, <2>3
<1>12. Loose(letters')
  <2>1. letters' = letters /\ Loose(letters)
    BY <1>1, <1>2 DEF Midway
  <2> QED
    BY <2>1
<1>13. words[k + 1] \in Positional /\ words[k + 1] \in {"record", "summarize"}
  BY <1>1, <1>3, <1>4
<1>14. ~Bad(words, k + 1) /\ ~IsOptionAt(words, k + 1)
  BY <1>8, <1>13, ParsersAre DEF Bad, BadPositional, IsOptionAt
<1>15. \A j \in k + 1 .. k + 1 : ~Bad(words, j) /\ ~IsOptionAt(words, j)
  <2>1. \A j \in k + 1 .. k + 1 : j = k + 1
    BY <1>4
  <2> QED
    BY <1>14, <2>1
<1>16. k + 1 \in k..Len(words)
  BY <1>4, <1>7
<1>17. Judged(words, k + 1)
  BY <1>6, <1>15, <1>16, JudgedOn
<1> PICK m \in 0..Len(words) : m = k + 1
  BY <1>7
<1>18. Judged(words, m)'
  BY <1>17 DEF Judged
<1>19. Kept(words, m)'
  <2>1. m \in k..Len(words)
    BY <1>16
  <2>2. \A j \in k + 1 .. m : ~IsOptionAt(words, j)
    BY <1>15
  <2>3. \A slot \in Slots \ {FilesSlot} :
          (slot \in used' <=> slot \in used) /\ values'[slot] = values[slot]
    BY <1>1
  <2> QED
    BY <1>6, <2>1, <2>2, <2>3, KeptOn
<1>20. Placed(words, m)'
  <2>1. Command(words) \in 1..m /\ words[Command(words)] = parser'
    BY <1>1, <1>4, <1>7, <1>8
  <2>2. \A j \in Command(words) + 1 .. m : FALSE
    BY <1>4, <1>8
  <2>3. parser' # "ezcollect"
    BY <1>1, <1>3
  <2> QED
    BY <2>1, <2>2, <2>3 DEF Placed
<1>21. Filed(words)'
  <2>1. FilesSlot \notin used' /\ n_positional' # 1
    BY <1>1, <1>4, <1>6 DEF Filed
  <2> QED
    BY <2>1 DEF Filed
<1>22. Midway(words, m)'
  <2>1. n_positional' # 1
    BY <1>1
  <2> QED
    BY <1>10, <1>11, <1>12, <1>18, <1>19, <1>20, <1>21, <2>1 DEF Midway
<1>23. status' = "parsing" /\ \E x \in 0..Len(words) : Midway(words, x)'
  BY <1>1, <1>22
<1> QED
  BY <1>23 DEF Answer

\* RefuseExcess: the word is no subcommand, no file and no value.
LEMMA StepExcess ==
  ASSUME TypeOK, NEW words \in Seq(Words), Answer(words), RefuseExcess
  PROVE  Answer(words)'
<1>1. /\ letters = <<>> /\ rest # <<>> /\ status = "parsing" /\ status' = "refused"
      /\ Head(rest) \in Positional /\ Head(rest) \notin Parsers[parser].subcommands
      /\ n_positional = Len(Parsers[parser].positionals)
  BY DEF RefuseExcess, Excess, Turn, Refuse
<1>2. PICK k \in 0..Len(words) : Midway(words, k)
  BY <1>1 DEF Answer
<1>3. /\ k < Len(words) /\ k \in Nat /\ words[k + 1] = Head(rest) /\ n_positional = 0
  BY <1>1, <1>2, NextPositional
<1>4. parser \in {"ezcollect", "record"}
  <2>1. Len(<<"files">>) # 0
    OBVIOUS
  <2>2. parser # "summarize"
    BY <1>1, <1>3, <2>1, ParsersAre
  <2> QED
    BY <2>2, ParserIs
<1>5. Placed(words, k) /\ Judged(words, k) /\ Kept(words, k)
  BY <1>2 DEF Midway
<1>6. k + 1 \notin Files(words) /\ words[k + 1] \in Positional
  BY <1>1, <1>3, <1>4, <1>5, Here
<1>7. CASE parser = "ezcollect"
  <2>1. k + 1 = Command(words) /\ words[k + 1] \notin Parsers["ezcollect"].subcommands
    BY <1>1, <1>3, <1>5, <1>6, <1>7, Here
  <2>2. Bad(words, k + 1)
    BY <1>6, <2>1 DEF Bad, BadPositional
  <2> QED
    BY <1>1, <1>3, <1>5, <2>2, RefusedHere
<1>8. CASE parser = "record"
  <2>1. k + 1 # Command(words) /\ Command(words) \in 1..k
    BY <1>3, <1>5, <1>8, Here DEF Placed
  <2>2. Len(words) \in Nat /\ (k + 1) - 1 = k
    BY <1>3, LenProperties
  <2>3. ASSUME NEW j \in Command(words) + 1 .. (k + 1) - 1, IsOptionAt(words, j),
               (k + 1) - j <= Run(words, j), (k + 1) - j <= OptionOf(words, j).max
        PROVE  FALSE
    <3>1. j \in 1..k /\ j \in 0..Len(words)
      BY <1>3, <2>1, <2>2, <2>3
    <3>2. j + Reach(words, j) <= k /\ SlotAt(words, j) \in Slots
      BY <1>5, <2>3, <3>1 DEF Judged, Kept
    <3>3. Run(words, j) \in Nat /\ OptionOf(words, j).max \in Nat
      BY <3>1, <3>2, RunIs, SlotRanged DEF OptionOf, Ranged
    <3> DEFINE run == Run(words, j)
               max == OptionOf(words, j).max
    <3> HIDE DEF run, max
    <3>4. Reach(words, j) = Least(run, max)
      BY DEF Reach, run, max
    <3>5. run \in Nat /\ max \in Nat /\ (k + 1) - j <= run /\ (k + 1) - j <= max
      BY <2>3, <3>3 DEF run, max
    <3>6. Least(run, max) \in Nat /\ (k + 1) - j <= Least(run, max)
      BY <3>5 DEF Least
    <3> QED
      BY <1>3, <3>1, <3>2, <3>4, <3>6
  <2>4. Bad(words, k + 1)
    BY <1>6, <2>1, <2>3 DEF Bad, BadPositional
  <2> QED
    BY <1>1, <1>3, <1>5, <2>4, RefusedHere
<1> QED
  BY <1>4, <1>7, <1>8

\* What the files take, and that they are accepted.
LEMMA FilesTake ==
  ASSUME NEW words \in Seq(Words), Len(words) <= Many
  PROVE  LET arg == Arg("summarize", "files")
         IN ~TooFew(arg, words) /\ Taken(arg, words) = words /\ ~arg.exits
<1> DEFINE arg == Arg("summarize", "files")
<1>1. /\ arg.min = 0 /\ arg.max = Many /\ arg.takes_options /\ ~arg.exits
  BY FilesDeclared
<1>2. Many \in Nat /\ Many # 0 /\ Len(words) \in Nat
  BY OptionsAssumption, LenProperties
<1> HIDE DEF arg
<1>3. Least(arg.max, Len(words)) = Len(words)
  BY <1>1, <1>2 DEF Least
<1>4. SubSeq(words, 1, Len(words)) = words
  BY SubSeqFull
<1>5. Offered(arg, words) = words
  BY <1>1, <1>3, <1>4 DEF Offered
<1>6. ~(Len(words) < arg.min) /\ ~(Len(Offered(arg, words)) < arg.min)
  BY <1>1, <1>2, <1>5
<1>7. ~TooFew(arg, words) /\ Taken(arg, words) = words
  BY <1>1, <1>2, <1>5, <1>6 DEF TooFew, Taken
<1> QED
  BY <1>1, <1>7 DEF arg

\* From its first positional word on, summarize has files.
LEMMA FilesFrom ==
  ASSUME TypeOK, parser = "summarize", n_positional = 0, NEW words \in Seq(Words),
         NEW k \in Nat, k < Len(words), Placed(words, k), words[k + 1] \in Positional
  PROVE  \A j \in 1..Len(words) : j \in Files(words) <=> j >= k + 1
<1>1. Len(words) \in Nat /\ DOMAIN words = 1..Len(words)
  BY LenProperties
<1>2. /\ Command(words) \in 1..k /\ words[Command(words)] = "summarize"
      /\ \A i \in Command(words) + 1 .. k : words[i] \notin Positional
  BY DEF Placed
<1>3. ASSUME NEW j \in 1..Len(words), j >= k + 1 PROVE j \in Files(words)
  <2>1. k + 1 \in Command(words) + 1 .. j /\ j > Command(words)
    BY <1>1, <1>2, <1>3
  <2> QED
    BY <1>1, <1>2, <2>1 DEF Files
<1>4. ASSUME NEW j \in 1..Len(words), j \in Files(words) PROVE j >= k + 1
  <2>1. PICK i \in Command(words) + 1 .. j : words[i] \in Positional
    BY <1>4 DEF Files
  <2>2. ~(i <= k)
    BY <1>2, <2>1
  <2> QED
    BY <1>1, <1>2, <2>1, <2>2
<1> QED
  BY <1>3, <1>4

\* ReadPositional: summarize takes all that is left.
LEMMA StepFiles ==
  ASSUME TypeOK, TypeOK', NEW words \in Seq(Words), Answer(words), ReadPositional
  PROVE  Answer(words)'
<1> DEFINE arg == Arg("summarize", "files")
<1>1. /\ letters = <<>> /\ rest # <<>> /\ status = "parsing" /\ Head(rest) \in Positional
      /\ n_positional < Len(Parsers[parser].positionals)
      /\ n_positional' = n_positional + 1
      /\ Consume(Parsers[parser].positionals[n_positional + 1], rest)
      /\ UNCHANGED <<parser, letters>>
  BY DEF ReadPositional, Turn
<1>2. PICK k \in 0..Len(words) : Midway(words, k)
  BY <1>1 DEF Answer
<1>3. /\ k < Len(words) /\ k \in Nat /\ words[k + 1] = Head(rest) /\ n_positional = 0
      /\ parser = "summarize" => rest = SubSeq(words, k + 1, Len(words))
  BY <1>1, <1>2, NextPositional
<1>4. parser = "summarize"
  <2>1. Len(<<>>) = 0
    BY EmptySeq
  <2> QED
    BY <1>1, <1>3, <2>1, ParsersAre, ParserIs
<1>5. Consume("files", rest)
  <2>1. <<"files">>[1] = "files" /\ n_positional + 1 = 1
    BY <1>3
  <2> QED
    BY <1>1, <1>4, <2>1, ParsersAre
<1>6. /\ Loose(letters) /\ Len(rest) <= Many
      /\ Placed(words, k) /\ Judged(words, k) /\ Kept(words, k) /\ Filed(words)
  BY <1>2, <1>4 DEF Midway
<1>7. rest \in Seq(Words) /\ used \subseteq Slots /\ values \in [Slots -> Seq(Words)]
  BY DEF TypeOK
<1>8. ~TooFew(arg, rest) /\ Taken(arg, rest) = rest /\ ~arg.exits
  BY <1>6, <1>7, FilesTake
<1>9. FilesSlot \notin used /\ FilesSlot \in Slots
  <2>1. FilesSlot \in Slots
    BY ParsersAre, SlotsAre DEF FilesSlot
  <2> QED
    BY <1>3, <1>6, <2>1 DEF Filed
<1> HIDE DEF arg
<1>10. /\ used' = used \cup {FilesSlot} /\ values' = [values EXCEPT ![FilesSlot] = rest]
       /\ rest' = SubSeq(rest, Len(rest) + 1, Len(rest)) /\ status' = "parsing"
  BY <1>1, <1>4, <1>5, <1>8, <1>9 DEF Consume, FilesSlot, arg
<1>11. rest' = <<>>
  <2>1. Len(rest) \in Nat
    BY <1>7, LenProperties
  <2>2. Len(rest) + 1 \in Int /\ Len(rest) \in Int /\ Len(rest) < Len(rest) + 1
    BY <2>1
  <2> QED
    BY <1>10, <2>2, SubSeqEmpty
<1>12. \A j \in 1..Len(words) : j \in Files(words) <=> j >= k + 1
  BY <1>1, <1>3, <1>4, <1>6, FilesFrom
<1>13. Len(words) \in Nat
  BY LenProperties
<1>14. PICK m \in 0..Len(words) : m = Len(words)
  BY <1>13
<1>15. m \in k..Len(words) /\ k \in 0..Len(words)
  BY <1>3, <1>13, <1>14
<1>16. \A j \in k + 1 .. m : ~Bad(words, j) /\ ~IsOptionAt(words, j)
  <2>1. \A j \in k + 1 .. m : j \in Files(words)
    BY <1>3, <1>12, <1>13, <1>14
  <2> QED
    BY <2>1 DEF Bad, IsOptionAt
<1>17. Judged(words, m)
  BY <1>6, <1>15, <1>16, JudgedOn
<1>18. Kept(words, m)'
  <2>1. \A slot \in Slots \ {FilesSlot} :
          (slot \in used' <=> slot \in used) /\ values'[slot] = values[slot]
    BY <1>7, <1>10
  <2> QED
    BY <1>6, <1>15, <1>16, <2>1, KeptOn
<1>19. n_positional' = 1 /\ parser' = "summarize"
  BY <1>1, <1>3, <1>4
<1>20. Placed(words, m)'
  <2>1. Command(words) \in 1..k /\ words[Command(words)] = "summarize"
    BY <1>4, <1>6 DEF Placed
  <2>2. Command(words) \in 1..m
    BY <1>3, <1>13, <1>14, <2>1
  <2> QED
    BY <1>19, <2>1, <2>2 DEF Placed
<1>21. Filed(words)'
  <2>1. k + 1 \in Files(words) /\ (k + 1) - 1 \notin Files(words)
    <3>1. k + 1 \in 1..Len(words) /\ (k + 1) - 1 = k /\ ~(k >= k + 1)
      BY <1>3, <1>13
    <3>2. k \in Files(words) => k \in 1..Len(words)
      BY LenProperties DEF Files
    <3> QED
      BY <1>3, <1>12, <3>1, <3>2
  <2>2. values'[FilesSlot] = SubSeq(words, k + 1, Len(words))
    BY <1>3, <1>4, <1>7, <1>9, <1>10
  <2>3. FilesSlot \in used'
    BY <1>10
  <2> QED
    BY <1>19, <2>1, <2>2, <2>3 DEF Filed
<1>22. Midway(words, m)'
  <2>1. letters' \o Out(parser', rest') = SubSeq(words, m + 1, Len(words))
    <3>1. Out("summarize", <<>>) = <<>>
      BY EmptySeq, OutIs
    <3>2. <<>> \o <<>> = <<>>
      BY EmptySeq, ConcatEmptySeq
    <3>3. SubSeq(words, m + 1, Len(words)) = <<>>
      BY <1>14, RestIs
    <3> QED
      BY <1>1, <1>11, <1>19, <3>1, <3>2, <3>3
  <2>2. Loose(letters') /\ letters' = <<>>
    BY <1>1, <1>6
  <2>3. PlainRest(parser', rest') /\ Len(rest') <= Many
    <3>1. <<>> \in Seq(Lettered("summarize")) /\ Plain(<<>>)
      BY EmptySeq DEF Plain
    <3>2. Len(<<>>) = 0 /\ Many \in Nat
      BY EmptySeq, OptionsAssumption
    <3> QED
      BY <1>11, <1>19, <3>1, <3>2 DEF PlainRest
  <2>4. Judged(words, m)'
    BY <1>17 DEF Judged
  <2> QED
    BY <1>11, <1>18, <1>20, <1>21, <2>1, <2>2, <2>3, <2>4 DEF Midway
<1>23. \E x \in 0..Len(words) : Midway(words, x)'
  BY <1>14, <1>22
<1> QED
  BY <1>10, <1>23 DEF Answer

\* EndOfLine: the last place, and Argument::validate accepts the values.
LEMMA StepEnd ==
  ASSUME TypeOK, NEW words \in Seq(Words), Answer(words), EndOfLine
  PROVE  Answer(words)'
<1>1. /\ letters = <<>> /\ rest = <<>> /\ status = "parsing"
      /\ status' = IF Valid(parser) /\ Valid("ezcollect") THEN "parsed" ELSE "refused"
      /\ UNCHANGED <<parser, n_positional, used, values>>
  BY DEF EndOfLine
<1>2. PICK k \in 0..Len(words) : Midway(words, k)
  BY <1>1 DEF Answer
<1>3. k = Len(words)
  <2>1. parser \in {"ezcollect", "record", "summarize"} /\ <<>> \in Seq(Words)
    BY ParserIs, EmptySeq
  <2>2. Out(parser, <<>>) = <<>>
    BY <2>1, OutIs
  <2>3. <<>> \o <<>> = <<>>
    BY EmptySeq, ConcatEmptySeq
  <2>4. SubSeq(words, k + 1, Len(words)) = <<>>
    BY <1>1, <1>2, <2>2, <2>3 DEF Midway
  <2> QED
    BY <2>4, RestIs
<1>4. \A p \in DOMAIN Parsers : Valid(p)
  <2>1. Valid("ezcollect") /\ Valid("record")
    <3>1. ToSet(<<>>) = {}
      BY DEF ToSet
    <3> QED
      BY <3>1, ParsersAre DEF Valid
  <2>2. Valid("summarize")
    <3>1. ToSet(<<"files">>) = {"files"}
      BY DEF ToSet
    <3>2. /\ FilesSlot \in Slots /\ FilesSlot[1] = "summarize" /\ FilesSlot[2] = "files"
      BY ParsersAre, SlotsAre DEF FilesSlot
    <3>3. Len(values[FilesSlot]) <= Many /\ values[FilesSlot] \in Seq(Words)
      BY <3>2, FilesDeclared DEF TypeOK
    <3>4. Len(values[FilesSlot]) \in 0..Many
      BY <3>3, LenProperties, OptionsAssumption
    <3>5. Arg("summarize", "files").min = 0 /\ Arg("summarize", "files").max = Many
      BY FilesDeclared
    <3> QED
      BY <3>1, <3>4, <3>5, ParsersAre DEF Valid, FilesSlot
  <2> QED
    BY <2>1, <2>2, ParsersAre
<1>5. status' = "parsed"
  BY <1>1, <1>4, ParserIs, ParsersAre
<1>6. Placed(words, k) /\ Judged(words, k) /\ Kept(words, k) /\ Filed(words)
  BY <1>2 DEF Midway
<1>7. Placed(words, k)' /\ Judged(words, k)' /\ Kept(words, k)' /\ Filed(words)'
  BY <1>1, <1>6 DEF Placed, Judged, Kept, Filed
<1> QED
  BY <1>3, <1>5, <1>7 DEF Answer

\* What holds of the parser between two turns of its loop.
LineInv ==
  /\ TypeOK
  /\ Plain(line) => \A words \in {WrittenOut(line)} : Answer(words)

\* The line as written out is made of words.
LEMMA WrittenOutType ==
  ASSUME NEW words \in Seq(Words)
  PROVE  WrittenOut(words) \in Seq(Words)
<1>1. Out("ezcollect", words) \in Seq(Words)
  BY OutIs
<1> QED
  BY <1>1 DEF Out

\* The loop begins at place 0.
LEMMA InitAnswer ==
  ASSUME Init, Plain(line), NEW words, words = WrittenOut(line)
  PROVE  Answer(words)
<1>1. /\ line \in Lines /\ parser = "ezcollect" /\ rest = Preprocess("ezcollect", line)
      /\ letters = <<>> /\ n_positional = 0 /\ used = {} /\ status = "parsing"
  BY DEF Init
<1>2. line \in Seq(Words) /\ Len(line) <= Many
  BY <1>1, ArgParserAssumption
<1>3. rest = line
  BY <1>1, <1>2, PreprocessPlain
<1>4. words \in Seq(Words)
  BY <1>2, WrittenOutType
<1>5. PICK k \in 0..Len(words) : k = 0
  BY <1>4, LenProperties
<1>6. letters \o Out(parser, rest) = SubSeq(words, k + 1, Len(words))
  <2>1. Out(parser, rest) = words
    BY <1>1, <1>3 DEF Out
  <2>2. <<>> \o words = words /\ SubSeq(words, 1, Len(words)) = words
    BY <1>4, ConcatEmptySeq, SubSeqFull
  <2>3. k + 1 = 1
    BY <1>5
  <2> QED
    BY <1>1, <2>1, <2>2, <2>3
<1>7. Loose(letters)
  BY <1>1, EmptySeq DEF Loose
<1>8. PlainRest(parser, rest) /\ (parser # "record" => Len(rest) <= Many)
  BY <1>1, <1>2, <1>3, PlainIsLettered DEF PlainRest
<1>9. \A j \in 1..k : FALSE
  BY <1>5
<1>10. Placed(words, k) /\ Judged(words, k) /\ Kept(words, k) /\ Filed(words)
  BY <1>1, <1>9 DEF Placed, Judged, Kept, Filed
<1>11. Midway(words, k)
  BY <1>1, <1>6, <1>7, <1>8, <1>10 DEF Midway
<1>12. \E x \in 0..Len(words) : Midway(words, x)
  BY <1>5, <1>11
<1> QED
  BY <1>1, <1>12 DEF Answer

\* Every turn keeps the answer.
LEMMA NextAnswer ==
  ASSUME TypeOK, TypeOK', NEW words \in Seq(Words), Answer(words), [Next]_vars
  PROVE  Answer(words)'
<1>1. CASE UNCHANGED vars
  BY <1>1 DEF vars, Answer, Midway, Placed, Judged, Kept, Filed
<1>2. CASE Next
  <2>1. CASE Terminated
    BY <1>1, <2>1 DEF Terminated
  <2>2. CASE Parse
    BY <2>2, StepSubcommand, StepExcess, StepFiles, StepOption, StepLetters, StepLetter,
       StepUnknown, StepEnd DEF Parse
  <2> QED
    BY <1>2, <2>1, <2>2 DEF Next
<1> QED
  BY <1>1, <1>2

\* The line itself stays as it is.
LEMMA LineStep == [Next]_vars => line' = line
BY DEF Next, Parse, Terminated, vars, ReadSubcommand, RefuseExcess, ReadPositional, ReadOption,
       ReadLetters, ReadLetter, RefuseUnknown, EndOfLine, Refuse

\* The inductive invariant of the parser.
LEMMA LineInvariant == Spec => []LineInv
<1>1. Init => LineInv
  BY InitTypes, InitAnswer DEF LineInv
<1>2. LineInv /\ TypeOK' /\ [Next]_vars => LineInv'
  <2> SUFFICES ASSUME LineInv, TypeOK', [Next]_vars PROVE LineInv'
    OBVIOUS
  <2>1. TypeOK /\ line' = line /\ line \in Seq(Words)
    BY LineStep DEF LineInv, TypeOK
  <2>2. ASSUME Plain(line), NEW words, words = WrittenOut(line) PROVE Answer(words)'
    <3>1. words \in Seq(Words) /\ Answer(words)
      BY <2>1, <2>2, WrittenOutType DEF LineInv
    <3> QED
      BY <2>1, <3>1, NextAnswer
  <2> QED
    BY <2>1, <2>2 DEF LineInv
<1>3. Spec => []TypeOK
  BY LineTypeCorrect
<1> QED
  BY <1>1, <1>2, <1>3, PTL DEF Spec

\* A line that is answered is answered as the words around each word say: the
\* loop of parse_args_internal, which decides word by word, gives Result.
THEOREM AsTheGrammarHolds == Spec => []AsTheGrammar
<1>1. LineInv => AsTheGrammar
  <2> SUFFICES ASSUME LineInv, status # "parsing", Plain(line),
                      NEW words, words = WrittenOut(line)
               PROVE  status = Result(words)
    BY DEF AsTheGrammar
  <2>1. words \in Seq(Words) /\ Answer(words)
    BY WrittenOutType DEF LineInv, TypeOK
  <2>2. DOMAIN words = 1..Len(words) /\ Len(words) \in Nat
    BY <2>1, LenProperties
  <2> DEFINE Ended == \E k \in DOMAIN words :
                        /\ IsOptionAt(words, k) /\ OptionOf(words, k).exits
                        /\ \A j \in 1..k : ~Bad(words, j)
             Wrong == \E k \in DOMAIN words : Bad(words, k)
  <2>3. Result(words) = IF Ended THEN "exited" ELSE IF Wrong THEN "refused" ELSE "parsed"
    BY DEF Result
  <2>4. CASE status = "refused"
    <3>1. PICK k \in 1..Len(words) : Bad(words, k) /\ \A j \in 1 .. k - 1 : ~Exits(words, j)
      BY <2>1, <2>4 DEF Answer
    <3>2. ASSUME NEW x \in DOMAIN words, Exits(words, x), \A j \in 1..x : ~Bad(words, j)
          PROVE  FALSE
      <4>1. ~(k \in 1..x)
        BY <3>1, <3>2
      <4>2. x \in 1 .. k - 1
        BY <2>2, <3>1, <3>2, <4>1
      <4> QED
        BY <3>1, <3>2, <4>2
    <3>3. ~Ended
      BY <3>2 DEF Exits
    <3>4. Wrong
      BY <2>2, <3>1
    <3> QED
      BY <2>3, <2>4, <3>3, <3>4
  <2>5. CASE status = "exited"
    <3>1. Ended
      BY <2>1, <2>2, <2>5 DEF Answer, Exits
    <3> QED
      BY <2>3, <2>5, <3>1
  <2>6. CASE status = "parsed"
    <3>1. Judged(words, Len(words))
      BY <2>1, <2>6 DEF Answer
    <3>2. ~Ended /\ ~Wrong
      BY <2>2, <3>1 DEF Judged
    <3> QED
      BY <2>3, <2>6, <3>2
  <2> QED
    BY <2>4, <2>5, <2>6 DEF LineInv, TypeOK, Statuses
<1> QED
  BY <1>1, LineInvariant, PTL

\* In an accepted line the arguments have the values that the line gives them.
THEOREM ValuesBelongHolds == Spec => []ValuesBelong
<1>1. LineInv => ValuesBelong
  <2> SUFFICES ASSUME LineInv, status = "parsed", Plain(line),
                      NEW words, words = WrittenOut(line), NEW slot \in Slots
               PROVE  /\ slot \in used <=> ValuesOf(words, slot) # {}
                      /\ ValuesOf(words, slot) \subseteq {values[slot]}
    BY DEF ValuesBelong
  <2>1. words \in Seq(Words) /\ Answer(words) /\ TypeOK
    BY WrittenOutType DEF LineInv, TypeOK
  <2>2. DOMAIN words = 1..Len(words) /\ Len(words) \in Nat
    BY <2>1, LenProperties
  <2>3. /\ Placed(words, Len(words)) /\ Judged(words, Len(words))
        /\ Kept(words, Len(words)) /\ Filed(words)
    BY <2>1 DEF Answer
  <2>4. CASE slot # FilesSlot
    <3> DEFINE Asked == {j \in DOMAIN words : IsOptionAt(words, j) /\ SlotAt(words, j) = slot}
    <3>1. ValuesOf(words, slot) =
            {SubSeq(words, k + 1, k + Least(Run(words, k), OptionOf(words, k).max)) : k \in Asked}
      BY <2>4 DEF ValuesOf, FilesSlot
    <3>2. slot \in used <=> Asked # {}
      BY <2>2, <2>3, <2>4 DEF Kept
    <3>3. ASSUME NEW k \in Asked
          PROVE  SubSeq(words, k + 1, k + Least(Run(words, k), OptionOf(words, k).max))
                   = values[slot]
      BY <2>2, <2>3 DEF Kept, Reach
    <3> HIDE DEF Asked
    <3> QED
      BY <3>1, <3>2, <3>3
  <2>5. CASE slot = FilesSlot
    <3> DEFINE Starting == {j \in Files(words) : j - 1 \notin Files(words)}
    <3>1. ValuesOf(words, slot) = {SubSeq(words, k, Len(words)) : k \in Starting}
      BY <2>5 DEF ValuesOf, FilesSlot
    <3>2. CASE n_positional = 1
      <4>1. /\ FilesSlot \in used
            /\ \E f \in Starting : values[FilesSlot] = SubSeq(words, f, Len(words))
        BY <2>3, <3>2 DEF Filed
      <4>2. PICK f \in Starting : values[FilesSlot] = SubSeq(words, f, Len(words))
        BY <4>1
      <4>3. ASSUME NEW x \in Starting, NEW y \in Starting, x < y PROVE FALSE
        <5>1. x \in Files(words) /\ y \in 1..Len(words) /\ x \in 1..Len(words)
          BY <2>2 DEF Files
        <5>2. y - 1 \in 1..Len(words) /\ y - 1 >= x
          BY <2>2, <4>3, <5>1
        <5>3. PICK j \in Command(words) + 1 .. x : words[j] \in Positional
          BY <5>1 DEF Files
        <5>4. /\ Command(words) \in 1 .. Len(words) + 1 /\ x > Command(words)
              /\ words[Command(words)] = "summarize"
          BY <2>1, <5>1, FirstIs DEF Files, Command
        <5>5. j \in Command(words) + 1 .. y - 1 /\ y - 1 > Command(words)
          BY <5>1, <5>2, <5>3, <5>4
        <5>6. y - 1 \in Files(words)
          BY <2>2, <5>2, <5>3, <5>4, <5>5 DEF Files
        <5> QED
          BY <4>3, <5>6
      <4>4. Starting \subseteq Nat
        BY <2>2 DEF Files
      <4>5. ASSUME NEW x \in Starting PROVE x = f
        BY <4>2, <4>3, <4>4
      <4> HIDE DEF Starting
      <4> QED
        BY <2>5, <3>1, <4>1, <4>2, <4>5
    <3>3. CASE n_positional # 1
      <4>1. FilesSlot \notin used /\ n_positional = 0
        BY <2>1, <2>3, <3>3, ParserIs DEF Filed
      <4>2. Files(words) = {}
        <5>1. SUFFICES ASSUME NEW x \in Files(words) PROVE FALSE
          OBVIOUS
        <5>2. /\ x \in 1..Len(words) /\ x > Command(words)
              /\ words[Command(words)] = "summarize"
              /\ \E j \in Command(words) + 1 .. x : words[j] \in Positional
          BY <2>2 DEF Files
        <5>3. PICK j \in Command(words) + 1 .. x : words[j] \in Positional
          BY <5>2
        <5>4. /\ Command(words) \in 1 .. Len(words) + 1
              /\ Command(words) <= Len(words) => words[Command(words)] \in Positional
          BY <2>1, FirstIs DEF Command
        <5>5. Command(words) \in 1..Len(words) /\ j \in Command(words) + 1 .. Len(words)
          BY <2>2, <5>2, <5>3, <5>4
        <5>6. parser # "ezcollect"
          BY <2>3, <5>4, <5>5 DEF Placed
        <5>7. parser = "summarize"
          BY <2>3, <5>2, <5>6 DEF Placed
        <5> QED
          BY <2>3, <4>1, <5>3, <5>5, <5>7 DEF Placed
      <4> QED
        BY <2>5, <3>1, <4>1, <4>2
    <3> QED
      BY <3>2, <3>3
  <2> QED
    BY <2>4, <2>5
<1> QED
  BY <1>1, LineInvariant, PTL

-----------------------------------------------------------------------------
(***************************************************************************)
(* What the parser leaves for the command: an argument that needs a value  *)
(* has one if it is used, and the parser is done when the command begins.  *)
(***************************************************************************)
NeedsValue(arg) == arg.min = 1 /\ arg.max > 0 /\ ~arg.has_default

Filled ==
  \A slot \in used : NeedsValue(Arg(slot[1], slot[2])) => ~(Len(values[slot]) < 1)

HasValue == TypeOK /\ Filled

\* What consume gives an argument that needs a value.
LEMMA ConsumeGives ==
  ASSUME NEW arg, NEW words, NeedsValue(arg), ~TooFew(arg, words)
  PROVE  ~(Len(Taken(arg, words)) < 1)
<1>1. ~(Len(words) < 1) /\ ~(Len(Offered(arg, words)) < 1)
  BY DEF TooFew, NeedsValue
<1> QED
  BY <1>1 DEF Taken, NeedsValue

LEMMA ConsumeStep ==
  ASSUME NEW a, NEW words, HasValue, TypeOK', Consume(a, words)
  PROVE  Filled'
<1> DEFINE here == <<parser, a>>
           taken == Taken(Arg(parser, a), words)
<1>1. CASE here \in used \/ TooFew(Arg(parser, a), words)
  <2>1. UNCHANGED <<used, values>>
    BY <1>1 DEF Consume
  <2> QED
    BY <2>1 DEF HasValue, Filled
<1>2. CASE here \notin used /\ ~TooFew(Arg(parser, a), words)
  <2>1. used' = used \cup {here} /\ values' = [values EXCEPT ![here] = taken]
    BY <1>2 DEF Consume
  <2>2. DOMAIN values = Slots /\ here \in Slots
    BY <2>1 DEF HasValue, TypeOK
  <2>3. here[1] = parser /\ here[2] = a
    OBVIOUS
  <2>4. NeedsValue(Arg(parser, a)) => ~(Len(taken) < 1)
    BY <1>2, ConsumeGives
  <2> HIDE DEF here, taken
  <2>5. ASSUME NEW slot \in used', NeedsValue(Arg(slot[1], slot[2]))
        PROVE  ~(Len(values'[slot]) < 1)
    <3>1. CASE slot = here
      BY <2>1, <2>2, <2>3, <2>4, <2>5, <3>1
    <3>2. CASE slot # here
      <4>1. slot \in used /\ values'[slot] = values[slot]
        BY <2>1, <2>5, <3>2
      <4> QED
        BY <2>5, <4>1 DEF HasValue, Filled
    <3> QED
      BY <3>1, <3>2
  <2> QED
    BY <2>5 DEF Filled
<1> QED
  BY <1>1, <1>2

\* No step of the parser leaves such an argument used and without a value.
LEMMA ParseStep ==
  ASSUME HasValue, Parse
  PROVE  HasValue' /\ status = "parsing"
<1>1. status = "parsing"
  BY DEF Parse, ReadSubcommand, RefuseExcess, ReadPositional, ReadOption, ReadLetters,
         ReadLetter, RefuseUnknown, EndOfLine, Excess, Turn
<1>2. TypeOK'
  BY TypeStep DEF HasValue
<1>3. CASE ReadPositional \/ ReadOption \/ ReadLetter
  <2>1. \E a, words : Consume(a, words)
    BY <1>3 DEF ReadPositional, ReadOption, ReadLetter
  <2>2. Filled'
    BY <1>2, <2>1, ConsumeStep
  <2> QED
    BY <1>1, <1>2, <2>2 DEF HasValue
<1>4. CASE ReadSubcommand \/ RefuseExcess \/ ReadLetters \/ RefuseUnknown \/ EndOfLine
  <2>1. UNCHANGED <<used, values>>
    BY <1>4 DEF ReadSubcommand, RefuseExcess, ReadLetters, RefuseUnknown, EndOfLine, Refuse
  <2>2. Filled'
    BY <2>1 DEF HasValue, Filled
  <2> QED
    BY <1>1, <1>2, <2>2 DEF HasValue
<1> QED
  BY <1>3, <1>4 DEF Parse

LEMMA HasValueKept == HasValue /\ UNCHANGED vars => HasValue'
BY DEF HasValue, TypeOK, Filled, vars

\* The filters and -e are such arguments.
LEMMA NeedValues ==
  ASSUME NEW option \in Filters \cup {"e"}
  PROVE  <<"record", option>> \in Slots /\ NeedsValue(Arg("record", option))
<1>1. \A names : NeedsValue(Argument(names)) /\ NeedsValue(OneOrMore(Argument(names)))
  BY OptionsAssumption DEF NeedsValue, Argument, OneOrMore, Nargs
<1>2. LET args == Parsers["record"].args
      IN /\ args["p"] = Argument({"-p", "--pid"})
         /\ args["pcomm"] = Argument({"--pcomm"})
         /\ args["pcomm_prefix"] = Argument({"--pcomm-prefix"})
         /\ args["t"] = Argument({"-t", "--tid"})
         /\ args["tcomm"] = Argument({"--tcomm"})
         /\ args["tcomm_prefix"] = Argument({"--tcomm-prefix"})
         /\ args["e"] = OneOrMore(Argument({"-e"}))
  BY DEF Parsers
<1>3. NeedsValue(Parsers["record"].args[option])
  BY <1>1, <1>2 DEF Filters
<1>4. option \in DOMAIN Parsers["record"].args /\ "record" \in DOMAIN Parsers
  BY ParsersAre DEF Filters
<1> QED
  BY <1>3, <1>4, SlotsAre DEF Arg

LEMMA GivenValue ==
  ASSUME HasValue, NEW option \in Filters \cup {"e"}, Given(option)
  PROVE  /\ values[<<"record", option>>] \in Seq(Words)
         /\ ~(Len(values[<<"record", option>>]) < 1)
         /\ Value(option) \in Words /\ Text[Value(option)] \in Seq(STRING)
<1> DEFINE slot == <<"record", option>>
<1>1. slot \in Slots /\ slot \in used /\ NeedsValue(Arg(slot[1], slot[2]))
  BY NeedValues DEF Given
<1> HIDE DEF slot
<1>2. values[slot] \in Seq(Words) /\ ~(Len(values[slot]) < 1)
  BY <1>1 DEF HasValue, TypeOK, Filled
<1>3. Head(values[slot]) \in Words
  <2>1. Len(values[slot]) \in Nat
    BY <1>2
  <2>2. Len(values[slot]) # Len(<<>>)
    BY <1>2, <2>1
  <2>3. values[slot] # <<>>
    BY <2>2, Zenon
  <2> QED
    BY <1>2, <2>3
<1> QED
  BY <1>2, <1>3, RecordCmdAssumption DEF Value, slot

-----------------------------------------------------------------------------
(***************************************************************************)
(* The filters.                                                            *)
(***************************************************************************)
LEMMA ListIs ==
  ASSUME HasValue, NEW option \in Filters, Given(option)
  PROVE  /\ List(option) \in Seq(Seq(STRING))
         /\ ToSet(List(option)) =
              Listed(Text[Value(option)], ",")
                \cup {entry \in {<<>>} : Stray(Text[Value(option)], ",")}
<1>1. Text[Value(option)] \in Seq(STRING)
  BY GivenValue
<1> QED
  BY <1>1, TokensAre DEF List

\* The ids read: those of the entries that are numbers, and arbitrary ones for
\* the other entries.
LEMMA IdsFound ==
  ASSUME HasValue, NEW option \in Filters, Given(option), NEW found \in IdsRead(option)
  PROVE  LET text == Text[Value(option)]
             ids == {PidOf[entry] : entry \in Listed(text, ",") \cap DOMAIN PidOf}
         IN /\ found \subseteq Pids
            /\ ids \subseteq found
            /\ Listed(text, ",") \subseteq DOMAIN PidOf /\ ~Stray(text, ",") => found = ids
<1> DEFINE text == Text[Value(option)]
           list == List(option)
           listed == Listed(text, ",")
           ids == {PidOf[entry] : entry \in listed \cap DOMAIN PidOf}
<1>1. /\ list \in Seq(Seq(STRING))
      /\ ToSet(list) = listed \cup {entry \in {<<>>} : Stray(text, ",")}
  BY ListIs
<1>2. PICK read \in [DOMAIN list -> Pids] :
        /\ found = {read[k] : k \in DOMAIN read}
        /\ \A k \in DOMAIN read : list[k] \in DOMAIN PidOf => read[k] = PidOf[list[k]]
  BY DEF IdsRead
<1> HIDE DEF text, list, listed
<1>3. found \subseteq Pids
  BY <1>2
<1>4. \A entry \in listed : \E k \in DOMAIN list : list[k] = entry
  BY <1>1 DEF ToSet
<1>5. ids \subseteq found
  <2>1. SUFFICES ASSUME NEW entry \in listed, entry \in DOMAIN PidOf
                 PROVE  PidOf[entry] \in found
    OBVIOUS
  <2>2. PICK k \in DOMAIN list : list[k] = entry
    BY <1>4, <2>1
  <2> QED
    BY <1>2, <2>1, <2>2
<1>6. ASSUME listed \subseteq DOMAIN PidOf, ~Stray(text, ",")
      PROVE  found \subseteq ids
  <2>1. SUFFICES ASSUME NEW k \in DOMAIN list PROVE read[k] \in ids
    BY <1>2
  <2>2. list[k] \in ToSet(list)
    BY DEF ToSet
  <2>3. list[k] \in listed
    BY <1>1, <1>6, <2>2
  <2> QED
    BY <1>2, <1>6, <2>3
<1> QED
  BY <1>3, <1>5, <1>6 DEF text, listed

FiltersAsGiven ==
  \A option \in Filters :
    IF ~Given(option) THEN match[option] = {}
    ELSE IF option \in {"p", "t"} THEN IdsAsGiven(option) ELSE NamesAsGiven(option)

-----------------------------------------------------------------------------
(***************************************************************************)
(* The metrics: the places, among the first n that -e names, of the        *)
(* callbacks f of a class.                                                 *)
(***************************************************************************)
NamedOf(class, n) == {k \in 1..n : Class(MetricNames[k]) = <<class>>}

Places(f, class, n) ==
  {place \in [DOMAIN f -> NamedOf(class, n)] :
     /\ NamedOf(class, n) \subseteq Range(place)
     /\ \A j, k \in DOMAIN place : j < k => place[j] < place[k]
     /\ \A k \in DOMAIN place : Plugin(MetricNames[place[k]]) = <<f[k]>>}

LEMMA NoPlaceYet ==
  ASSUME NEW f, DOMAIN f = {}, NEW class
  PROVE  Places(f, class, 0) # {}
<1> DEFINE place == [k \in {} |-> 0]
<1>1. NamedOf(class, 0) = {}
  BY DEF NamedOf
<1>2. place \in Places(f, class, 0)
  BY <1>1 DEF Places
<1> QED
  BY <1>2

LEMMA NoPlaceMore ==
  ASSUME NEW f, NEW class, NEW n \in Nat, Class(MetricNames[n + 1]) # <<class>>
  PROVE  Places(f, class, n + 1) = Places(f, class, n)
<1>1. NamedOf(class, n + 1) = NamedOf(class, n)
  <2>1. \A k : k \in 1..n + 1 <=> k \in 1..n \/ k = n + 1
    OBVIOUS
  <2> QED
    BY <2>1, Zenon DEF NamedOf
<1> QED
  BY <1>1 DEF Places

LEMMA OnePlaceMore ==
  ASSUME NEW S, NEW f \in Seq(S), NEW class, NEW plugin \in S, NEW n \in Nat,
         Class(MetricNames[n + 1]) = <<class>>, Plugin(MetricNames[n + 1]) = <<plugin>>,
         Places(f, class, n) # {}
  PROVE  Places(Append(f, plugin), class, n + 1) # {}
<1> DEFINE m == Len(f)
           g == Append(f, plugin)
<1>1. /\ m \in Nat /\ DOMAIN f = 1..m /\ DOMAIN g = 1..m + 1
      /\ g[m + 1] = plugin /\ \A k \in 1..m : g[k] = f[k]
  OBVIOUS
<1> HIDE DEF m, g
<1>2. PICK old : old \in Places(f, class, n)
  OBVIOUS
<1>3. /\ old \in [1..m -> NamedOf(class, n)] /\ NamedOf(class, n) \subseteq Range(old)
      /\ \A j, k \in 1..m : j < k => old[j] < old[k]
      /\ \A k \in 1..m : Plugin(MetricNames[old[k]]) = <<f[k]>>
  BY <1>1, <1>2 DEF Places
<1>4. /\ NamedOf(class, n) \subseteq 1..n
      /\ NamedOf(class, n + 1) = NamedOf(class, n) \cup {n + 1}
  <2>1. \A k : k \in 1..n + 1 <=> k \in 1..n \/ k = n + 1
    OBVIOUS
  <2> QED
    BY <2>1, Zenon DEF NamedOf
<1> DEFINE new == [k \in 1..m + 1 |-> IF k = m + 1 THEN n + 1 ELSE old[k]]
<1>5. /\ DOMAIN new = 1..m + 1 /\ new[m + 1] = n + 1
      /\ \A k \in 1..m : new[k] = old[k]
  BY <1>1
<1>6. \A k \in 1..m + 1 : k \in 1..m \/ k = m + 1
  BY <1>1
<1>7. new \in [1..m + 1 -> NamedOf(class, n + 1)]
  BY <1>3, <1>4, <1>6
<1> HIDE DEF new
<1>8. \A k \in 1..m : old[k] \in 1..n
  BY <1>3, <1>4
<1>9. NamedOf(class, n + 1) \subseteq Range(new)
  <2>1. SUFFICES ASSUME NEW k \in NamedOf(class, n + 1) PROVE \E j \in 1..m + 1 : new[j] = k
    BY <1>5 DEF Range
  <2>2. CASE k = n + 1
    <3>1. m + 1 \in 1..m + 1
      BY <1>1
    <3> QED
      BY <1>5, <2>2, <3>1
  <2>3. CASE k \in NamedOf(class, n)
    <3>1. PICK j \in 1..m : old[j] = k
      BY <1>3, <2>3 DEF Range
    <3>2. j \in 1..m + 1
      BY <1>1
    <3> QED
      BY <1>5, <3>1, <3>2
  <2> QED
    BY <1>4, <2>1, <2>2, <2>3
<1>10. ASSUME NEW j \in 1..m + 1, NEW k \in 1..m + 1, j < k PROVE new[j] < new[k]
  <2>1. j \in 1..m
    BY <1>1, <1>10
  <2>2. CASE k = m + 1
    <3>1. old[j] \in 1..n
      BY <1>8, <2>1
    <3>2. old[j] < n + 1
      BY <3>1
    <3> QED
      BY <1>5, <2>1, <2>2, <3>2
  <2>3. CASE k \in 1..m
    BY <1>3, <1>5, <1>10, <2>1, <2>3
  <2> QED
    BY <1>6, <2>2, <2>3
<1>11. ASSUME NEW k \in 1..m + 1 PROVE Plugin(MetricNames[new[k]]) = <<g[k]>>
  BY <1>1, <1>3, <1>5, <1>6
<1>12. new \in Places(g, class, n + 1)
  BY <1>1, <1>5, <1>7, <1>9, <1>10, <1>11, Zenon DEF Places
<1> QED
  BY <1>12 DEF g

-----------------------------------------------------------------------------
(***************************************************************************)
(* The period.                                                             *)
(***************************************************************************)
\* A division between its neighbours.
LEMMA Quotient ==
  ASSUME NEW r \in Nat, NEW d \in Nat \ {0}
  PROVE  /\ r \div d \in Nat
         /\ (r \div d) * d <= r
         /\ ((r \div d) + 1) * d > r
<1>1. r = d * (r \div d) + (r % d) /\ r % d \in 0 .. d - 1 /\ r \div d \in Nat
  BY SMT
<1> QED
  BY <1>1, SMT

\* The number of ticks between two refreshes fills the time and no more.
LEMMA TicksFill ==
  ASSUME NEW ms \in Nat \ {0}
  PROVE  /\ TicksToRefresh(ms) \in Nat \ {0}
         /\ TicksToRefresh(ms) * ms <= RefreshIntervalMs \/ TicksToRefresh(ms) = 1
         /\ (TicksToRefresh(ms) + 1) * ms > RefreshIntervalMs
<1> DEFINE q == RefreshIntervalMs \div ms
<1>1. RefreshIntervalMs \in Nat
  BY RecordCmdAssumption
<1>2. q \in Nat /\ q * ms <= RefreshIntervalMs /\ (q + 1) * ms > RefreshIntervalMs
  BY <1>1, Quotient
<1>3. TicksToRefresh(ms) = IF q = 0 THEN 1 ELSE q
  BY DEF TicksToRefresh, AtLeastOne
<1> HIDE DEF q
<1>4. CASE q = 0
  <2>1. TicksToRefresh(ms) = 1 /\ ms > RefreshIntervalMs
    BY <1>1, <1>2, <1>3, <1>4
  <2> QED
    BY <1>1, <2>1
<1>5. CASE q # 0
  <2>1. TicksToRefresh(ms) = q
    BY <1>3, <1>5
  <2> QED
    BY <1>2, <1>5, <2>1
<1> QED
  BY <1>4, <1>5

\* A number that fits is left as it is.
LEMMA SignedFits ==
  ASSUME NEW n \in Nat, 2 * n < WordMod
  PROVE  Signed(n) = n
<1>1. WordMod \in Nat \ {0, 1}
  BY RecordCmdAssumption
<1>2. n \in 0 .. WordMod - 1
  BY <1>1
<1>3. n % WordMod = n
  BY <1>1, <1>2, SMT
<1> QED
  BY <1>3 DEF Signed

LEMMA NanosecondsFit ==
  ASSUME NEW ms \in Nat \ {0}, 2 * ms * NsPerMs < WordMod
  PROVE  Nanoseconds(ms) = ms * NsPerMs /\ ms * NsPerMs > 0
<1>1. WordMod \in Nat \ {0, 1} /\ NsPerMs \in Nat \ {0}
  BY RecordCmdAssumption
<1>2. ms * NsPerMs \in Nat /\ ms <= ms * NsPerMs /\ 2 * ms * NsPerMs = 2 * (ms * NsPerMs)
  BY <1>1, SMT
<1>3. 2 * ms < WordMod /\ 2 * (ms * NsPerMs) < WordMod
  BY <1>1, <1>2
<1>4. Signed(ms) = ms
  BY <1>3, SignedFits
<1>5. Signed(ms * NsPerMs) = ms * NsPerMs
  BY <1>2, <1>3, SignedFits
<1> QED
  BY <1>2, <1>4, <1>5 DEF Nanoseconds

-----------------------------------------------------------------------------
(***************************************************************************)
(* The inductive invariant.                                                *)
(***************************************************************************)
Parsed == HasValue /\ (pc # "main" => status # "parsing")

\* What the loop over the metrics has done so far.
Selecting ==
  /\ pc \in {"metrics", "running"} => Given("e")
  /\ config.enable_process <=> Counts.process + Counts.thread > 0
  /\ config.enable_thread <=> Counts.thread > 0
  /\ Counts.system + Counts.process + Counts.thread = n_read
  /\ \A class \in DOMAIN Registered : \A k \in DOMAIN funcs[class] : Ready(funcs[class][k])
  /\ pc = "running" => n_read = Len(MetricNames)

\* What has been made of the options so far.
Reading ==
  /\ pc \in {"main", "options"} => n_read = 0 /\ funcs = [class \in DOMAIN Registered |-> <<>>]
  /\ pc \in {"metrics", "running"} =>
       /\ FiltersAsGiven
       /\ \A class \in DOMAIN Registered : Places(funcs[class], class, n_read) # {}

IInv == CmdTypeOK /\ Parsed /\ Selecting /\ PeriodAsAsked /\ Reading

-----------------------------------------------------------------------------
(***************************************************************************)
(* The command.                                                            *)
(***************************************************************************)
LEMMA InitIInv == CmdInit => IInv
<1> SUFFICES ASSUME CmdInit PROVE IInv
  OBVIOUS
<1>1. /\ pc = "main" /\ capable \in BOOLEAN /\ n_read = 0
      /\ match = [option \in Filters |-> {}]
      /\ config = [enable_process |-> FALSE, enable_thread |-> FALSE]
      /\ funcs = [class \in DOMAIN Registered |-> <<>>]
      /\ tick_interval_ms = 0 /\ n_ticks_to_refresh = 1 /\ interval = 0
      /\ used = {} /\ values = [slot \in Slots |-> <<>>]
  BY DEF CmdInit, Init
<1>2. funcs.system = <<>> /\ funcs.process = <<>> /\ funcs.thread = <<>>
  BY <1>1 DEF Registered
<1>3. CmdTypeOK
  <2>1. "p" \in Filters /\ "t" \in Filters
    BY DEF Filters
  <2>2. tick_interval_ms \in 0 .. WordMod - 1
    BY <1>1, RecordCmdAssumption
  <2>3. \A class \in DOMAIN Registered : funcs[class] \in Seq(Registered[class])
    BY <1>1
  <2> QED
    BY <1>1, <2>1, <2>2, <2>3 DEF CmdTypeOK, Control
<1>4. Parsed
  <2>1. TypeOK
    BY InitTypes DEF CmdInit
  <2> QED
    BY <1>1, <2>1 DEF Parsed, HasValue, Filled
<1>5. Selecting
  <2>1. Counts.system = 0 /\ Counts.process = 0 /\ Counts.thread = 0
    BY <1>2 DEF Counts
  <2>2. \A class \in DOMAIN Registered : DOMAIN funcs[class] = {}
    BY <1>1
  <2> QED
    BY <1>1, <2>1, <2>2 DEF Selecting
<1>6. PeriodAsAsked
  BY <1>1 DEF PeriodAsAsked
<1>7. Reading
  BY <1>1 DEF Reading
<1> QED
  BY <1>3, <1>4, <1>5, <1>6, <1>7 DEF IInv

\* A step that ends the command with nothing recorded.
LEMMA ReturnStep ==
  ASSUME IInv, NEW exit \in Control \ {"main", "metrics", "running"}, Return(exit),
         exit = "options" => pc = "main",
         UNCHANGED vars, status # "parsing"
  PROVE  IInv'
<1>1. pc' = exit /\ UNCHANGED <<capable, match, config, funcs, n_read, tick_interval_ms,
                               n_ticks_to_refresh, interval, used, values, status>>
  BY DEF Return, opts, vars
<1>2. CmdTypeOK'
  BY <1>1 DEF IInv, CmdTypeOK
<1>3. Parsed'
  BY <1>1, HasValueKept DEF IInv, Parsed
<1>4. Selecting'
  BY <1>1 DEF IInv, Selecting, Counts, Ready
<1>5. PeriodAsAsked'
  BY <1>1 DEF PeriodAsAsked
<1>6. Reading'
  BY <1>1 DEF IInv, Reading
<1> QED
  BY <1>2, <1>3, <1>4, <1>5, <1>6 DEF IInv

LEMMA ReadOptionsStep ==
  ASSUME IInv, ReadOptions, UNCHANGED vars
  PROVE  IInv'
<1>1. /\ pc = "options" /\ pc' = (IF Given("e") THEN "metrics" ELSE "exit1")
      /\ tick_interval_ms' = Stoul[IntervalWord] /\ IntervalWord \in DOMAIN Stoul
      /\ UNCHANGED <<capable, config, funcs, n_read, n_ticks_to_refresh, interval,
                     used, values, status>>
  BY DEF ReadOptions, vars
<1>2. PICK pids \in (IF Given("p") THEN IdsRead("p") ELSE {{}}),
           tids \in (IF Given("t") THEN IdsRead("t") ELSE {{}}) :
        match' = [option \in Filters |->
                    CASE option = "p" -> pids
                      [] option = "t" -> tids
                      [] OTHER -> IF Given(option) THEN ToSet(List(option)) ELSE {}]
  BY DEF ReadOptions
<1>3. HasValue
  BY DEF IInv, Parsed
<1>4. /\ DOMAIN match' = Filters /\ match'["p"] = pids /\ match'["t"] = tids
      /\ \A option \in Filters \ {"p", "t"} :
           match'[option] = IF Given(option) THEN ToSet(List(option)) ELSE {}
  BY <1>2 DEF Filters
<1>5. \A option \in {"p", "t"} :
        IF Given(option) THEN match'[option] \in IdsRead(option) ELSE match'[option] = {}
  <2>1. IF Given("p") THEN pids \in IdsRead("p") ELSE pids = {}
    BY <1>2
  <2>2. IF Given("t") THEN tids \in IdsRead("t") ELSE tids = {}
    BY <1>2
  <2> QED
    BY <1>4, <2>1, <2>2
<1>6. \A option \in {"p", "t"} :
        /\ match'[option] \subseteq Pids
        /\ Given(option) => IdsAsGiven(option)'
  <2>1. SUFFICES ASSUME NEW option \in {"p", "t"}
                 PROVE  /\ match'[option] \subseteq Pids
                        /\ Given(option) => IdsAsGiven(option)'
    OBVIOUS
  <2>2. CASE ~Given(option)
    BY <1>5, <2>2
  <2>3. CASE Given(option)
    <3>1. option \in Filters /\ match'[option] \in IdsRead(option)
      BY <1>5, <2>3 DEF Filters
    <3> DEFINE found == match'[option]
               text == Text[Value(option)]
               ids == {PidOf[entry] : entry \in Listed(text, ",") \cap DOMAIN PidOf}
    <3>2. /\ found \subseteq Pids
          /\ ids \subseteq found
          /\ Listed(text, ",") \subseteq DOMAIN PidOf /\ ~Stray(text, ",") => found = ids
      <4> HIDE DEF found
      <4>1. found \in IdsRead(option)
        BY <3>1 DEF found
      <4> QED
        BY <1>3, <2>3, <3>1, <4>1, IdsFound
    <3>3. Value(option)' = Value(option)
      BY <1>1 DEF Value
    <3>4. IdsAsGiven(option)'
      BY <3>2, <3>3 DEF IdsAsGiven
    <3> QED
      BY <3>2, <3>4
  <2> QED
    BY <2>2, <2>3
<1>7. \A option \in Filters \ {"p", "t"} : Given(option) => NamesAsGiven(option)'
  <2>1. SUFFICES ASSUME NEW option \in Filters \ {"p", "t"}, Given(option)
                 PROVE  NamesAsGiven(option)'
    OBVIOUS
  <2>2. match'[option] = ToSet(List(option))
    BY <1>4, <2>1
  <2>3. ToSet(List(option)) =
          Listed(Text[Value(option)], ",")
            \cup {entry \in {<<>>} : Stray(Text[Value(option)], ",")}
    BY <1>3, <2>1, ListIs
  <2>4. Value(option)' = Value(option)
    BY <1>1 DEF Value
  <2> QED
    BY <2>2, <2>3, <2>4 DEF NamesAsGiven
<1>8. tick_interval_ms' \in 0 .. WordMod - 1
  BY <1>1, RecordCmdAssumption
<1>9. CmdTypeOK'
  BY <1>1, <1>4, <1>6, <1>8 DEF IInv, CmdTypeOK, Control
<1>10. Parsed'
  BY <1>1, HasValueKept DEF IInv, Parsed
<1>11. Selecting'
  BY <1>1 DEF IInv, Selecting, Counts, Ready, Given
<1>12. PeriodAsAsked'
  BY <1>1 DEF PeriodAsAsked
<1>13. Reading'
  <2>1. n_read' = 0 /\ funcs' = [class \in DOMAIN Registered |-> <<>>]
    BY <1>1 DEF IInv, Reading
  <2>2. FiltersAsGiven'
    <3>1. SUFFICES ASSUME NEW option \in Filters
                   PROVE  (IF ~Given(option) THEN match[option] = {}
                           ELSE IF option \in {"p", "t"} THEN IdsAsGiven(option)
                                ELSE NamesAsGiven(option))'
      BY DEF FiltersAsGiven
    <3>2. Given(option)' <=> Given(option)
      BY <1>1 DEF Given
    <3> QED
      BY <1>4, <1>5, <1>6, <1>7, <3>2
  <2>3. ASSUME NEW class \in DOMAIN Registered PROVE Places(funcs[class], class, n_read)' # {}
    <3>1. DOMAIN funcs'[class] = {}
      BY <2>1
    <3>2. Places(funcs'[class], class, 0) # {}
      BY <3>1, NoPlaceYet
    <3>3. Places(funcs[class], class, n_read)' = Places(funcs'[class], class, 0)
      BY <1>1, <2>1 DEF Places, NamedOf, MetricNames
    <3> QED
      BY <3>2, <3>3
  <2>4. pc' \in {"metrics", "exit1"}
    BY <1>1
  <2> QED
    BY <2>2, <2>3, <2>4 DEF Reading
<1> QED
  BY <1>9, <1>10, <1>11, <1>12, <1>13 DEF IInv

LEMMA SelectMetricStep ==
  ASSUME IInv, SelectMetric, UNCHANGED vars
  PROVE  IInv'
<1>1. /\ pc = "metrics" /\ n_read' = n_read + 1
      /\ UNCHANGED <<pc, capable, match, tick_interval_ms, n_ticks_to_refresh, interval,
                     used, values, status>>
  BY DEF SelectMetric, vars
<1>2. PICK class \in DOMAIN Registered : \E plugin \in Registered[class] :
        /\ Names(MetricNames[n_read + 1], class, plugin)
        /\ Ready(plugin)
        /\ config' = Enable(class)
        /\ funcs' = [funcs EXCEPT ![class] = Append(funcs[class], plugin)]
  BY DEF SelectMetric
<1>3. PICK plugin \in Registered[class] :
        /\ Names(MetricNames[n_read + 1], class, plugin)
        /\ Ready(plugin)
        /\ config' = Enable(class)
        /\ funcs' = [funcs EXCEPT ![class] = Append(funcs[class], plugin)]
  BY <1>2
<1>4. /\ DOMAIN funcs = {"system", "process", "thread"}
      /\ DOMAIN Registered = {"system", "process", "thread"}
      /\ n_read \in Nat
      /\ \A c \in DOMAIN Registered : funcs[c] \in Seq(Registered[c])
      /\ config \in [enable_process : BOOLEAN, enable_thread : BOOLEAN]
  BY DEF IInv, CmdTypeOK, Registered
<1>5. \A c \in DOMAIN Registered :
        funcs'[c] = IF c = class THEN Append(funcs[c], plugin) ELSE funcs[c]
  BY <1>3, <1>4
<1>6. \A c \in DOMAIN Registered :
        /\ Len(funcs[c]) \in Nat
        /\ Len(funcs'[c]) = IF c = class THEN Len(funcs[c]) + 1 ELSE Len(funcs[c])
  <2>1. SUFFICES ASSUME NEW c \in DOMAIN Registered
                 PROVE  /\ Len(funcs[c]) \in Nat
                        /\ Len(funcs'[c]) =
                             IF c = class THEN Len(funcs[c]) + 1 ELSE Len(funcs[c])
    OBVIOUS
  <2>2. funcs[c] \in Seq(Registered[c]) /\ (c = class => plugin \in Registered[c])
    BY <1>3, <1>4
  <2>3. funcs'[c] = IF c = class THEN Append(funcs[c], plugin) ELSE funcs[c]
    BY <1>5
  <2> QED
    BY <2>2, <2>3
<1>7. CmdTypeOK'
  <2>1. \A c \in DOMAIN Registered : funcs'[c] \in Seq(Registered[c])
    <3> SUFFICES ASSUME NEW c \in DOMAIN Registered PROVE funcs'[c] \in Seq(Registered[c])
      OBVIOUS
    <3>1. funcs[c] \in Seq(Registered[c])
      BY <1>4
    <3>2. CASE c = class
      <4>1. funcs'[c] = Append(funcs[c], plugin) /\ plugin \in Registered[c]
        BY <1>3, <1>5, <3>2
      <4> QED
        BY <3>1, <4>1
    <3>3. CASE c # class
      BY <1>5, <3>1, <3>3
    <3> QED
      BY <3>2, <3>3
  <2>2. DOMAIN funcs' = DOMAIN Registered
    BY <1>3, <1>4
  <2>3. config' \in [enable_process : BOOLEAN, enable_thread : BOOLEAN]
    BY <1>3, <1>4 DEF Enable
  <2> QED
    BY <1>1, <1>4, <2>1, <2>2, <2>3 DEF IInv, CmdTypeOK
<1>8. Parsed'
  BY <1>1, HasValueKept DEF IInv, Parsed
<1>9. Selecting'
  <2>1. /\ Counts.system \in Nat /\ Counts.process \in Nat /\ Counts.thread \in Nat
        /\ Counts'.system = IF class = "system" THEN Counts.system + 1 ELSE Counts.system
        /\ Counts'.process = IF class = "process" THEN Counts.process + 1 ELSE Counts.process
        /\ Counts'.thread = IF class = "thread" THEN Counts.thread + 1 ELSE Counts.thread
    BY <1>4, <1>6 DEF Counts
  <2>2. /\ Counts.system + Counts.process + Counts.thread = n_read
        /\ config.enable_process <=> Counts.process + Counts.thread > 0
        /\ config.enable_thread <=> Counts.thread > 0
    BY DEF IInv, Selecting
  <2>3. class = "system" \/ class = "process" \/ class = "thread"
    BY <1>4
  <2>4. /\ config'.enable_process <=> config.enable_process \/ class = "process" \/ class = "thread"
        /\ config'.enable_thread <=> config.enable_thread \/ class = "thread"
    BY <1>3 DEF Enable
  <2>5. Counts'.system + Counts'.process + Counts'.thread = n_read'
    <3> DEFINE total == Counts.system + Counts.process + Counts.thread
    <3>1. n_read' = total + 1
      BY <1>1, <2>2
    <3>2. CASE class = "system"
      <4>1. /\ Counts'.system = Counts.system + 1
            /\ Counts'.process = Counts.process /\ Counts'.thread = Counts.thread
        BY <2>1, <3>2
      <4> QED
        BY <2>1, <3>1, <4>1
    <3>3. CASE class = "process"
      <4>1. /\ Counts'.process = Counts.process + 1
            /\ Counts'.system = Counts.system /\ Counts'.thread = Counts.thread
        BY <2>1, <3>3
      <4> QED
        BY <2>1, <3>1, <4>1
    <3>4. CASE class = "thread"
      <4>1. /\ Counts'.thread = Counts.thread + 1
            /\ Counts'.system = Counts.system /\ Counts'.process = Counts.process
        BY <2>1, <3>4
      <4> QED
        BY <2>1, <3>1, <4>1
    <3> QED
      BY <2>3, <3>2, <3>3, <3>4
  <2>6. config'.enable_process <=> Counts'.process + Counts'.thread > 0
    BY <2>1, <2>2, <2>3, <2>4
  <2>7. config'.enable_thread <=> Counts'.thread > 0
    BY <2>1, <2>2, <2>3, <2>4
  <2>8. \A c \in DOMAIN Registered : \A k \in DOMAIN funcs'[c] : Ready(funcs'[c][k])
    <3> SUFFICES ASSUME NEW c \in DOMAIN Registered, NEW k \in DOMAIN funcs'[c]
                 PROVE  Ready(funcs'[c][k])
      OBVIOUS
    <3>1. \A j \in DOMAIN funcs[c] : Ready(funcs[c][j])
      BY DEF IInv, Selecting
    <3>2. CASE c = class
      BY <1>3, <1>4, <1>5, <3>1, <3>2
    <3>3. CASE c # class
      BY <1>5, <3>1, <3>3
    <3> QED
      BY <3>2, <3>3
  <2> QED
    BY <1>1, <2>5, <2>6, <2>7, <2>8 DEF IInv, Selecting, Ready, Given
<1>10. PeriodAsAsked'
  BY <1>1 DEF PeriodAsAsked
<1>11. Reading'
  <2>1. FiltersAsGiven'
    BY <1>1 DEF IInv, Reading, FiltersAsGiven, Given, IdsAsGiven, NamesAsGiven, Value
  <2>2. ASSUME NEW c \in DOMAIN Registered PROVE Places(funcs[c], c, n_read)' # {}
    <3>1. Places(funcs[c], c, n_read)' = Places(funcs'[c], c, n_read + 1)
      BY <1>1 DEF Places, NamedOf, MetricNames
    <3>2. Places(funcs[c], c, n_read) # {}
      BY <1>1 DEF IInv, Reading
    <3>3. /\ Class(MetricNames[n_read + 1]) = <<class>>
          /\ Plugin(MetricNames[n_read + 1]) = <<plugin>>
      BY <1>3 DEF Names
    <3>4. CASE c = class
      <4>1. funcs'[c] = Append(funcs[c], plugin) /\ funcs[c] \in Seq(Registered[c])
        BY <1>4, <1>5, <3>4
      <4>2. plugin \in Registered[c] /\ n_read \in Nat
        BY <1>3, <1>4, <3>4
      <4>3. /\ Class(MetricNames[n_read + 1]) = <<c>>
            /\ Plugin(MetricNames[n_read + 1]) = <<plugin>>
        BY <3>3, <3>4
      <4>4. Places(Append(funcs[c], plugin), c, n_read + 1) # {}
        BY <3>2, <4>1, <4>2, <4>3, OnePlaceMore
      <4> QED
        BY <3>1, <4>1, <4>4
    <3>5. CASE c # class
      <4>1. Class(MetricNames[n_read + 1]) # <<c>>
        BY <3>3, <3>5
      <4>2. Places(funcs[c], c, n_read + 1) = Places(funcs[c], c, n_read)
        BY <1>4, <4>1, NoPlaceMore
      <4> QED
        BY <1>5, <3>1, <3>2, <3>5, <4>2
    <3> QED
      BY <3>4, <3>5
  <2> QED
    BY <1>1, <2>1, <2>2 DEF Reading
<1> QED
  BY <1>7, <1>8, <1>9, <1>10, <1>11 DEF IInv

LEMMA StartRecordingStep ==
  ASSUME IInv, StartRecording, UNCHANGED vars
  PROVE  IInv'
<1> DEFINE ms == AtLeastOne(tick_interval_ms)
<1>1. /\ pc = "metrics" /\ pc' = "running" /\ n_read = Len(MetricNames)
      /\ tick_interval_ms' = ms
      /\ n_ticks_to_refresh' = TicksToRefresh(ms)
      /\ interval' = Nanoseconds(ms)
      /\ UNCHANGED <<capable, match, config, funcs, n_read, used, values, status>>
  BY DEF StartRecording, vars
<1>2. ms \in 1 .. WordMod - 1
  BY RecordCmdAssumption DEF IInv, CmdTypeOK, AtLeastOne
<1> HIDE DEF ms
<1>3. /\ TicksToRefresh(ms) \in Nat \ {0}
      /\ TicksToRefresh(ms) * ms <= RefreshIntervalMs \/ TicksToRefresh(ms) = 1
      /\ (TicksToRefresh(ms) + 1) * ms > RefreshIntervalMs
  BY <1>2, TicksFill
<1>4. Nanoseconds(ms) \in Int
  <2>1. \A n \in Int : Signed(n) \in Int
    BY RecordCmdAssumption DEF Signed
  <2>2. ms \in Int /\ NsPerMs \in Int
    BY <1>2, RecordCmdAssumption
  <2>3. Signed(ms) * NsPerMs \in Int
    BY <2>1, <2>2
  <2> QED
    BY <2>1, <2>3 DEF Nanoseconds
<1>5. CmdTypeOK'
  BY <1>1, <1>2, <1>3, <1>4 DEF IInv, CmdTypeOK, Control
<1>6. Parsed'
  BY <1>1, HasValueKept DEF IInv, Parsed
<1>7. Selecting'
  BY <1>1 DEF IInv, Selecting, Counts, Ready, Given, MetricNames
<1>8. PeriodAsAsked'
  BY <1>1, <1>2, <1>3, NanosecondsFit DEF PeriodAsAsked
<1>9. Reading'
  <2>1. FiltersAsGiven'
    BY <1>1 DEF IInv, Reading, FiltersAsGiven, Given, IdsAsGiven, NamesAsGiven, Value
  <2>2. \A c \in DOMAIN Registered : Places(funcs[c], c, n_read)' # {}
    BY <1>1 DEF IInv, Reading, Places, NamedOf, MetricNames
  <2> QED
    BY <1>1, <2>1, <2>2 DEF Reading
<1> QED
  BY <1>5, <1>6, <1>7, <1>8, <1>9 DEF IInv

LEMMA NextIInv == IInv /\ [CmdNext]_<<vars, cmdVars>> => IInv'
<1> SUFFICES ASSUME IInv, [CmdNext]_<<vars, cmdVars>> PROVE IInv'
  OBVIOUS
<1>1. CASE Parse /\ UNCHANGED cmdVars
  <2>1. HasValue' /\ status = "parsing"
    BY <1>1, ParseStep DEF IInv, Parsed
  <2>2. UNCHANGED <<pc, capable, match, config, funcs, n_read, tick_interval_ms,
                    n_ticks_to_refresh, interval>>
    BY <1>1 DEF cmdVars, opts
  <2>3. pc = "main"
    BY <2>1 DEF IInv, Parsed
  <2>4. CmdTypeOK'
    BY <2>2 DEF IInv, CmdTypeOK
  <2>5. Parsed'
    BY <2>1, <2>2, <2>3 DEF Parsed
  <2>6. Selecting'
    BY <2>2, <2>3 DEF IInv, Selecting, Counts, Ready
  <2>7. PeriodAsAsked'
    BY <2>2, <2>3 DEF PeriodAsAsked
  <2>8. Reading'
    BY <2>2, <2>3 DEF IInv, Reading
  <2> QED
    BY <2>4, <2>5, <2>6, <2>7, <2>8 DEF IInv
<1>2. CASE Handle /\ UNCHANGED vars
  <2>1. CASE Dispatch
    <3>1. status # "parsing" /\ pc = "main"
      BY <2>1 DEF Dispatch
    <3>2. \E exit \in {"exit0", "exit1", "summarizing", "options"} : Return(exit)
      BY <2>1 DEF Dispatch
    <3>3. {"exit0", "exit1", "summarizing", "options"}
            \subseteq Control \ {"main", "metrics", "running"}
      BY DEF Control
    <3> QED
      BY <1>2, <3>1, <3>2, <3>3, ReturnStep
  <2>2. CASE BadInterval \/ BadMetric
    <3>1. pc # "main" /\ (Return("terminated") \/ Return("exit1"))
      BY <2>2 DEF BadInterval, BadMetric
    <3>2. status # "parsing"
      BY <3>1 DEF IInv, Parsed
    <3>3. {"terminated", "exit1"} \subseteq Control \ {"main", "metrics", "running"}
      BY DEF Control
    <3> QED
      BY <1>2, <3>1, <3>2, <3>3, ReturnStep
  <2>3. CASE ReadOptions
    BY <1>2, <2>3, ReadOptionsStep
  <2>4. CASE SelectMetric
    BY <1>2, <2>4, SelectMetricStep
  <2>5. CASE StartRecording
    BY <1>2, <2>5, StartRecordingStep
  <2> QED
    BY <1>2, <2>1, <2>2, <2>3, <2>4, <2>5 DEF Handle
<1>3. CASE CmdTerminated \/ UNCHANGED <<vars, cmdVars>>
  <2>1. UNCHANGED <<pc, capable, match, config, funcs, n_read, tick_interval_ms,
                    n_ticks_to_refresh, interval, used, values, status>>
    BY <1>3 DEF CmdTerminated, vars, cmdVars, opts
  <2>2. CmdTypeOK'
    BY <2>1 DEF IInv, CmdTypeOK
  <2>3. Parsed'
    <3>1. UNCHANGED vars
      BY <1>3 DEF CmdTerminated
    <3> QED
      BY <2>1, <3>1, HasValueKept DEF IInv, Parsed
  <2>4. Selecting'
    BY <2>1 DEF IInv, Selecting, Counts, Ready, Given, MetricNames
  <2>5. PeriodAsAsked'
    BY <2>1 DEF IInv, PeriodAsAsked
  <2>6. Reading'
    <3>1. FiltersAsGiven => FiltersAsGiven'
      BY <2>1 DEF FiltersAsGiven, Given, IdsAsGiven, NamesAsGiven, Value
    <3>2. \A c : Places(funcs[c], c, n_read)' = Places(funcs[c], c, n_read)
      BY <2>1 DEF Places, NamedOf, MetricNames
    <3> QED
      BY <2>1, <3>1, <3>2 DEF IInv, Reading
  <2> QED
    BY <2>2, <2>3, <2>4, <2>5, <2>6 DEF IInv
<1> QED
  BY <1>1, <1>2, <1>3 DEF CmdNext

LEMMA Invariant == CmdSpec => []IInv
BY InitIInv, NextIInv, PTL DEF CmdSpec

-----------------------------------------------------------------------------
\* The options, the callbacks and the period keep their types from main to
\* the recorder; in particular Recorder::tick never divides by 0.
THEOREM TypeCorrect == CmdSpec => []CmdTypeOK
<1>1. IInv => CmdTypeOK
  BY DEF IInv
<1> QED
  BY <1>1, Invariant, PTL

\* A recorder starts with at least one callback, with the flags its callbacks
\* need and with ready plugins only, for every command line that the parser
\* can leave: what Recorder assumes of its options holds.
THEOREM SelectsAsAskedHolds == CmdSpec => []SelectsAsAsked
<1>1. IInv => SelectsAsAsked
  <2> SUFFICES ASSUME IInv, pc = "running" PROVE SelectsAsAsked
    BY DEF SelectsAsAsked
  <2>1. ~(Len(MetricNames) < 1) /\ n_read = Len(MetricNames) /\ n_read \in Nat
    BY GivenValue DEF IInv, Selecting, Parsed, MetricNames, CmdTypeOK
  <2>2. Counts.system + Counts.process + Counts.thread > 0
    BY <2>1 DEF IInv, Selecting
  <2> QED
    BY <2>2 DEF IInv, Selecting, SelectsAsAsked, Selected
<1> QED
  BY <1>1, Invariant, PTL

\* The interval is the one asked for, and the refresh period the refresh interval
\* rounded down to whole ticks: for every interval whose nanoseconds fit, every
\* time between refreshes and every width of the integers.
THEOREM PeriodAsAskedHolds == CmdSpec => []PeriodAsAsked
<1>1. IInv => PeriodAsAsked
  BY DEF IInv
<1> QED
  BY <1>1, Invariant, PTL

\* The filters hold what their options list, entry for entry, with the stray
\* commas and the numbers that are none; the callbacks of each class are its
\* metrics in the order of -e: for every text of every option.
THEOREM OptionsAsGivenHolds == CmdSpec => []OptionsAsGiven
<1>1. IInv => OptionsAsGiven
  <2> SUFFICES ASSUME IInv PROVE OptionsAsGiven
    OBVIOUS
  <2>1. pc \in {"metrics", "running"} => FiltersAsGiven
    BY DEF IInv, Reading
  <2>2. ASSUME pc = "running", NEW class \in DOMAIN Registered PROVE MetricsAsGiven(class)
    <3>1. n_read = Len(MetricNames) /\ Given("e") /\ Places(funcs[class], class, n_read) # {}
      BY <2>2 DEF IInv, Selecting, Reading
    <3>2. MetricNames \in Seq(Words)
      BY <3>1, GivenValue DEF IInv, Parsed, MetricNames
    <3>3. DOMAIN MetricNames = 1..n_read
      BY <3>1, <3>2
    <3>4. NamedOf(class, n_read) =
            {k \in DOMAIN MetricNames : Class(MetricNames[k]) = <<class>>}
      BY <3>3 DEF NamedOf
    <3>5. PICK place : place \in Places(funcs[class], class, n_read)
      BY <3>1
    <3> QED
      BY <3>4, <3>5, Zenon DEF Places, MetricsAsGiven
  <2> QED
    BY <2>1, <2>2 DEF OptionsAsGiven, FiltersAsGiven
<1> QED
  BY <1>1, Invariant, PTL
=============================================================================
