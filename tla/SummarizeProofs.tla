--------------------------- MODULE SummarizeProofs ---------------------------
(***************************************************************************)
(* Theorems about Summarize, for every set of recordings and batches that  *)
(* SummarizeAssumption allows, and files of any length: the types, which   *)
(* lines the parser does not survive, when compute_derive may divide by 0, *)
(* and that each sample reaches the series of its instance, in order.      *)
(***************************************************************************)
EXTENDS Summarize, SequenceTheorems, TLAPS

ReadType == [line : Line, words : Seq(Word)]
EntryType == [timestamp : Word, value : Numbers]

-----------------------------------------------------------------------------
(***************************************************************************)
(* The words of a line.                                                    *)
(***************************************************************************)

\* Two names, one after the other.
LEMMA Joined ==
  ASSUME NEW a \in Seq(Seq(Text)), NEW b \in Seq(Seq(Text))
  PROVE  /\ a \o b \in Seq(Seq(Text))
         /\ Len(a \o b) = Len(a) + Len(b)
         /\ Len(a) \in Nat /\ Len(b) \in Nat
<1>1. QED  BY ConcatProperties, LenProperties

\* NameWords is the words of the names, one name after another, of a sample that
\* report printed.
LEMMA NameWordsType ==
  ASSUME NEW s \in Sample, Shaped(s)
  PROVE  /\ NameWords(s) \in Seq(Word)
         /\ (\A i \in 1..Len(s.names) : s.names[i] # <<>>) =>
              Len(NameWords(s)) >= Len(s.names)
<1>1. s.names \in Seq(Seq(Word)) /\ Len(s.names) \in Nat
  BY DEF Sample
<1>2. ASSUME NEW i \in 1..Len(s.names)
      PROVE  /\ s.names[i] \in Seq(Word)
             /\ Len(s.names[i]) \in Nat
             /\ s.names[i] # <<>> => Len(s.names[i]) >= 1
  <2>1. s.names[i] \in Seq(Word)
    BY <1>1
  <2>2. QED  BY <2>1
<1>3. CASE s.metric[1] = "process"
  <2> DEFINE a == s.names[1]
             b == s.names[2]
  <2>1. Len(s.names) = 2 /\ NameWords(s) = a \o b
    BY <1>3 DEF Shaped, NameWords
  <2>2. /\ a \in Seq(Word) /\ Len(a) \in Nat /\ (a # <<>> => Len(a) >= 1)
        /\ b \in Seq(Word) /\ Len(b) \in Nat /\ (b # <<>> => Len(b) >= 1)
    BY <1>2, <2>1
  <2>3. a \o b \in Seq(Word) /\ Len(a \o b) = Len(a) + Len(b)
    BY <2>2, Joined DEF Word
  <2>4. (\A i \in 1..Len(s.names) : s.names[i] # <<>>) => a # <<>> /\ b # <<>>
    BY <2>1
  <2> HIDE DEF a, b
  <2>5. QED  BY <2>1, <2>2, <2>3, <2>4
<1>4. CASE s.metric[1] = "thread"
  <2> DEFINE a == s.names[1]
             b == s.names[2]
             c == s.names[3]
             d == s.names[4]
  <2>1. Len(s.names) = 4 /\ NameWords(s) = a \o b \o c \o d
    BY <1>4 DEF Shaped, NameWords
  <2>2. /\ a \in Seq(Word) /\ Len(a) \in Nat /\ (a # <<>> => Len(a) >= 1)
        /\ b \in Seq(Word) /\ Len(b) \in Nat /\ (b # <<>> => Len(b) >= 1)
        /\ c \in Seq(Word) /\ Len(c) \in Nat /\ (c # <<>> => Len(c) >= 1)
        /\ d \in Seq(Word) /\ Len(d) \in Nat /\ (d # <<>> => Len(d) >= 1)
    BY <1>2, <2>1
  <2>3. a \o b \in Seq(Word) /\ Len(a \o b) = Len(a) + Len(b)
    BY <2>2, Joined DEF Word
  <2>4. /\ a \o b \o c \in Seq(Word)
        /\ Len(a \o b \o c) = Len(a) + Len(b) + Len(c)
    BY <2>2, <2>3, Joined DEF Word
  <2>5. /\ a \o b \o c \o d \in Seq(Word)
        /\ Len(a \o b \o c \o d) = Len(a) + Len(b) + Len(c) + Len(d)
    BY <2>2, <2>4, Joined DEF Word
  <2>6. (\A i \in 1..Len(s.names) : s.names[i] # <<>>) =>
          a # <<>> /\ b # <<>> /\ c # <<>> /\ d # <<>>
    BY <2>1
  <2> HIDE DEF a, b, c, d
  <2>7. QED  BY <2>1, <2>2, <2>5, <2>6
<1>5. CASE s.metric[1] # "process" /\ s.metric[1] # "thread"
  <2>1. Len(s.names) = 1 /\ NameWords(s) = s.names[1]
    BY <1>5 DEF Shaped, NameWords
  <2>2. QED  BY <1>2, <2>1
<1>6. QED  BY <1>3, <1>4, <1>5

\* The first three words of a line, its names and its last word.
LEMMA WordsType ==
  ASSUME NEW l \in Line, Shaped(l.sample)
  PROVE  /\ Words(l) \in Seq(Word)
         /\ Len(Words(l)) = Len(NameWords(l.sample)) + 4
         /\ Words(l)[1] = l.ts
         /\ Words(l)[2] = l.sample.metric
         /\ Words(l)[3] = l.sample.stat_type
         /\ \A i \in 1..Len(NameWords(l.sample)) : Words(l)[i + 3] = NameWords(l.sample)[i]
<1>1. l.sample \in Sample /\ l.ts \in Word
  BY DEF Line
<1>2. l.sample.metric \in Word /\ l.sample.stat_type \in Word /\ l.sample.value \in Word
  BY <1>1 DEF Sample
<1>3. NameWords(l.sample) \in Seq(Word)
  BY <1>1, NameWordsType
<1>4. /\ <<l.ts, l.sample.metric, l.sample.stat_type>> \in Seq(Word)
      /\ <<l.sample.value>> \in Seq(Word)
  BY <1>1, <1>2
<1>5. QED  BY <1>3, <1>4 DEF Words

\* A word of one part.
LEMMA OnePart ==
  ASSUME NEW x \in Text
  PROVE  <<x>> \in Word
BY DEF Word

\* One word more.
LEMMA OneMore ==
  ASSUME NEW ws \in Seq(Word), NEW w \in Word
  PROVE  Append(ws, w) \in Seq(Word)
OBVIOUS

\* A line cut at one of its places is words too.
LEMMA CutType ==
  ASSUME NEW l \in Line, Shaped(l.sample), NEW p \in Places(l)
  PROVE  WordsUpTo(l, p) \in Seq(Word)
<1>1. PICK ws \in Seq(Word) : ws = Words(l)
  BY WordsType
<1>2. Len(ws) \in Nat
  BY <1>1
<1>3. p \in Nat /\ p <= 3 * Len(ws)
  BY <1>1, <1>2 DEF Places
<1>4. PICK k \in Nat, rest \in 0..2 : k = p \div 3 /\ rest = p % 3 /\ p = 3 * k + rest
  BY <1>3
<1>5. k <= Len(ws) /\ (rest = 2 => k + 1 <= Len(ws))
  BY <1>2, <1>3, <1>4
<1>6. SubSeq(ws, 1, k) \in Seq(Word)
  BY <1>2, <1>5
<1>7. CASE rest = 2
  <2>1. ws[k + 1] \in Word
    BY <1>2, <1>5, <1>7
  <2>2. CutWord(ws[k + 1]) \in Word
    <3>1. CutNumber \in Word
      BY JournalAssumption
    <3>2. <<"cut">> \in Word
      BY JournalAssumption, OnePart
    <3>3. QED  BY <3>1, <3>2 DEF CutWord
  <2>3. WordsUpTo(l, p) = Append(SubSeq(ws, 1, k), CutWord(ws[k + 1]))
    <3>1. p % 3 # 1
      BY <1>4, <1>7
    <3>2. QED  BY <1>1, <1>4, <1>7, <3>1, Zenon DEF WordsUpTo
  <2>4. QED  BY <1>6, <2>2, <2>3, OneMore
<1>8. CASE rest = 1
  <2>1. WordsUpTo(l, p) = Append(SubSeq(ws, 1, k), <<"">>)
    <3>1. p % 3 # 2
      BY <1>4, <1>8
    <3>2. QED  BY <1>1, <1>4, <1>8, <3>1, Zenon DEF WordsUpTo
  <2>2. <<"">> \in Word
    BY JournalAssumption, OnePart
  <2>3. QED  BY <1>6, <2>1, <2>2, OneMore
<1>9. CASE rest = 0
  <2>1. WordsUpTo(l, p) = SubSeq(ws, 1, k)
    <3>1. p % 3 # 2 /\ p % 3 # 1
      BY <1>4, <1>9
    <3>2. QED  BY <1>1, <1>4, <1>9, <3>1, Zenon DEF WordsUpTo
  <2>2. QED  BY <1>6, <2>1
<1>10. QED  BY <1>7, <1>8, <1>9

\* A whole line is not read past its words if each name has at least one.
LEMMA WholeLineInRange ==
  ASSUME NEW l \in Line, Shaped(l.sample), OutOfRange(Words(l))
  PROVE  \E i \in 1..Len(l.sample.names) : l.sample.names[i] = <<>>
<1> DEFINE ws == Words(l)
           s == l.sample
           n == Len(NameWords(s))
<1>1. s \in Sample
  BY DEF Line
<1>2. NameWords(s) \in Seq(Word) /\ n \in Nat
  BY <1>1, NameWordsType
<1>3. Len(ws) = n + 4 /\ ws[2] = s.metric /\ ws[3] = s.stat_type
  BY WordsType
<1>4. Len(ws[2]) = 3 /\ ws[3] \in StatTypes
  BY <1>3 DEF Shaped
<1>5. n + 4 < ValueIndex(ws)
  BY <1>2, <1>3, <1>4 DEF OutOfRange
<1>6. Class(ws) = s.metric[1]
  BY <1>3 DEF Class
<1>7. SUFFICES ASSUME \A i \in 1..Len(s.names) : s.names[i] # <<>>
               PROVE  FALSE
  OBVIOUS
<1>8. n >= Len(s.names)
  BY <1>1, <1>7, NameWordsType
<1> HIDE DEF n, ws
<1>9. CASE s.metric[1] = "process"
  <2>1. Len(s.names) = 2 /\ ValueIndex(ws) = 6
    BY <1>6, <1>9 DEF Shaped, ValueIndex
  <2>2. QED  BY <1>2, <1>5, <1>8, <2>1
<1>10. CASE s.metric[1] = "thread"
  <2>1. Len(s.names) = 4 /\ ValueIndex(ws) = 8
    BY <1>6, <1>10 DEF Shaped, ValueIndex
  <2>2. QED  BY <1>2, <1>5, <1>8, <2>1
<1>11. CASE s.metric[1] # "process" /\ s.metric[1] # "thread"
  <2>1. Len(s.names) = 1 /\ ValueIndex(ws) <= 5 /\ ValueIndex(ws) \in Nat
    BY <1>6, <1>11 DEF Shaped, ValueIndex
  <2>2. QED  BY <1>2, <1>5, <1>8, <2>1
<1>12. QED  BY <1>9, <1>10, <1>11

-----------------------------------------------------------------------------
(***************************************************************************)
(* The recording that is being written.                                    *)
(***************************************************************************)

\* Every line is of a tick so far, and the file ends at a place of a line.
Printed ==
  /\ NTicks \in 0..Len(Times)
  /\ \A i \in 1..Len(emitted) :
       /\ Shaped(emitted[i].sample)
       /\ \E n \in 1..NTicks : emitted[i].ts = Times[n]
  /\ EndsIn(written, emitted)

\* The file and the recording only grow.
Grows ==
  /\ Len(emitted) <= Len(emitted')
  /\ \A i \in 1..Len(emitted) : emitted'[i] = emitted[i]
  /\ written.whole <= written'.whole

\* There is a time for each tick.
LEMMA TimesType ==
  /\ Len(Times) \in Nat
  /\ \A n \in 1..Len(Times) : Times[n] \in Word
<1>1. Times \in Seq(Numbers) /\ Numbers \subseteq Word
  BY JournalAssumption
<1>2. \A n \in 1..Len(Times) : Times[n] \in Numbers
  BY <1>1
<1>3. QED  BY <1>1, <1>2

\* A tick is known by its time.
LEMMA TickOf ==
  ASSUME NEW n \in 1..Len(Times), emitted # <<>>, emitted[Len(emitted)].ts = Times[n]
  PROVE  NTicks = n
<1>1. \A k \in 1..Len(Times) : Times[k] = Times[n] => k = n
  BY SummarizeAssumption
<1>2. NTicks = CHOOSE k \in 1..Len(Times) : Times[k] = Times[n]
  BY DEF NTicks
<1>3. NTicks \in 1..Len(Times) /\ Times[NTicks] = Times[n]
  BY <1>2
<1>4. QED  BY <1>1, <1>3

\* A function on an initial segment of the numbers is a sequence.
LEMMA IsSequence ==
  ASSUME NEW S, NEW n \in Nat, NEW f \in [1..n -> S]
  PROVE  f \in Seq(S) /\ Len(f) = n
<1>1. f \in Seq(S)
  BY SeqDef
<1>2. DOMAIN f = 1..n /\ DOMAIN f = 1..Len(f) /\ Len(f) \in Nat
  BY <1>1, LenProperties
<1>3. QED  BY <1>2

\* The lines that a tick prints come after the others.
LEMMA ReportLines ==
  ASSUME JournalTypeOK, NEW batch \in Batches, NEW ts \in Word,
         emitted' = emitted \o [i \in 1..Len(batch) |-> [ts |-> ts, sample |-> batch[i]]]
  PROVE  /\ emitted' \in Seq(Line)
         /\ emitted' # <<>>
         /\ Len(batch) \in Nat \ {0}
         /\ Len(emitted') = Len(emitted) + Len(batch)
         /\ \A i \in 1..Len(emitted) : emitted'[i] = emitted[i]
         /\ \A i \in 1..Len(batch) :
              /\ emitted'[Len(emitted) + i].ts = ts
              /\ emitted'[Len(emitted) + i].sample = batch[i]
<1> DEFINE new == [i \in 1..Len(batch) |-> [ts |-> ts, sample |-> batch[i]]]
<1>1. batch \in Seq(Sample) /\ batch # <<>>
  BY JournalAssumption
<1>2. Len(batch) \in Nat \ {0}
  BY <1>1
<1>3. \A i \in 1..Len(batch) : batch[i] \in Sample
  BY <1>1
<1>4. new \in Seq(Line) /\ Len(new) = Len(batch)
  <2>1. \A i \in 1..Len(batch) : [ts |-> ts, sample |-> batch[i]] \in Line
    BY <1>3 DEF Line
  <2>2. new \in [1..Len(batch) -> Line]
    BY <2>1
  <2> HIDE DEF new
  <2>3. QED  BY <1>2, <2>2, IsSequence
<1>5. \A i \in 1..Len(batch) : new[i].ts = ts /\ new[i].sample = batch[i]
  OBVIOUS
<1>6. emitted \in Seq(Line) /\ Len(emitted) \in Nat
  BY DEF JournalTypeOK
<1>7. emitted' = emitted \o new
  OBVIOUS
<1> HIDE DEF new
<1>8. emitted' \in Seq(Line) /\ Len(emitted') = Len(emitted) + Len(new)
  BY <1>4, <1>6, <1>7, ConcatProperties
<1>9. /\ \A i \in 1..Len(emitted) : emitted'[i] = emitted[i]
      /\ \A i \in 1..Len(batch) : emitted'[Len(emitted) + i] = new[i]
  <2>1. Len(new) \in Nat
    BY <1>2, <1>4
  <2>2. /\ \A i \in 1..Len(emitted) : emitted'[i] = emitted[i]
        /\ \A i \in 1..Len(new) : emitted'[Len(emitted) + i] = new[i]
    BY <1>4, <1>6, <1>7, <2>1
  <2>3. QED  BY <1>4, <2>2
<1>10. emitted' # <<>>
  BY <1>2, <1>4, <1>6, <1>8
<1>11. QED  BY <1>2, <1>4, <1>5, <1>8, <1>9, <1>10

LEMMA ReportStep ==
  ASSUME JournalTypeOK, Printed, Report
  PROVE  JournalTypeOK' /\ Printed' /\ Grows
<1> DEFINE old == Len(emitted)
           ts == Times[NTicks + 1]
<1>1. PICK batch \in Batches :
        emitted' = emitted \o [i \in 1..Len(batch) |-> [ts |-> ts, sample |-> batch[i]]]
  BY DEF Report
<1>2. NTicks + 1 \in 1..Len(Times) /\ NTicks \in Nat /\ Len(Times) \in Nat
  BY TimesType DEF Report, Printed
<1>3. ts \in Word
  BY <1>2, TimesType
<1>4. old \in Nat /\ emitted \in Seq(Line)
  BY DEF JournalTypeOK
<1> HIDE DEF ts
<1>5. /\ emitted' \in Seq(Line)
      /\ emitted' # <<>>
      /\ Len(batch) \in Nat \ {0}
      /\ Len(emitted') = old + Len(batch)
      /\ \A i \in 1..old : emitted'[i] = emitted[i]
      /\ \A i \in 1..Len(batch) :
           emitted'[old + i].ts = ts /\ emitted'[old + i].sample = batch[i]
  BY <1>1, <1>3, ReportLines
<1>6. \A i \in 1..Len(batch) : Shaped(batch[i])
  BY SummarizeAssumption
<1>7. NTicks' = NTicks + 1
  <2>1. emitted'[Len(emitted')].ts = ts
    BY <1>5
  <2>2. \A k \in 1..Len(Times) : Times[k] = Times[NTicks + 1] => k = NTicks + 1
    BY <1>2, SummarizeAssumption
  <2>3. NTicks' = CHOOSE k \in 1..Len(Times) : Times[k] = Times[NTicks + 1]
    BY <1>5, <2>1 DEF NTicks, ts
  <2>4. NTicks' \in 1..Len(Times) /\ Times[NTicks'] = Times[NTicks + 1]
    BY <1>2, <2>3
  <2>5. QED  BY <2>2, <2>4
<1> HIDE DEF old
<1>8. written' = written /\ recording' = recording
  BY DEF Report
<1>9. \A i \in 1..Len(emitted') :
        i \in 1..old \/ \E k \in 1..Len(batch) : i = old + k
  <2>1. TAKE i \in 1..Len(emitted')
  <2>2. CASE i > old
    <3>1. i - old \in 1..Len(batch) /\ i = old + (i - old)
      BY <1>4, <1>5, <2>2
    <3>2. QED  BY <3>1
  <2>3. QED  BY <1>4, <2>2
<1>10. \A i \in 1..old : \E n \in 1..NTicks : emitted[i].ts = Times[n]
  BY DEF Printed, old
<1>11. \A i \in 1..Len(emitted') :
         Shaped(emitted'[i].sample) /\ \E n \in 1..NTicks' : emitted'[i].ts = Times[n]
  <2>1. TAKE i \in 1..Len(emitted')
  <2>2. CASE i \in 1..old
    <3>1. Shaped(emitted[i].sample)
      BY <2>2 DEF Printed, old
    <3>2. PICK n \in 1..NTicks : emitted[i].ts = Times[n]
      BY <1>10, <2>2
    <3>3. n \in 1..NTicks'
      BY <1>2, <1>7
    <3>4. QED  BY <1>5, <2>2, <3>1, <3>2, <3>3
  <2>3. ASSUME NEW k \in 1..Len(batch), i = old + k
        PROVE  Shaped(emitted'[i].sample) /\ \E n \in 1..NTicks' : emitted'[i].ts = Times[n]
    <3>1. emitted'[i].sample = batch[k] /\ emitted'[i].ts = ts
      BY <1>5, <2>3
    <3>2. NTicks + 1 \in 1..NTicks'
      BY <1>2, <1>7
    <3>3. QED  BY <1>6, <3>1, <3>2 DEF ts
  <2>4. QED  BY <1>9, <2>2, <2>3
<1>12. EndsIn(written, emitted')
  <2>1. EndsIn(written, emitted)
    BY DEF Printed
  <2>2. written.whole \in 0..Len(emitted') /\ written.place \in Nat
    BY <1>4, <1>5, <2>1 DEF EndsIn, old
  <2>3. ASSUME written.place # 0
        PROVE  /\ written.whole < Len(emitted')
               /\ written.place \in Places(emitted'[written.whole + 1])
    <3>1. written.whole < old /\ written.place \in Places(emitted[written.whole + 1])
      BY <2>1, <2>3 DEF EndsIn, old
    <3>2. written.whole \in Nat
      BY <1>4, <2>1 DEF EndsIn, old
    <3>3. written.whole + 1 \in 1..old /\ written.whole < Len(emitted')
      BY <1>4, <1>5, <3>1, <3>2
    <3>4. emitted'[written.whole + 1] = emitted[written.whole + 1]
      BY <1>5, <3>3
    <3>5. QED  BY <3>1, <3>3, <3>4
  <2>4. QED  BY <2>2, <2>3 DEF EndsIn
<1>13. Printed'
  <2>1. NTicks' \in 0..Len(Times)
    BY <1>2, <1>7
  <2>2. EndsIn(written', emitted')
    BY <1>8, <1>12
  <2>3. QED  BY <1>11, <2>1, <2>2 DEF Printed
<1>14. JournalTypeOK'
  <2>1. recording' \in {"runs", "exited", "terminated"}
    BY <1>8 DEF JournalTypeOK
  <2>2. written'.place \in Nat /\ written'.whole \in 0..Len(emitted')
    BY <1>8, <1>12 DEF EndsIn
  <2>3. written'.whole = Len(emitted') => written'.place = 0
    BY <1>5, <1>8, <1>12 DEF EndsIn
  <2>4. QED  BY <1>5, <2>1, <2>2, <2>3 DEF JournalTypeOK
<1>15. Grows
  <2>1. Len(emitted) <= Len(emitted')
    BY <1>4, <1>5 DEF old
  <2>2. written.whole <= written'.whole
    BY <1>8, <1>12 DEF EndsIn
  <2>3. QED  BY <1>5, <2>1, <2>2 DEF Grows, old
<1>16. QED  BY <1>13, <1>14, <1>15

\* If only the file changes, and ends in the recording, further on.
LEMMA WrittenStep ==
  ASSUME JournalTypeOK, Printed, emitted' = emitted, EndsIn(written', emitted),
         written.whole <= written'.whole,
         recording' \in {"runs", "exited", "terminated"}
  PROVE  JournalTypeOK' /\ Printed' /\ Grows
<1>1. Len(emitted) \in Nat /\ emitted \in Seq(Line)
  BY DEF JournalTypeOK
<1>2. NTicks' = NTicks
  BY DEF NTicks
<1>3. Printed'
  BY <1>2 DEF Printed, EndsIn
<1>4. JournalTypeOK'
  <2>1. written'.place \in Nat /\ written'.whole \in 0..Len(emitted)
    BY DEF EndsIn
  <2>2. written'.whole = Len(emitted) => written'.place = 0
    BY <1>1 DEF EndsIn
  <2>3. QED  BY <1>1, <2>1, <2>2 DEF JournalTypeOK
<1>5. Grows
  BY <1>1 DEF Grows
<1>6. QED  BY <1>3, <1>4, <1>5

LEMMA FlushStep ==
  ASSUME JournalTypeOK, Printed, Flush
  PROVE  JournalTypeOK' /\ Printed' /\ Grows
<1>1. PICK n \in written.whole..Len(emitted) :
        \E p \in IF n < Len(emitted) THEN Places(emitted[n + 1]) ELSE {0} :
          Later([whole |-> n, place |-> p]) /\ written' = [whole |-> n, place |-> p]
  BY DEF Flush
<1>2. PICK p \in IF n < Len(emitted) THEN Places(emitted[n + 1]) ELSE {0} :
        written' = [whole |-> n, place |-> p]
  BY <1>1
<1>3. written'.whole = n /\ written'.place = p
  BY <1>2
<1>4. written.whole \in Nat /\ Len(emitted) \in Nat /\ emitted \in Seq(Line)
  BY DEF JournalTypeOK
<1>5. n \in 0..Len(emitted) /\ written.whole <= n
  BY <1>4
<1>6. /\ p \in Nat
      /\ p # 0 => n < Len(emitted) /\ p \in Places(emitted[n + 1])
  <2>1. CASE n < Len(emitted)
    <3>1. p \in Places(emitted[n + 1])
      BY <2>1
    <3>2. emitted[n + 1] \in Line /\ Shaped(emitted[n + 1].sample)
      BY <1>4, <1>5, <2>1 DEF Printed
    <3>3. Len(Words(emitted[n + 1])) \in Nat
      BY <3>2, WordsType
    <3>4. p \in Nat
      BY <3>1, <3>3 DEF Places
    <3>5. QED  BY <2>1, <3>1, <3>4
  <2>2. CASE ~(n < Len(emitted))
    <3>1. p = 0
      BY <2>2
    <3>2. QED  BY <3>1
  <2>3. QED  BY <2>1, <2>2
<1>7. EndsIn(written', emitted)
  BY <1>3, <1>5, <1>6 DEF EndsIn
<1>8. emitted' = emitted /\ recording' \in {"runs", "exited", "terminated"}
  BY DEF Flush
<1>9. QED  BY <1>3, <1>5, <1>7, <1>8, WrittenStep

LEMMA ExitStep ==
  ASSUME JournalTypeOK, Printed, Exit
  PROVE  JournalTypeOK' /\ Printed' /\ Grows
<1>1. Len(emitted) \in Nat /\ written.whole \in 0..Len(emitted)
  BY DEF JournalTypeOK
<1>2. written'.whole = Len(emitted) /\ written'.place = 0
  BY DEF Exit, AllWritten
<1>3. EndsIn(written', emitted)
  BY <1>1, <1>2 DEF EndsIn
<1>4. written.whole <= written'.whole
  BY <1>1, <1>2
<1>5. emitted' = emitted /\ recording' \in {"runs", "exited", "terminated"}
  BY DEF Exit
<1>6. QED  BY <1>3, <1>4, <1>5, WrittenStep

\* A step of the recording, or none.
LEMMA JournalStep ==
  ASSUME JournalTypeOK, Printed, JournalNext \/ UNCHANGED journalVars
  PROVE  JournalTypeOK' /\ Printed' /\ Grows
<1>1. CASE Terminate \/ UNCHANGED journalVars
  <2>1. /\ emitted' = emitted /\ written' = written
        /\ recording' \in {"runs", "exited", "terminated"}
    BY <1>1 DEF Terminate, journalVars, JournalTypeOK
  <2>2. EndsIn(written', emitted)
    BY <2>1 DEF Printed
  <2>3. written.whole <= written'.whole
    BY <2>1 DEF JournalTypeOK
  <2>4. QED  BY <2>1, <2>2, <2>3, WrittenStep
<1>2. QED  BY <1>1, ReportStep, FlushStep, ExitStep DEF JournalNext

-----------------------------------------------------------------------------
(***************************************************************************)
(* The name of a series.                                                   *)
(***************************************************************************)

\* Among plain lines the name of the series tells what the line is about.
LEMMA KeyDetermines ==
  ASSUME NEW l \in Line, NEW m \in Line, Plain(l), Plain(m),
         KeyOf(About(l)) = KeyOf(About(m))
  PROVE  About(l) = About(m)
<1> DEFINE a == l.sample.names
           b == m.sample.names
           f == [i \in 1..Len(a) |-> a[i][1]]
           g == [i \in 1..Len(b) |-> b[i][1]]
<1>1. l.sample \in Sample /\ m.sample \in Sample
  BY DEF Line
<1>2. a \in Seq(Seq(Word)) /\ b \in Seq(Seq(Word))
  BY <1>1 DEF Sample
<1>3. l.sample.metric = m.sample.metric /\ f = g
  BY DEF KeyOf, About
<1>4. Len(a) \in Nat /\ Len(b) \in Nat
  BY <1>2
<1>5. /\ \A i \in 1..Len(a) : a[i] \in Seq(Word) /\ Len(a[i]) = 1
      /\ \A i \in 1..Len(b) : b[i] \in Seq(Word) /\ Len(b[i]) = 1
  BY <1>2 DEF Plain
<1> HIDE DEF a, b
<1>6. DOMAIN f = 1..Len(a) /\ DOMAIN g = 1..Len(b)
  OBVIOUS
<1>7. Len(a) = Len(b)
  <2>1. 1..Len(a) = 1..Len(b)
    BY <1>3, <1>6
  <2>2. QED  BY <1>4, <2>1
<1>8. ASSUME NEW i \in 1..Len(a)
      PROVE  a[i] = b[i]
  <2>1. f[i] = a[i][1] /\ g[i] = b[i][1]
    BY <1>7
  <2>2. a[i][1] = b[i][1]
    BY <1>3, <2>1
  <2>3. /\ a[i] \in Seq(Word) /\ Len(a[i]) = 1
        /\ b[i] \in Seq(Word) /\ Len(b[i]) = 1
    BY <1>5, <1>7
  <2> HIDE DEF f, g
  <2>4. QED  BY <2>2, <2>3, SeqEqual
<1>9. a = b
  BY <1>2, <1>7, <1>8, SeqEqual
<1>10. QED  BY <1>3, <1>9 DEF About, a, b

\* A name of one word is one word more.
LEMMA JoinOne ==
  ASSUME NEW a \in Seq(Word), NEW b \in Seq(Word), Len(b) = 1
  PROVE  /\ a \o b \in Seq(Word)
         /\ Len(a \o b) = Len(a) + 1
         /\ \A i \in 1..Len(a) : (a \o b)[i] = a[i]
         /\ (a \o b)[Len(a) + 1] = b[1]
<1>1. a \o b \in Seq(Word) /\ Len(a \o b) = Len(a) + 1
  <2>1. a \o b \in Seq(Word) /\ Len(a \o b) = Len(a) + Len(b)
    BY ConcatProperties
  <2>2. QED  BY <2>1
<1>2. \A i \in 1..Len(a) : (a \o b)[i] = a[i]
  OBVIOUS
<1>3. (a \o b)[Len(a) + 1] = b[1]
  OBVIOUS
<1>4. QED  BY <1>1, <1>2, <1>3

\* A plain line goes into the series of what it is about.
LEMMA KeyOfWords ==
  ASSUME NEW l \in Line, Shaped(l.sample), Plain(l)
  PROVE  <<Words(l)[2], InstanceName(Words(l))>> = KeyOf(About(l))
<1> DEFINE s == l.sample
           ws == Words(l)
           key == [i \in 1..Len(s.names) |-> s.names[i][1]]
<1>1. s \in Sample
  BY DEF Line
<1>2. s.names \in Seq(Seq(Word))
  BY <1>1 DEF Sample
<1>3. \A i \in 1..Len(s.names) : s.names[i] \in Seq(Word) /\ Len(s.names[i]) = 1
  BY <1>2 DEF Plain
<1>4. /\ NameWords(s) \in Seq(Word)
      /\ ws[2] = s.metric
      /\ \A i \in 1..Len(NameWords(s)) : ws[i + 3] = NameWords(s)[i]
  BY <1>1, NameWordsType, WordsType
<1>5. Class(ws) = s.metric[1]
  BY <1>4 DEF Class
<1>6. InstanceName(ws) = key
  <2>1. CASE s.metric[1] = "system"
    <3>1. Len(s.names) = 1 /\ NameWords(s) = s.names[1]
      BY <2>1 DEF Shaped, NameWords
    <3>2. ws[4] = s.names[1][1]
      <4>1. 1 \in 1..Len(NameWords(s)) /\ 1 + 3 = 4
        BY <1>3, <3>1
      <4>2. ws[1 + 3] = NameWords(s)[1]
        BY <1>4, <4>1
      <4>3. QED  BY <3>1, <4>1, <4>2
    <3>3. InstanceName(ws) = <<ws[4]>>
      BY <1>5, <2>1 DEF InstanceName
    <3>4. key = <<s.names[1][1]>>
      BY <3>1
    <3>5. QED  BY <3>2, <3>3, <3>4
  <2>2. CASE s.metric[1] = "process"
    <3> DEFINE a == s.names[1]
               b == s.names[2]
    <3>1. Len(s.names) = 2 /\ NameWords(s) = a \o b
      BY <2>2 DEF Shaped, NameWords
    <3>2. a \in Seq(Word) /\ Len(a) = 1 /\ b \in Seq(Word) /\ Len(b) = 1
      BY <1>3, <3>1
    <3>3. key = <<a[1], b[1]>>
      BY <3>1
    <3>4. InstanceName(ws) = <<ws[4], ws[5]>>
      BY <1>5, <2>2 DEF InstanceName
    <3> HIDE DEF a, b, key, ws
    <3>5. Len(a \o b) = 2 /\ (a \o b)[1] = a[1] /\ (a \o b)[2] = b[1]
      BY <3>2, JoinOne
    <3>6. ws[1 + 3] = a[1] /\ ws[2 + 3] = b[1]
      BY <1>4, <3>1, <3>5
    <3>7. QED  BY <3>3, <3>4, <3>6
  <2>3. CASE s.metric[1] = "thread"
    <3> DEFINE a == s.names[1]
               b == s.names[2]
               c == s.names[3]
               d == s.names[4]
               all == a \o b \o c \o d
    <3>1. Len(s.names) = 4 /\ NameWords(s) = all
      BY <2>3 DEF Shaped, NameWords
    <3>2. /\ a \in Seq(Word) /\ Len(a) = 1 /\ b \in Seq(Word) /\ Len(b) = 1
          /\ c \in Seq(Word) /\ Len(c) = 1 /\ d \in Seq(Word) /\ Len(d) = 1
      BY <1>3, <3>1
    <3>3. key = <<a[1], b[1], c[1], d[1]>>
      BY <3>1
    <3>4. InstanceName(ws) = <<ws[4], ws[5], ws[6], ws[7]>>
      BY <1>5, <2>3 DEF InstanceName
    <3> HIDE DEF a, b, c, d, key, ws
    <3>5. /\ Len(all) = 4 /\ all[1] = a[1] /\ all[2] = b[1]
          /\ all[3] = c[1] /\ all[4] = d[1]
      <4>1. /\ a \o b \in Seq(Word) /\ Len(a \o b) = 2
            /\ (a \o b)[1] = a[1] /\ (a \o b)[2] = b[1]
        BY <3>2, JoinOne
      <4>2. /\ a \o b \o c \in Seq(Word) /\ Len(a \o b \o c) = 3
            /\ \A i \in 1..2 : (a \o b \o c)[i] = (a \o b)[i]
            /\ (a \o b \o c)[3] = c[1]
        BY <3>2, <4>1, JoinOne
      <4>3. /\ Len(a \o b \o c \o d) = 4
            /\ \A i \in 1..3 : (a \o b \o c \o d)[i] = (a \o b \o c)[i]
            /\ (a \o b \o c \o d)[4] = d[1]
        BY <3>2, <4>2, JoinOne
      <4> DEFINE abc == a \o b \o c
      <4>4. all[1] = abc[1] /\ all[2] = abc[2] /\ all[3] = abc[3]
        <5>1. \A i \in 1..3 : all[i] = abc[i]
          BY <4>3
        <5> HIDE DEF all, abc
        <5>2. QED  BY <5>1
      <4>5. (a \o b \o c)[1] = a[1] /\ (a \o b \o c)[2] = b[1]
        BY <4>1, <4>2
      <4>6. QED  BY <4>2, <4>3, <4>4, <4>5
    <3> HIDE DEF all
    <3>6. /\ ws[1 + 3] = a[1] /\ ws[2 + 3] = b[1]
          /\ ws[3 + 3] = c[1] /\ ws[4 + 3] = d[1]
      BY <1>4, <3>1, <3>5
    <3>7. QED  BY <3>3, <3>4, <3>6
  <2>4. QED  BY <2>1, <2>2, <2>3 DEF Plain
<1>7. KeyOf(About(l)) = <<s.metric, key>>
  BY DEF KeyOf, About
<1>8. QED  BY <1>4, <1>6, <1>7

-----------------------------------------------------------------------------
(***************************************************************************)
(* The invariant of the reader.                                            *)
(***************************************************************************)

SeriesTyped ==
  /\ DOMAIN raw_data \subseteq Word \X Seq(Word)
  /\ \A k \in DOMAIN raw_data :
       /\ raw_data[k].stat_type \in StatTypes
       /\ raw_data[k].series \in Seq(EntryType) \ {<<>>}

\* No more is read than there is.
Inside == at <= Contents.written.whole

\* Until the end, every line read has its place in one of the files, and it is
\* before the place of the next line.
Origin ==
  status = "reading" =>
    \A j \in 1..Len(read) :
      \/ \E i \in 1..Len(older.lines) :
           read[j].line = older.lines[i] /\ (file = 1 => i <= at)
      \/ file = 2 /\ \E i \in 1..Len(emitted) : read[j].line = emitted[i] /\ i <= at

\* No tick of either recording has two lines about one thing.
Once == NamedOnce(older.lines) /\ NamedOnce(emitted)

\* The entries of a series are of lines with its name, and no two of one time.
Dated ==
  AllRegular /\ Once =>
    \A k \in DOMAIN raw_data :
      LET s == raw_data[k].series
      IN /\ \A i \in 1..Len(s) : \E j \in 1..Len(read) :
              s[i].timestamp = read[j].line.ts /\ k = KeyOf(About(read[j].line))
         /\ \A i, j \in 1..Len(s) : s[i].timestamp = s[j].timestamp => i = j

\* Store adds one entry, with the time of the line, to one series.
LEMMA StoreOne ==
  ASSUME SeriesTyped, NEW ws \in Seq(Word), ~OutOfRange(ws), Store(ws)
  PROVE  /\ SeriesTyped'
         /\ LET key == <<ws[2], InstanceName(ws)>>
                old == IF key \in DOMAIN raw_data THEN raw_data[key].series ELSE <<>>
            IN /\ DOMAIN raw_data' = DOMAIN raw_data \cup {key}
               /\ old \in Seq(EntryType)
               /\ \E entry \in EntryType :
                    entry.timestamp = ws[1] /\ raw_data'[key].series = Append(old, entry)
               /\ \A k \in DOMAIN raw_data : k # key => raw_data'[k] = raw_data[k]
<1> DEFINE key == <<ws[2], InstanceName(ws)>>
           old == IF key \in DOMAIN raw_data THEN raw_data[key].series ELSE <<>>
<1>1. PICK value \in Values(ws) :
        raw_data' = [k \in DOMAIN raw_data \cup {key} |->
                       IF k = key
                         THEN [stat_type |-> ws[3],
                               series |-> Append(old, Entry(ws[1], value))]
                         ELSE raw_data[k]]
  BY DEF Store
<1>2. Len(ws) \in Nat /\ Len(ws) >= 3 /\ Len(ws) >= ValueIndex(ws) /\ ws[3] \in StatTypes
  <2>1. Len(ws) \in Nat /\ ValueIndex(ws) \in Nat
    BY DEF ValueIndex
  <2>2. QED  BY <2>1 DEF OutOfRange
<1>3. ws[1] \in Word /\ ws[2] \in Word
  BY <1>2
<1>4. value \in Numbers
  BY DEF Values
<1>5. InstanceName(ws) \in Seq(Word)
  <2>1. CASE Class(ws) = "system"
    <3>1. Len(ws) >= 5 /\ InstanceName(ws) = <<ws[4]>>
      BY <1>2, <2>1 DEF ValueIndex, InstanceName
    <3>2. ws[4] \in Word
      BY <1>2, <3>1
    <3>3. QED  BY <3>1, <3>2
  <2>2. CASE Class(ws) = "process"
    <3>1. Len(ws) >= 6 /\ InstanceName(ws) = <<ws[4], ws[5]>>
      BY <1>2, <2>2 DEF ValueIndex, InstanceName
    <3>2. ws[4] \in Word /\ ws[5] \in Word
      BY <1>2, <3>1
    <3>3. QED  BY <3>1, <3>2
  <2>3. CASE Class(ws) = "thread"
    <3>1. Len(ws) >= 8 /\ InstanceName(ws) = <<ws[4], ws[5], ws[6], ws[7]>>
      BY <1>2, <2>3 DEF ValueIndex, InstanceName
    <3>2. ws[4] \in Word /\ ws[5] \in Word /\ ws[6] \in Word /\ ws[7] \in Word
      BY <1>2, <3>1
    <3>3. QED  BY <3>1, <3>2
  <2>4. CASE Class(ws) \notin {"system", "process", "thread"}
    <3>1. InstanceName(ws) = <<>>
      BY <2>4 DEF InstanceName
    <3>2. QED  BY <3>1
  <2>5. QED  BY <2>1, <2>2, <2>3, <2>4
<1> DEFINE entry == Entry(ws[1], value)
<1>6. entry \in EntryType /\ entry.timestamp = ws[1]
  BY <1>3, <1>4 DEF Entry, EntryType
<1>7. old \in Seq(EntryType)
  BY DEF SeriesTyped
<1>8. key \in Word \X Seq(Word)
  BY <1>3, <1>5
<1> DEFINE new == [stat_type |-> ws[3], series |-> Append(old, entry)]
<1>9. /\ DOMAIN raw_data' = DOMAIN raw_data \cup {key}
      /\ raw_data'[key] = new
      /\ \A k \in DOMAIN raw_data : k # key => raw_data'[k] = raw_data[k]
  BY <1>1
<1>10. Append(old, entry) \in Seq(EntryType) \ {<<>>}
  <2> HIDE DEF entry, old
  <2>1. Append(old, entry) \in Seq(EntryType) /\ Append(old, entry) # <<>>
    BY <1>6, <1>7, AppendProperties
  <2>2. QED  BY <2>1
<1>11. new.stat_type \in StatTypes /\ new.series \in Seq(EntryType) \ {<<>>}
  BY <1>2, <1>10
<1>12. SeriesTyped'
  <2> HIDE DEF key, new
  <2>1. DOMAIN raw_data' \subseteq Word \X Seq(Word)
    BY <1>8, <1>9 DEF SeriesTyped
  <2>2. ASSUME NEW k \in DOMAIN raw_data'
        PROVE  /\ raw_data'[k].stat_type \in StatTypes
               /\ raw_data'[k].series \in Seq(EntryType) \ {<<>>}
    <3>1. CASE k = key
      BY <1>9, <1>11, <3>1
    <3>2. CASE k # key
      <4>1. k \in DOMAIN raw_data /\ raw_data'[k] = raw_data[k]
        BY <1>9, <3>2
      <4>2. QED  BY <4>1 DEF SeriesTyped
    <3>3. QED  BY <3>1, <3>2
  <2>3. QED  BY <2>1, <2>2 DEF SeriesTyped
<1>13. raw_data'[key].series = Append(old, entry)
  BY <1>9
<1>14. QED
  <2> HIDE DEF entry, new
  <2>1. \E e \in EntryType : e.timestamp = ws[1] /\ raw_data'[key].series = Append(old, e)
    BY <1>6, <1>13
  <2>2. QED  BY <1>7, <1>9, <1>12, <2>1

\* One line read: the line l as the words ws, at a place of its own.
Takes(l, ws) ==
  /\ l \in Line /\ Shaped(l.sample) /\ ws \in Seq(Word)
  /\ read' = Append(read, [line |-> l, words |-> ws])
  /\ IF OutOfRange(ws) THEN UNCHANGED raw_data ELSE Store(ws)

Untimely(l) ==
  \A j \in 1..Len(read) :
    ~(read[j].line.ts = l.ts /\ About(read[j].line) = About(l))

LEMMA ReadGrows ==
  ASSUME read \in Seq(ReadType), NEW l, NEW ws, Takes(l, ws)
  PROVE  /\ read' \in Seq(ReadType)
         /\ Len(read) \in Nat
         /\ Len(read') = Len(read) + 1
         /\ \A j \in 1..Len(read) : read'[j] = read[j]
         /\ read'[Len(read')] = [line |-> l, words |-> ws]
<1>1. [line |-> l, words |-> ws] \in ReadType
  BY DEF Takes, ReadType
<1>2. read' = Append(read, [line |-> l, words |-> ws])
  BY DEF Takes
<1> DEFINE r == [line |-> l, words |-> ws]
<1>3. r \in ReadType /\ read' = Append(read, r)
  BY <1>1, <1>2
<1> HIDE DEF r
<1>4. /\ read' \in Seq(ReadType)
      /\ Len(read) \in Nat
      /\ Len(read') = Len(read) + 1
      /\ \A j \in 1..Len(read) : read'[j] = read[j]
      /\ read'[Len(read) + 1] = r
  BY <1>3, AppendProperties, LenProperties
<1>5. QED  BY <1>4 DEF r

\* A line of another time or about another thing than the lines before it cannot
\* bring a time into its series that is there already.
LEMMA DatedStep ==
  ASSUME read \in Seq(ReadType), SeriesTyped, Dated,
         NEW l, NEW ws, Takes(l, ws), Once => Untimely(l), Once' => Once
  PROVE  Dated'
<1> DEFINE n == Len(read)
<1>1. /\ n \in Nat /\ Len(read') = n + 1
      /\ \A j \in 1..n : read'[j] = read[j]
      /\ read'[n + 1] = [line |-> l, words |-> ws]
  BY ReadGrows
<1>2. /\ l \in Line /\ Shaped(l.sample) /\ ws \in Seq(Word)
      /\ IF OutOfRange(ws) THEN UNCHANGED raw_data ELSE Store(ws)
  BY DEF Takes
<1>3. SUFFICES ASSUME AllRegular', Once'
               PROVE  \A k \in DOMAIN raw_data' :
                        LET s == raw_data'[k].series
                        IN /\ \A i \in 1..Len(s) : \E j \in 1..Len(read') :
                                /\ s[i].timestamp = read'[j].line.ts
                                /\ k = KeyOf(About(read'[j].line))
                           /\ \A i, j \in 1..Len(s) :
                                s[i].timestamp = s[j].timestamp => i = j
  BY DEF Dated
<1> HIDE DEF n
<1>4. /\ \A j \in 1..n : Regular(read[j])
      /\ Regular([line |-> l, words |-> ws])
  <2>1. \A j \in 1..n + 1 : Regular(read'[j])
    BY <1>1, <1>3 DEF AllRegular, Regular
  <2>2. \A j \in 1..n : j \in 1..n + 1 /\ read'[j] = read[j]
    BY <1>1
  <2>3. n + 1 \in 1..n + 1
    BY <1>1
  <2>4. Regular(read'[n + 1])
    BY <2>1, <2>3
  <2>5. QED  BY <1>1, <2>1, <2>2, <2>4
<1>5. Plain(l) /\ ws = Words(l)
  BY <1>4 DEF Regular
<1>6. AllRegular /\ Once /\ Untimely(l)
  BY <1>3, <1>4 DEF AllRegular, n
<1>7. ASSUME NEW k \in DOMAIN raw_data
      PROVE  LET s == raw_data[k].series
             IN /\ \A i \in 1..Len(s) : \E j \in 1..n + 1 :
                     s[i].timestamp = read'[j].line.ts /\ k = KeyOf(About(read'[j].line))
                /\ \A i \in 1..Len(s) : \E j \in 1..n :
                     s[i].timestamp = read[j].line.ts /\ k = KeyOf(About(read[j].line))
                /\ \A i, j \in 1..Len(s) : s[i].timestamp = s[j].timestamp => i = j
  <2> DEFINE s == raw_data[k].series
  <2>1. /\ \A i \in 1..Len(s) : \E j \in 1..n :
             s[i].timestamp = read[j].line.ts /\ k = KeyOf(About(read[j].line))
        /\ \A i, j \in 1..Len(s) : s[i].timestamp = s[j].timestamp => i = j
    BY <1>6, <1>7 DEF Dated, n
  <2> HIDE DEF s
  <2>2. ASSUME NEW i \in 1..Len(s)
        PROVE  \E j \in 1..n + 1 :
                 s[i].timestamp = read'[j].line.ts /\ k = KeyOf(About(read'[j].line))
    <3>1. PICK j \in 1..n :
            s[i].timestamp = read[j].line.ts /\ k = KeyOf(About(read[j].line))
      BY <2>1
    <3>2. j \in 1..n + 1 /\ read'[j] = read[j]
      BY <1>1
    <3>3. QED  BY <3>1, <3>2
  <2>3. QED  BY <2>1, <2>2 DEF s
<1>8. CASE OutOfRange(ws)
  <2>1. raw_data' = raw_data
    BY <1>2, <1>8
  <2>2. QED  BY <1>1, <1>7, <2>1
<1>9. CASE ~OutOfRange(ws)
  <2> DEFINE key == <<ws[2], InstanceName(ws)>>
             old == IF key \in DOMAIN raw_data THEN raw_data[key].series ELSE <<>>
  <2>1. /\ DOMAIN raw_data' = DOMAIN raw_data \cup {key}
        /\ old \in Seq(EntryType)
        /\ \E entry \in EntryType :
             entry.timestamp = ws[1] /\ raw_data'[key].series = Append(old, entry)
        /\ \A k \in DOMAIN raw_data : k # key => raw_data'[k] = raw_data[k]
    BY <1>2, <1>9, StoreOne
  <2>2. key = KeyOf(About(l)) /\ ws[1] = l.ts
    BY <1>2, <1>5, KeyOfWords, WordsType
  <2>3. /\ \A i \in 1..Len(old) : \E j \in 1..n :
             old[i].timestamp = read[j].line.ts /\ key = KeyOf(About(read[j].line))
        /\ \A i, j \in 1..Len(old) : old[i].timestamp = old[j].timestamp => i = j
    <3>1. CASE key \in DOMAIN raw_data
      <4>1. old = raw_data[key].series
        BY <3>1
      <4> HIDE DEF key, old
      <4>2. QED  BY <1>7, <3>1, <4>1
    <3>2. CASE key \notin DOMAIN raw_data
      <4>1. old = <<>>
        BY <3>2
      <4> HIDE DEF key, old
      <4>2. QED  BY <4>1
    <3>3. QED  BY <3>1, <3>2
  <2> HIDE DEF key, old
  <2>4. \A i \in 1..Len(old) : old[i].timestamp # l.ts
    <3>1. SUFFICES ASSUME NEW i \in 1..Len(old), old[i].timestamp = l.ts
                   PROVE  FALSE
      OBVIOUS
    <3>2. PICK j \in 1..n :
            old[i].timestamp = read[j].line.ts /\ key = KeyOf(About(read[j].line))
      BY <2>3
    <3>3. read[j].line \in Line /\ Plain(read[j].line)
      <4>1. read[j] \in ReadType
        BY DEF n
      <4>2. QED  BY <1>4, <4>1 DEF ReadType, Regular
    <3>4. About(read[j].line) = About(l)
      BY <1>2, <1>5, <2>2, <3>2, <3>3, KeyDetermines
    <3>5. QED  BY <1>6, <3>1, <3>2, <3>4 DEF Untimely, n
  <2>5. PICK entry \in EntryType :
          entry.timestamp = l.ts /\ raw_data'[key].series = Append(old, entry)
    BY <2>1, <2>2
  <2> DEFINE s == raw_data'[key].series
  <2>6. /\ Len(old) \in Nat /\ Len(s) = Len(old) + 1
        /\ \A i \in 1..Len(old) : s[i] = old[i]
        /\ s[Len(old) + 1] = entry
    <3>1. s = Append(old, entry)
      BY <2>5
    <3> HIDE DEF s
    <3>2. QED  BY <2>1, <3>1, AppendProperties, LenProperties
  <2> HIDE DEF s
  <2>7. ASSUME NEW i \in 1..Len(s)
        PROVE  \E j \in 1..n + 1 :
                 s[i].timestamp = read'[j].line.ts /\ key = KeyOf(About(read'[j].line))
    <3>1. CASE i \in 1..Len(old)
      <4>1. PICK j \in 1..n :
              old[i].timestamp = read[j].line.ts /\ key = KeyOf(About(read[j].line))
        BY <2>3, <3>1
      <4>2. j \in 1..n + 1 /\ read'[j] = read[j] /\ s[i] = old[i]
        BY <1>1, <2>6, <3>1
      <4>3. QED  BY <4>1, <4>2
    <3>2. CASE i \notin 1..Len(old)
      <4>1. s[i] = entry
        <5>1. i = Len(old) + 1
          BY <2>6, <2>7, <3>2
        <5>2. QED  BY <2>6, <5>1
      <4>2. n + 1 \in 1..n + 1 /\ read'[n + 1].line = l
        BY <1>1
      <4>3. QED  BY <2>2, <2>5, <4>1, <4>2
    <3>3. QED  BY <3>1, <3>2
  <2>8. ASSUME NEW i \in 1..Len(s), NEW j \in 1..Len(s),
               s[i].timestamp = s[j].timestamp
        PROVE  i = j
    <3>1. /\ i \in 1..Len(old) \/ i = Len(old) + 1
          /\ j \in 1..Len(old) \/ j = Len(old) + 1
      BY <2>6
    <3>2. CASE i \in 1..Len(old) /\ j \in 1..Len(old)
      <4>1. old[i].timestamp = old[j].timestamp
        BY <2>6, <2>8, <3>2
      <4>2. QED  BY <2>3, <3>2, <4>1
    <3>3. CASE i \in 1..Len(old) /\ j = Len(old) + 1
      <4>1. s[i] = old[i] /\ s[j] = entry
        BY <2>6, <3>3
      <4>2. QED  BY <2>4, <2>5, <2>8, <3>3, <4>1
    <3>4. CASE j \in 1..Len(old) /\ i = Len(old) + 1
      <4>1. s[j] = old[j] /\ s[i] = entry
        BY <2>6, <3>4
      <4>2. QED  BY <2>4, <2>5, <2>8, <3>4, <4>1
    <3>5. QED  BY <3>1, <3>2, <3>3, <3>4
  <2>9. ASSUME NEW k \in DOMAIN raw_data'
        PROVE  LET t == raw_data'[k].series
               IN /\ \A i \in 1..Len(t) : \E j \in 1..Len(read') :
                       /\ t[i].timestamp = read'[j].line.ts
                       /\ k = KeyOf(About(read'[j].line))
                  /\ \A i, j \in 1..Len(t) :
                       t[i].timestamp = t[j].timestamp => i = j
    <3>1. CASE k = key
      BY <1>1, <2>7, <2>8, <3>1 DEF s
    <3>2. CASE k # key
      <4>1. k \in DOMAIN raw_data /\ raw_data'[k] = raw_data[k]
        BY <2>1, <3>2
      <4>2. QED  BY <1>1, <1>7, <4>1
    <3>3. QED  BY <3>1, <3>2
  <2>10. QED  BY <2>9
<1>10. QED  BY <1>8, <1>9

IInv ==
  /\ TypeOK
  /\ Printed
  /\ Inside
  /\ Origin
  /\ Dated
  /\ UndefinedOnlyIf

\* The parts of TypeOK.
LEMMA Types ==
  TypeOK <=>
    /\ JournalTypeOK
    /\ older \in Recordings
    /\ file \in {1, 2}
    /\ at \in Nat
    /\ status \in {"reading", "parsed", "undefined"}
    /\ read \in Seq(ReadType)
    /\ SeriesTyped
BY DEF TypeOK, SeriesTyped, ReadType, EntryType

\* Either file is made of lines, and ends at a place of one.
LEMMA ContentsType ==
  ASSUME TypeOK, Printed
  PROVE  /\ Contents.lines \in Seq(Line)
         /\ EndsIn(Contents.written, Contents.lines)
         /\ \A i \in 1..Len(Contents.lines) : Shaped(Contents.lines[i].sample)
         /\ Contents.written.whole \in Nat
         /\ Len(Contents.lines) \in Nat
<1>1. CASE file = 1
  <2>1. Contents = older /\ older \in Recordings
    BY <1>1, Types DEF Contents
  <2>2. older.lines \in Seq(Line) /\ older.written.whole \in Nat
    BY <2>1, SummarizeAssumption
  <2>3. /\ EndsIn(older.written, older.lines)
        /\ \A i \in 1..Len(older.lines) : Shaped(older.lines[i].sample)
    BY <2>1, SummarizeAssumption
  <2>4. QED  BY <2>1, <2>2, <2>3, LenProperties
<1>2. CASE file # 1
  <2>1. Contents.lines = emitted /\ Contents.written = written
    BY <1>2 DEF Contents
  <2>2. emitted \in Seq(Line) /\ written.whole \in Nat
    BY Types DEF JournalTypeOK
  <2>3. QED  BY <2>1, <2>2, LenProperties DEF Printed
<1>3. QED  BY <1>1, <1>2

\* The next line has no other before it of its time about the same thing.
LEMMA NextLine ==
  ASSUME TypeOK, Printed, Origin, status = "reading", at < Len(Contents.lines)
  PROVE  /\ Contents.lines[at + 1] \in Line
         /\ Shaped(Contents.lines[at + 1].sample)
         /\ Once => Untimely(Contents.lines[at + 1])
<1> DEFINE ls == Contents.lines
           l == ls[at + 1]
<1>1. /\ ls \in Seq(Line) /\ Len(ls) \in Nat /\ at \in Nat
      /\ \A i \in 1..Len(ls) : Shaped(ls[i].sample)
  BY ContentsType, Types
<1>2. at + 1 \in 1..Len(ls)
  BY <1>1
<1>3. l \in Line /\ Shaped(l.sample)
  BY <1>1, <1>2
<1>4. older \in Recordings /\ file \in {1, 2}
  BY Types
<1>5. \A i \in 1..Len(older.lines) : \A n \in 1..Len(Times) :
        older.lines[i].ts # Times[n]
  BY <1>4, SummarizeAssumption
<1>6. ASSUME Once, NEW j \in 1..Len(read),
             read[j].line.ts = l.ts, About(read[j].line) = About(l)
      PROVE  FALSE
  <2>1. \/ \E i \in 1..Len(older.lines) :
             read[j].line = older.lines[i] /\ (file = 1 => i <= at)
        \/ file = 2 /\ \E i \in 1..Len(emitted) : read[j].line = emitted[i] /\ i <= at
    BY DEF Origin
  <2>2. CASE file = 1
    <3>1. ls = older.lines
      BY <2>2 DEF Contents
    <3>2. PICK i \in 1..Len(older.lines) : read[j].line = older.lines[i] /\ i <= at
      BY <2>1, <2>2
    <3>3. i # at + 1
      BY <1>1, <3>2
    <3>4. QED  BY <1>2, <1>6, <3>1, <3>2, <3>3 DEF Once, NamedOnce
  <2>3. CASE file = 2
    <3>1. ls = emitted
      BY <2>3 DEF Contents
    <3>2. PICK n \in 1..NTicks : l.ts = Times[n]
      BY <1>2, <3>1 DEF Printed
    <3>3. n \in 1..Len(Times)
      BY TimesType DEF Printed
    <3>4. CASE \E i \in 1..Len(older.lines) : read[j].line = older.lines[i]
      BY <1>5, <1>6, <3>2, <3>3, <3>4
    <3>5. CASE \E i \in 1..Len(emitted) : read[j].line = emitted[i] /\ i <= at
      <4>1. PICK i \in 1..Len(emitted) : read[j].line = emitted[i] /\ i <= at
        BY <3>5
      <4>2. i # at + 1
        BY <1>1, <4>1
      <4>3. QED  BY <1>2, <1>6, <3>1, <4>1, <4>2 DEF Once, NamedOnce
    <3>6. QED  BY <2>1, <3>4, <3>5
  <2>4. QED  BY <1>4, <2>2, <2>3
<1>7. QED  BY <1>3, <1>6 DEF Untimely

-----------------------------------------------------------------------------
(***************************************************************************)
(* The steps.                                                              *)
(***************************************************************************)

LEMMA InitIInv ==
  ASSUME Init
  PROVE  IInv
<1>1. /\ recording = "runs" /\ emitted = <<>>
      /\ written.whole = 0 /\ written.place = 0
  BY DEF Init, JournalInit
<1>2. /\ older \in Recordings /\ file = 1 /\ at = 0 /\ raw_data = <<>>
      /\ status = "reading" /\ read = <<>>
  BY DEF Init
<1>3. JournalTypeOK
  BY <1>1 DEF JournalTypeOK
<1>4. Printed
  BY <1>1, TimesType DEF Printed, NTicks, EndsIn
<1>5. TypeOK
  <2>1. SeriesTyped /\ read \in Seq(ReadType)
    BY <1>2 DEF SeriesTyped
  <2>2. QED  BY <1>2, <1>3, <2>1, Types
<1>6. Inside
  BY <1>2, <1>4, <1>5, ContentsType DEF Inside
<1>7. Origin /\ Dated /\ UndefinedOnlyIf
  BY <1>2 DEF Origin, Dated, UndefinedOnlyIf
<1>8. QED  BY <1>4, <1>5, <1>6, <1>7 DEF IInv

\* A tick that is reported later does not undo a repetition.
LEMMA OnceBefore ==
  ASSUME JournalTypeOK, JournalTypeOK', Grows, UNCHANGED older, Once'
  PROVE  Once
<1>1. NamedOnce(older.lines)
  BY DEF Once, NamedOnce, About
<1>2. Len(emitted) \in Nat /\ Len(emitted') \in Nat
  BY LenProperties DEF JournalTypeOK
<1>3. \A i \in 1..Len(emitted) : i \in 1..Len(emitted') /\ emitted'[i] = emitted[i]
  BY <1>2 DEF Grows
<1>4. NamedOnce(emitted')
  BY DEF Once, NamedOnce, About
<1>5. NamedOnce(emitted)
  BY <1>3, <1>4 DEF NamedOnce, About
<1>6. QED  BY <1>1, <1>5 DEF Once

\* While the recording goes on, what is read stays read.
LEMMA WriterStep ==
  ASSUME IInv, JournalNext \/ UNCHANGED journalVars, UNCHANGED readerVars
  PROVE  IInv'
<1>1. /\ JournalTypeOK' /\ Printed' /\ Grows
  BY JournalStep, Types DEF IInv
<1>2. /\ older' = older /\ file' = file /\ at' = at /\ raw_data' = raw_data
      /\ status' = status /\ read' = read
  BY DEF readerVars
<1>3. TypeOK'
  <2>1. SeriesTyped'
    BY <1>2, Types DEF IInv, SeriesTyped
  <2>2. QED  BY <1>1, <1>2, <2>1, Types DEF IInv, TypeOK, SeriesTyped, EntryType
<1>4. Inside'
  <2>1. at \in Nat /\ Contents.written.whole \in Nat /\ at <= Contents.written.whole
    BY Types, ContentsType DEF IInv, Inside
  <2>2. Contents'.written.whole \in Nat
    <3>1. CASE file = 1
      BY <1>2, <2>1, <3>1 DEF Contents
    <3>2. CASE file # 1
      BY <1>1, <1>2, <3>2 DEF Contents, JournalTypeOK
    <3>3. QED  BY <3>1, <3>2
  <2>3. Contents.written.whole <= Contents'.written.whole
    <3>1. CASE file = 1
      BY <1>2, <2>1, <3>1 DEF Contents
    <3>2. CASE file # 1
      BY <1>1, <1>2, <3>2 DEF Contents, Grows
    <3>3. QED  BY <3>1, <3>2
  <2>4. QED  BY <1>2, <2>1, <2>2, <2>3 DEF Inside
<1>5. Origin'
  <2>1. SUFFICES ASSUME status = "reading", NEW j \in 1..Len(read)
                 PROVE  \/ \E i \in 1..Len(older.lines) :
                             read[j].line = older.lines[i] /\ (file = 1 => i <= at)
                        \/ file = 2 /\ \E i \in 1..Len(emitted') :
                             read[j].line = emitted'[i] /\ i <= at
    BY <1>2 DEF Origin
  <2>2. CASE \E i \in 1..Len(older.lines) :
               read[j].line = older.lines[i] /\ (file = 1 => i <= at)
    BY <2>2
  <2>3. ASSUME file = 2,
               NEW i \in 1..Len(emitted), read[j].line = emitted[i], i <= at
        PROVE  \E k \in 1..Len(emitted') : read[j].line = emitted'[k] /\ k <= at
    <3>1. Len(emitted) \in Nat /\ Len(emitted') \in Nat
      BY <1>1, Types, LenProperties DEF IInv, JournalTypeOK
    <3>2. i \in 1..Len(emitted') /\ emitted'[i] = emitted[i]
      BY <1>1, <3>1 DEF Grows
    <3>3. QED  BY <2>3, <3>2
  <2>4. QED  BY <2>1, <2>2, <2>3 DEF IInv, Origin
<1>6. Dated'
  <2>1. Once' => Once
    BY <1>1, <1>2, OnceBefore, Types DEF IInv
  <2>2. QED  BY <1>2, <2>1 DEF IInv, Dated, AllRegular, Regular
<1>7. UndefinedOnlyIf'
  BY <1>2 DEF IInv, UndefinedOnlyIf
<1>8. QED  BY <1>1, <1>3, <1>4, <1>5, <1>6, <1>7 DEF IInv

\* What the two ways to read a line have in common.
LEMMA TakeStep ==
  ASSUME IInv, UNCHANGED <<older, journalVars>>, status = "reading",
         NEW l, NEW ws, Takes(l, ws), Once => Untimely(l), file' \in {1, 2}, at' \in Nat,
         status' \in {"reading", "parsed", "undefined"},
         status' = "undefined" => OutOfRange(ws)
  PROVE  TypeOK' /\ Printed' /\ Dated' /\ UndefinedOnlyIf'
<1>1. JournalTypeOK' /\ Printed'
  BY JournalStep, Types DEF IInv
<1>2. /\ read' \in Seq(ReadType)
      /\ read'[Len(read')] = [line |-> l, words |-> ws]
  BY ReadGrows, Types DEF IInv
<1>3. SeriesTyped /\ read \in Seq(ReadType) /\ older \in Recordings
  BY Types DEF IInv
<1>4. SeriesTyped'
  <2>1. CASE OutOfRange(ws)
    <3>1. raw_data' = raw_data
      BY <2>1 DEF Takes
    <3>2. QED  BY <1>3, <3>1 DEF SeriesTyped
  <2>2. CASE ~OutOfRange(ws)
    <3>1. ws \in Seq(Word) /\ Store(ws)
      BY <2>2 DEF Takes
    <3>2. QED  BY <1>3, <2>2, <3>1, StoreOne
  <2>3. QED  BY <2>1, <2>2
<1>5. TypeOK'
  BY <1>1, <1>2, <1>3, <1>4 DEF TypeOK, SeriesTyped, ReadType, EntryType
<1>6. Dated'
  <2>1. Once' => Once
    BY DEF Once, NamedOnce, About, journalVars
  <2>2. QED  BY <1>3, <2>1, DatedStep DEF IInv
<1>7. UndefinedOnlyIf'
  <2>1. SUFFICES ASSUME OutOfRange(ws), ws = Words(l)
                 PROVE  \E i \in 1..Len(l.sample.names) : l.sample.names[i] = <<>>
    BY <1>2 DEF UndefinedOnlyIf
  <2>2. l \in Line /\ Shaped(l.sample)
    BY DEF Takes
  <2>3. QED  BY <2>1, <2>2, WholeLineInRange
<1>8. QED  BY <1>1, <1>5, <1>6, <1>7

LEMMA ReadLineStep ==
  ASSUME IInv, ReadLine
  PROVE  IInv'
<1> DEFINE l == Contents.lines[at + 1]
           ws == Words(l)
<1>1. /\ TypeOK /\ Printed /\ Origin
  BY DEF IInv
<1>2. /\ status = "reading" /\ at < Contents.written.whole
      /\ at' = at + 1 /\ UNCHANGED <<older, file, journalVars>>
      /\ read' = Append(read, [line |-> l, words |-> ws])
      /\ IF OutOfRange(ws)
           THEN status' = "undefined" /\ UNCHANGED raw_data
           ELSE Store(ws) /\ UNCHANGED status
  BY DEF ReadLine
<1>3. /\ at \in Nat /\ file \in {1, 2} /\ read \in Seq(ReadType)
      /\ Contents.written.whole \in Nat
      /\ at < Len(Contents.lines) /\ Len(Contents.lines) \in Nat
  BY <1>1, <1>2, Types, ContentsType DEF EndsIn
<1>4. l \in Line /\ Shaped(l.sample) /\ (Once => Untimely(l))
  BY <1>1, <1>2, <1>3, NextLine
<1>5. ws \in Seq(Word)
  BY <1>4, WordsType
<1>6. Takes(l, ws)
  BY <1>2, <1>4, <1>5 DEF Takes
<1>7. Contents' = Contents
  BY <1>2 DEF Contents, journalVars
<1>8. l = IF file = 1 THEN older.lines[at + 1] ELSE emitted[at + 1]
  BY DEF Contents
<1>9. Len(Contents.lines) = IF file = 1 THEN Len(older.lines) ELSE Len(emitted)
  BY DEF Contents
<1> HIDE DEF l, ws
<1>10. TypeOK' /\ Printed' /\ Dated' /\ UndefinedOnlyIf'
  <2>1. status' \in {"reading", "parsed", "undefined"}
    BY <1>2
  <2>2. status' = "undefined" => OutOfRange(ws)
    BY <1>2
  <2>3. file' \in {1, 2} /\ at' \in Nat /\ UNCHANGED <<older, journalVars>>
    BY <1>2, <1>3
  <2>4. QED  BY <1>2, <1>4, <1>6, <2>1, <2>2, <2>3, TakeStep
<1>11. Inside'
  BY <1>2, <1>3, <1>7 DEF Inside
<1>12. Origin'
  <2> DEFINE n == Len(read)
  <2>1. /\ n \in Nat /\ Len(read') = n + 1
        /\ \A j \in 1..n : read'[j] = read[j]
        /\ read'[n + 1].line = l
    <3>1. /\ n \in Nat /\ Len(read') = n + 1
          /\ \A j \in 1..n : read'[j] = read[j]
          /\ read'[Len(read')] = [line |-> l, words |-> ws]
      BY <1>3, <1>6, ReadGrows
    <3>2. QED  BY <3>1
  <2>2. SUFFICES ASSUME NEW j \in 1..n + 1
                 PROVE  \/ \E i \in 1..Len(older.lines) :
                             read'[j].line = older.lines[i] /\ (file = 1 => i <= at + 1)
                        \/ file = 2 /\ \E i \in 1..Len(emitted) :
                             read'[j].line = emitted[i] /\ i <= at + 1
    BY <1>2, <2>1 DEF Origin, journalVars
  <2>3. CASE j \in 1..n
    <3>1. \/ \E i \in 1..Len(older.lines) :
               read[j].line = older.lines[i] /\ (file = 1 => i <= at)
          \/ file = 2 /\ \E i \in 1..Len(emitted) :
               read[j].line = emitted[i] /\ i <= at
      BY <1>1, <1>2, <2>3 DEF Origin
    <3>2. read'[j] = read[j]
      BY <2>1, <2>3
    <3>3. \A i \in Nat : i <= at => i <= at + 1
      BY <1>3
    <3>4. CASE \E i \in 1..Len(older.lines) :
                 read[j].line = older.lines[i] /\ (file = 1 => i <= at)
      BY <3>2, <3>3, <3>4
    <3>5. CASE file = 2 /\ \E i \in 1..Len(emitted) :
                 read[j].line = emitted[i] /\ i <= at
      BY <3>2, <3>3, <3>5
    <3>6. QED  BY <3>1, <3>4, <3>5
  <2>4. CASE j = n + 1
    <3>1. read'[j].line = l
      BY <2>1, <2>4
    <3>2. at + 1 \in 1..Len(Contents.lines) /\ at + 1 <= at + 1
      BY <1>3
    <3>3. CASE file = 1
      BY <1>8, <1>9, <3>1, <3>2, <3>3
    <3>4. CASE file = 2
      BY <1>8, <1>9, <3>1, <3>2, <3>4
    <3>5. QED  BY <1>3, <3>3, <3>4
  <2>5. QED  BY <2>1, <2>2, <2>3, <2>4
<1>13. QED  BY <1>10, <1>11, <1>12 DEF IInv

\* The first file ends where the second begins.
LEMMA SecondFile ==
  ASSUME IInv, TypeOK', Printed', UNCHANGED <<older, journalVars>>,
         NextFile, status = "reading"
  PROVE  Inside'
<1>1. CASE file = 1
  <2>1. file' = 2 /\ at' = 0
    BY <1>1 DEF NextFile
  <2>2. Contents'.written.whole = written'.whole
    BY <2>1 DEF Contents
  <2>3. written'.whole \in Nat
    BY DEF TypeOK, JournalTypeOK
  <2>4. QED  BY <2>1, <2>2, <2>3 DEF Inside
<1>2. CASE file # 1
  <2>1. at' = at /\ Contents' = Contents
    BY <1>2 DEF NextFile, Contents, journalVars
  <2>2. QED  BY <2>1 DEF IInv, Inside
<1>3. QED  BY <1>1, <1>2

LEMMA ReadCutLineStep ==
  ASSUME IInv, ReadCutLine
  PROVE  IInv'
<1> DEFINE l == Contents.lines[at + 1]
           ws == WordsUpTo(l, Contents.written.place)
<1>1. TypeOK /\ Printed /\ Origin /\ Inside
  BY DEF IInv
<1>2. /\ status = "reading" /\ at = Contents.written.whole
      /\ Contents.written.place > 0
      /\ UNCHANGED <<older, journalVars>>
      /\ read' = Append(read, [line |-> l, words |-> ws])
      /\ IF OutOfRange(ws)
           THEN status' = "undefined" /\ UNCHANGED <<raw_data, file, at>>
           ELSE Store(ws) /\ NextFile
  BY DEF ReadCutLine
<1>3. /\ at \in Nat /\ file \in {1, 2} /\ read \in Seq(ReadType)
      /\ at < Len(Contents.lines)
      /\ Contents.written.place \in Places(l)
  BY <1>1, <1>2, Types, ContentsType DEF EndsIn
<1>4. l \in Line /\ Shaped(l.sample) /\ (Once => Untimely(l))
  BY <1>1, <1>2, <1>3, NextLine
<1>5. ws \in Seq(Word)
  BY <1>3, <1>4, CutType
<1>6. Takes(l, ws)
  BY <1>2, <1>4, <1>5 DEF Takes
<1>8. file = 1 => l = older.lines[at + 1] /\ at + 1 \in 1..Len(older.lines)
  <2>1. file = 1 => Contents.lines = older.lines
    BY DEF Contents
  <2>2. at + 1 \in 1..Len(Contents.lines)
    BY <1>1, <1>3, ContentsType
  <2>3. QED  BY <2>1, <2>2
<1> HIDE DEF l, ws
<1>9. /\ file' \in {1, 2} /\ at' \in Nat
      /\ status' \in {"reading", "parsed", "undefined"}
      /\ status' = "undefined" => OutOfRange(ws)
      /\ status' = "reading" => file = 1 /\ file' = 2
  BY <1>2, <1>3 DEF NextFile
<1>10. TypeOK' /\ Printed' /\ Dated' /\ UndefinedOnlyIf'
  BY <1>2, <1>4, <1>6, <1>9, TakeStep
<1>11. Inside'
  <2>1. CASE OutOfRange(ws)
    <3>1. at' = at /\ Contents' = Contents
      BY <1>2, <2>1 DEF Contents, journalVars
    <3>2. QED  BY <1>1, <3>1 DEF Inside
  <2>2. QED  BY <1>2, <1>10, <2>1, SecondFile
<1>12. Origin'
  <2> DEFINE n == Len(read)
  <2>1. /\ n \in Nat /\ Len(read') = n + 1
        /\ \A j \in 1..n : read'[j] = read[j]
        /\ read'[n + 1].line = l
    <3>1. /\ n \in Nat /\ Len(read') = n + 1
          /\ \A j \in 1..n : read'[j] = read[j]
          /\ read'[Len(read')] = [line |-> l, words |-> ws]
      BY <1>3, <1>6, ReadGrows
    <3>2. QED  BY <3>1
  <2>2. SUFFICES ASSUME file = 1, file' = 2, NEW j \in 1..n + 1
                 PROVE  \E i \in 1..Len(older.lines) : read'[j].line = older.lines[i]
    BY <1>2, <1>9, <2>1 DEF Origin
  <2>3. CASE j \in 1..n
    <3>1. \E i \in 1..Len(older.lines) : read[j].line = older.lines[i]
      BY <1>1, <1>2, <2>2, <2>3 DEF Origin
    <3>2. QED  BY <2>1, <2>3, <3>1
  <2>4. CASE j = n + 1
    BY <1>8, <2>1, <2>2, <2>4
  <2>5. QED  BY <2>1, <2>2, <2>3, <2>4
<1>13. QED  BY <1>10, <1>11, <1>12 DEF IInv

LEMMA EndOfFileStep ==
  ASSUME IInv, EndOfFile
  PROVE  IInv'
<1>1. /\ status = "reading" /\ NextFile
      /\ UNCHANGED <<older, journalVars>> /\ raw_data' = raw_data /\ read' = read
  BY DEF EndOfFile
<1>2. /\ older \in Recordings /\ file \in {1, 2} /\ at \in Nat
      /\ read \in Seq(ReadType) /\ SeriesTyped
  BY Types DEF IInv
<1>3. /\ file' \in {1, 2} /\ at' \in Nat
      /\ status' \in {"reading", "parsed"}
      /\ status' = "reading" => file = 1 /\ file' = 2
  BY <1>1, <1>2 DEF NextFile
<1>4. JournalTypeOK' /\ Printed'
  BY <1>1, JournalStep, Types DEF IInv
<1>5. TypeOK'
  <2>1. SeriesTyped'
    BY <1>1, <1>2 DEF SeriesTyped
  <2>2. status' \in {"reading", "parsed", "undefined"}
    BY <1>3
  <2>3. QED  BY <1>1, <1>2, <1>3, <1>4, <2>1, <2>2 DEF TypeOK, SeriesTyped, ReadType, EntryType
<1>6. Inside'
  BY <1>1, <1>4, <1>5, SecondFile
<1>7. Origin'
  BY <1>1, <1>3 DEF IInv, Origin
<1>8. Dated'
  <2>1. Once' => Once
    BY <1>1 DEF Once, NamedOnce, About, journalVars
  <2>2. QED  BY <1>1, <2>1 DEF IInv, Dated, AllRegular, Regular
<1>9. UndefinedOnlyIf'
  BY <1>3 DEF UndefinedOnlyIf
<1>10. QED  BY <1>4, <1>5, <1>6, <1>7, <1>8, <1>9 DEF IInv

LEMMA NextIInv ==
  ASSUME IInv, [Next]_vars
  PROVE  IInv'
<1>1. CASE UNCHANGED vars
  <2>1. UNCHANGED journalVars /\ UNCHANGED readerVars
    BY <1>1 DEF vars
  <2>2. QED  BY <2>1, WriterStep
<1>2. CASE JournalNext /\ UNCHANGED readerVars
  BY <1>2, WriterStep
<1>3. CASE Ended
  <2>1. UNCHANGED journalVars /\ UNCHANGED readerVars
    BY <1>3 DEF Ended, vars
  <2>2. QED  BY <2>1, WriterStep
<1>4. QED
  BY <1>1, <1>2, <1>3, ReadLineStep, ReadCutLineStep, EndOfFileStep DEF Next

LEMMA Invariant == Spec => []IInv
<1>1. Init => IInv
  BY InitIInv
<1>2. IInv /\ [Next]_vars => IInv'
  BY NextIInv
<1>3. QED  BY <1>1, <1>2, PTL DEF Spec

-----------------------------------------------------------------------------
\* Type correctness of the recording and its reader, for files of any length; the
\* entries of a series are a time and a number wherever a line is cut.
THEOREM TypeCorrect == Spec => []TypeOK
<1>1. IInv => TypeOK
  BY DEF IInv
<1>2. QED  BY <1>1, Invariant, PTL

\* parse_one_file leaves its vector of words only in a line that is cut off or has
\* an empty comm, whatever the recordings hold.
THEOREM UndefinedOnlyIfHolds == Spec => []UndefinedOnlyIf
<1>1. IInv => UndefinedOnlyIf
  BY DEF IInv
<1>2. QED  BY <1>1, Invariant, PTL

\* compute_derive divides by 0 only if a metric was named twice or a name is not
\* one word: otherwise no two entries of a series have one time, over both files.
THEOREM NeighboursDifferHolds == Spec => []NeighboursDiffer
<1>1. IInv => NeighboursDiffer
  <2>1. SUFFICES ASSUME IInv, AllRegular, Once, NEW k \in DOMAIN raw_data,
                        NEW i \in 1..Len(raw_data[k].series) - 1
                 PROVE  raw_data[k].series[i].timestamp
                          # raw_data[k].series[i + 1].timestamp
    BY DEF NeighboursDiffer, Once
  <2> DEFINE s == raw_data[k].series
  <2>2. Len(s) \in Nat
    BY <2>1, Types, LenProperties DEF IInv, SeriesTyped
  <2>3. i \in 1..Len(s) /\ i + 1 \in 1..Len(s) /\ i # i + 1
    BY <2>2
  <2>4. \A a, b \in 1..Len(s) : s[a].timestamp = s[b].timestamp => a = b
    BY <2>1 DEF IInv, Dated
  <2>5. QED  BY <2>3, <2>4
<1>2. QED  BY <1>1, Invariant, PTL

-----------------------------------------------------------------------------
(***************************************************************************)
(* What becomes of the samples.                                            *)
(***************************************************************************)

\* The last word of a plain line is where parse_one_file looks for the value.
LEMMA ValueOfWords ==
  ASSUME NEW l \in Line, Shaped(l.sample), Plain(l)
  PROVE  /\ ~OutOfRange(Words(l))
         /\ Values(Words(l)) = {l.sample.value}
<1> DEFINE s == l.sample
           ws == Words(l)
           n == Len(NameWords(s))
<1>1. s \in Sample /\ s.value \in Numbers
  BY DEF Line, Shaped
<1>2. s.names \in Seq(Seq(Word))
  BY <1>1 DEF Sample
<1>3. \A i \in 1..Len(s.names) : s.names[i] \in Seq(Word) /\ Len(s.names[i]) = 1
  BY <1>2 DEF Plain
<1>4. ~OutOfRange(ws)
  <2>1. ASSUME NEW i \in 1..Len(s.names)
        PROVE  s.names[i] # <<>>
    <3>1. PICK a \in Seq(Word) : a = s.names[i] /\ Len(a) = 1
      BY <1>3
    <3>2. Len(<<>>) = 0
      OBVIOUS
    <3>3. a # <<>>
      <4>1. Len(a) # Len(<<>>)
        BY <3>1, <3>2
      <4>2. QED  BY <4>1, Zenon
    <3>4. QED  BY <3>1, <3>3
  <2>2. QED  BY <2>1, WholeLineInRange
<1>5. /\ NameWords(s) \in Seq(Word) /\ n \in Nat
      /\ ws[2] = s.metric
      /\ Len(ws) = n + 4
  BY <1>1, NameWordsType, WordsType
<1>6. Class(ws) = s.metric[1]
  BY <1>5 DEF Class
<1>7. ws[n + 4] = s.value
  <2> DEFINE front == <<l.ts, s.metric, s.stat_type>>
  <2>1. front \in Seq(Word) /\ Len(front) = 3
    BY <1>1 DEF Line, Sample
  <2>2. <<s.value>> \in Seq(Word) /\ Len(<<s.value>>) = 1 /\ <<s.value>>[1] = s.value
    BY <1>1 DEF Sample
  <2>3. ws = (front \o NameWords(s)) \o <<s.value>>
    BY DEF Words
  <2> HIDE DEF front, ws, n
  <2>4. front \o NameWords(s) \in Seq(Word) /\ Len(front \o NameWords(s)) = n + 3
    <3>1. /\ front \o NameWords(s) \in Seq(Word)
          /\ Len(front \o NameWords(s)) = Len(front) + Len(NameWords(s))
      BY <1>5, <2>1, ConcatProperties
    <3>2. QED  BY <1>5, <2>1, <3>1 DEF n
  <2>5. PICK front2 \in Seq(Word) : front2 = front \o NameWords(s)
    BY <2>4
  <2>6. (front2 \o <<s.value>>)[Len(front2) + 1] = <<s.value>>[1]
    BY <2>2, JoinOne
  <2>7. n + 3 + 1 = n + 4
    BY <1>5
  <2>8. QED  BY <2>2, <2>3, <2>4, <2>5, <2>6, <2>7
<1>8. ValueIndex(ws) = n + 4
  <2>1. CASE s.metric[1] = "system"
    <3>1. Len(s.names) = 1 /\ NameWords(s) = s.names[1]
      BY <2>1 DEF Shaped, NameWords
    <3>2. n = 1
      BY <1>3, <3>1
    <3>3. QED  BY <1>6, <2>1, <3>2 DEF ValueIndex
  <2>2. CASE s.metric[1] = "process"
    <3> DEFINE a == s.names[1]
               b == s.names[2]
    <3>1. Len(s.names) = 2 /\ NameWords(s) = a \o b
      BY <2>2 DEF Shaped, NameWords
    <3>2. a \in Seq(Word) /\ Len(a) = 1 /\ b \in Seq(Word) /\ Len(b) = 1
      BY <1>3, <3>1
    <3> HIDE DEF a, b
    <3>3. Len(a \o b) = 2
      BY <3>2, JoinOne
    <3>4. QED  BY <1>6, <2>2, <3>1, <3>3 DEF ValueIndex
  <2>3. CASE s.metric[1] = "thread"
    <3> DEFINE a == s.names[1]
               b == s.names[2]
               c == s.names[3]
               d == s.names[4]
    <3>1. Len(s.names) = 4 /\ NameWords(s) = a \o b \o c \o d
      BY <2>3 DEF Shaped, NameWords
    <3>2. /\ a \in Seq(Word) /\ Len(a) = 1 /\ b \in Seq(Word) /\ Len(b) = 1
          /\ c \in Seq(Word) /\ Len(c) = 1 /\ d \in Seq(Word) /\ Len(d) = 1
      BY <1>3, <3>1
    <3> HIDE DEF a, b, c, d
    <3>3. a \o b \in Seq(Word) /\ Len(a \o b) = 2
      BY <3>2, JoinOne
    <3>4. a \o b \o c \in Seq(Word) /\ Len(a \o b \o c) = 3
      BY <3>2, <3>3, JoinOne
    <3>5. Len(a \o b \o c \o d) = 4
      BY <3>2, <3>4, JoinOne
    <3>6. QED  BY <1>6, <2>3, <3>1, <3>5 DEF ValueIndex
  <2>4. QED  BY <2>1, <2>2, <2>3 DEF Plain
<1>9. ValueIndex(ws) # 0 /\ ws[ValueIndex(ws)] = s.value
  BY <1>5, <1>7, <1>8
<1>10. Values(ws) = {s.value}
  BY <1>1, <1>9 DEF Values
<1>11. QED  BY <1>4, <1>10

\* A plain line puts its own sample at the end of the series of what it is about.
LEMMA StorePlain ==
  ASSUME SeriesTyped, NEW l \in Line, Shaped(l.sample), Plain(l), Store(Words(l))
  PROVE  LET key == KeyOf(About(l))
             old == IF key \in DOMAIN raw_data THEN raw_data[key].series ELSE <<>>
         IN raw_data'[key].series = Append(old, Written(l))
<1> DEFINE ws == Words(l)
           key == <<ws[2], InstanceName(ws)>>
           old == IF key \in DOMAIN raw_data THEN raw_data[key].series ELSE <<>>
<1>1. key = KeyOf(About(l))
  BY KeyOfWords
<1>2. Values(ws) = {l.sample.value} /\ ws[1] = l.ts
  BY ValueOfWords, WordsType
<1>3. PICK value \in Values(ws) :
        raw_data' = [k \in DOMAIN raw_data \cup {key} |->
                       IF k = key
                         THEN [stat_type |-> ws[3],
                               series |-> Append(old, Entry(ws[1], value))]
                         ELSE raw_data[k]]
  BY DEF Store
<1>4. Entry(ws[1], value) = Written(l)
  BY <1>2 DEF Written
<1> HIDE DEF ws, key, old
<1>5. raw_data'[key].series = Append(old, Written(l))
  BY <1>3, <1>4
<1>6. QED  BY <1>1, <1>5 DEF old

\* The place k for the line after the first n.
PlaceNext(place, ours, n, k) ==
  [i \in ours \cup {n + 1} |-> IF i = n + 1 THEN k ELSE place[i]]

\* One sample more at the end of a series, for one line more.
LEMMA ArrangeOneMore ==
  ASSUME NEW old \in Seq(EntryType), NEW e \in EntryType, NEW n \in Nat,
         NEW lines, NEW more, \A i \in 1..n : more[i] = lines[i],
         NEW ours \in SUBSET (1..n), Written(more[n + 1]) = e,
         NEW place \in Arrangements(old, lines, ours)
  PROVE  PlaceNext(place, ours, n, Len(old) + 1)
           \in Arrangements(Append(old, e), more, ours \cup {n + 1})
<1> DEFINE m == Len(old)
           s == Append(old, e)
           p == [i \in ours \cup {n + 1} |-> IF i = n + 1 THEN m + 1 ELSE place[i]]
<1>1. /\ m \in Nat /\ Len(s) = m + 1 /\ DOMAIN s = 1..m + 1 /\ DOMAIN old = 1..m
      /\ \A i \in 1..m : s[i] = old[i]
      /\ s[m + 1] = e
  OBVIOUS
<1>2. /\ place \in [ours -> 1..m]
      /\ \A i, j \in ours : i < j => place[i] < place[j]
      /\ \A i \in ours : old[place[i]] = Written(lines[i])
  BY <1>1 DEF Arrangements
<1> HIDE DEF m, s
<1>3. \A i \in ours : i \in 1..n /\ i # n + 1 /\ i < n + 1 /\ ~(n + 1 < i)
  OBVIOUS
<1>4. /\ p[n + 1] = m + 1
      /\ \A i \in ours : p[i] = place[i]
  BY <1>3
<1>5. p \in [ours \cup {n + 1} -> DOMAIN s]
  <2>1. \A i \in ours : place[i] \in 1..m + 1
    BY <1>1, <1>2
  <2>2. m + 1 \in 1..m + 1
    BY <1>1
  <2>3. QED  BY <1>1, <2>1, <2>2
<1> HIDE DEF p
<1>6. ASSUME NEW i \in ours \cup {n + 1}, NEW j \in ours \cup {n + 1}, i < j
      PROVE  p[i] < p[j]
  <2>1. CASE i \in ours /\ j \in ours
    BY <1>2, <1>4, <1>6, <2>1
  <2>2. CASE i \in ours /\ j = n + 1
    <3>1. place[i] \in 1..m /\ p[i] = place[i] /\ p[j] = m + 1
      BY <1>2, <1>4, <2>2
    <3>2. QED  BY <1>1, <3>1
  <2>3. CASE i = n + 1
    BY <1>3, <1>6, <2>3
  <2>4. QED  BY <2>1, <2>2, <2>3
<1>7. ASSUME NEW i \in ours \cup {n + 1}
      PROVE  s[p[i]] = Written(more[i])
  <2>1. CASE i \in ours
    <3>1. place[i] \in 1..m /\ p[i] = place[i]
      BY <1>2, <1>4, <2>1
    <3>2. more[i] = lines[i]
      BY <1>3, <2>1
    <3>3. QED  BY <1>1, <1>2, <2>1, <3>1, <3>2
  <2>2. CASE i = n + 1
    BY <1>1, <1>4, <2>2
  <2>3. QED  BY <2>1, <2>2
<1>8. p \in Arrangements(s, more, ours \cup {n + 1})
  BY <1>5, <1>6, <1>7 DEF Arrangements
<1>9. QED  BY <1>8 DEF s, m, p, PlaceNext

\* One sample more, of another line.
LEMMA ArrangeSame ==
  ASSUME NEW old \in Seq(EntryType), NEW e \in EntryType, NEW ours,
         NEW lines, NEW more, \A i \in ours : more[i] = lines[i],
         NEW place \in Arrangements(old, lines, ours)
  PROVE  /\ place \in Arrangements(Append(old, e), more, ours)
         /\ place \in Arrangements(old, more, ours)
<1> DEFINE m == Len(old)
           s == Append(old, e)
<1>1. /\ m \in Nat /\ DOMAIN s = 1..m + 1 /\ DOMAIN old = 1..m
      /\ \A i \in 1..m : s[i] = old[i]
  OBVIOUS
<1>2. /\ place \in [ours -> 1..m]
      /\ \A i, j \in ours : i < j => place[i] < place[j]
      /\ \A i \in ours : old[place[i]] = Written(lines[i])
  BY <1>1 DEF Arrangements
<1> HIDE DEF m, s
<1>3. \A i \in ours : place[i] \in 1..m /\ place[i] \in 1..m + 1
  BY <1>1, <1>2
<1>4. \A i \in ours : /\ s[place[i]] = Written(more[i])
                      /\ old[place[i]] = Written(more[i])
  BY <1>1, <1>2, <1>3
<1>5. place \in [ours -> DOMAIN s] /\ place \in [ours -> DOMAIN old]
  BY <1>1, <1>2, <1>3
<1>6. /\ place \in Arrangements(s, more, ours)
      /\ place \in Arrangements(old, more, ours)
  BY <1>2, <1>4, <1>5 DEF Arrangements
<1>7. QED  BY <1>6 DEF s

\* No line, no sample.
LEMMA ArrangeNone ==
  ASSUME NEW s, NEW lines
  PROVE  Arrangements(s, lines, {}) # {}
<1> DEFINE p == [i \in {} |-> 1]
<1>1. p \in [{} -> DOMAIN s]
  OBVIOUS
<1>2. p \in Arrangements(s, lines, {})
  BY <1>1 DEF Arrangements
<1>3. QED  BY <1>2

\* What Grouped speaks of, after one more line.
LEMMA OneLineMore ==
  ASSUME read \in Seq(ReadType), NEW l, NEW ws, Takes(l, ws),
         NEW yes \in BOOLEAN, yes = Regular([line |-> l, words |-> ws])
  PROVE  LET n == Len(read)
         IN /\ n \in Nat
            /\ \A i \in 1..n : LinesRead'[i] = LinesRead[i]
            /\ LinesRead'[n + 1] = l
            /\ AllRegular' <=> AllRegular /\ yes
            /\ \A a : /\ Ours(a) \in SUBSET (1..n)
                      /\ Ours(a)' = IF yes /\ About(l) = a
                                      THEN Ours(a) \cup {n + 1} ELSE Ours(a)
            /\ Abouts' = IF yes THEN Abouts \cup {About(l)} ELSE Abouts
            /\ Abouts = {a \in Abouts : Ours(a) # {}}
            /\ \A a : Ours(a) # {} => a \in Abouts
<1> DEFINE n == Len(read)
           r == [line |-> l, words |-> ws]
<1>1. /\ n \in Nat /\ Len(read') = n + 1
      /\ \A i \in 1..n : read'[i] = read[i]
      /\ read'[n + 1] = r
  <2>1. /\ n \in Nat /\ Len(read') = n + 1
        /\ \A i \in 1..n : read'[i] = read[i]
        /\ read'[Len(read')] = r
    BY ReadGrows
  <2>2. QED  BY <2>1
<1>2. r.line = l /\ yes = Regular(r)
  OBVIOUS
<1> HIDE DEF r
<1>3. /\ \A i \in 1..n : i \in 1..n + 1 /\ i # n + 1
      /\ n + 1 \in 1..n + 1
      /\ \A i \in 1..n + 1 : i \in 1..n \/ i = n + 1
  BY <1>1
<1>4. /\ LinesRead = [i \in 1..n |-> read[i].line]
      /\ LinesRead' = [i \in 1..n + 1 |-> read'[i].line]
  BY <1>1 DEF LinesRead
<1>5. /\ AllRegular <=> \A i \in 1..n : Regular(read[i])
      /\ AllRegular' <=> \A i \in 1..n + 1 : Regular(read'[i])
  BY <1>1 DEF AllRegular, Regular
<1>6. ASSUME NEW a
      PROVE  /\ Ours(a) = {i \in 1..n : Regular(read[i]) /\ About(read[i].line) = a}
             /\ Ours(a)' = {i \in 1..n + 1 :
                              Regular(read'[i]) /\ About(read'[i].line) = a}
  BY <1>1 DEF Ours, Regular
<1>7. /\ Abouts = {About(read[i].line) : i \in {j \in 1..n : Regular(read[j])}}
      /\ Abouts' = {About(read'[i].line) : i \in {j \in 1..n + 1 : Regular(read'[j])}}
  BY <1>1 DEF Abouts, Regular
<1> HIDE DEF n
<1>8. /\ \A i \in 1..n : LinesRead'[i] = LinesRead[i]
      /\ LinesRead'[n + 1] = l
  BY <1>1, <1>2, <1>3, <1>4
<1>9. AllRegular' <=> AllRegular /\ yes
  BY <1>1, <1>2, <1>3, <1>5
<1>10. ASSUME NEW a
       PROVE  /\ Ours(a) \in SUBSET (1..n)
              /\ Ours(a)' = IF yes /\ About(l) = a
                              THEN Ours(a) \cup {n + 1} ELSE Ours(a)
  <2>1. Ours(a) \in SUBSET (1..n)
    BY <1>6
  <2>2. \A i \in 1..n : i \in Ours(a)' <=> i \in Ours(a)
    BY <1>1, <1>3, <1>6
  <2>3. n + 1 \in Ours(a)' <=> yes /\ About(l) = a
    BY <1>1, <1>2, <1>3, <1>6
  <2>4. Ours(a)' \subseteq 1..n + 1
    BY <1>6
  <2>5. n + 1 \notin Ours(a)
    BY <1>3, <2>1
  <2>6. PICK B : B = Ours(a)'
    OBVIOUS
  <2>7. PICK A : A = Ours(a)
    OBVIOUS
  <2>8. B = IF yes /\ About(l) = a THEN A \cup {n + 1} ELSE A
    <3>1. /\ \A i \in 1..n : i \in B <=> i \in A
          /\ n + 1 \in B <=> yes /\ About(l) = a
          /\ B \subseteq 1..n + 1 /\ A \subseteq 1..n
      BY <2>1, <2>2, <2>3, <2>4, <2>6, <2>7
    <3>2. n + 1 \notin A /\ \A i : i \in A => i \in 1..n
      BY <1>3, <3>1
    <3>3. CASE yes /\ About(l) = a
      <4>1. \A i : i \in B <=> i \in A \/ i = n + 1
        BY <1>3, <3>1, <3>2, <3>3, Zenon
      <4>2. QED  BY <3>3, <4>1
    <3>4. CASE ~(yes /\ About(l) = a)
      <4>1. \A i : i \in B <=> i \in A
        BY <1>3, <3>1, <3>2, <3>4, Zenon
      <4>2. QED  BY <3>4, <4>1
    <3>5. QED  BY <3>3, <3>4
  <2>9. QED  BY <2>1, <2>6, <2>7, <2>8
<1>11. Abouts' = IF yes THEN Abouts \cup {About(l)} ELSE Abouts
  BY <1>1, <1>2, <1>3, <1>7
<1>12. Abouts = {a \in Abouts : Ours(a) # {}} /\ \A a : Ours(a) # {} => a \in Abouts
  BY <1>6, <1>7
<1>13. QED  BY <1>1, <1>8, <1>9, <1>10, <1>11, <1>12 DEF n

\* A line read keeps the samples of the lines before it where they are.
LEMMA GroupedStep ==
  ASSUME read \in Seq(ReadType), SeriesTyped, Grouped, NEW l, NEW ws, Takes(l, ws)
  PROVE  Grouped'
<1> DEFINE n == Len(read)
<1>1. PICK yes \in BOOLEAN : yes = Regular([line |-> l, words |-> ws])
  BY DEF Regular, Plain
<1>2. /\ n \in Nat
      /\ \A i \in 1..n : LinesRead'[i] = LinesRead[i]
      /\ LinesRead'[n + 1] = l
      /\ AllRegular' <=> AllRegular /\ yes
      /\ \A a : /\ Ours(a) \in SUBSET (1..n)
                /\ Ours(a)' = IF yes /\ About(l) = a
                                THEN Ours(a) \cup {n + 1} ELSE Ours(a)
      /\ Abouts' = IF yes THEN Abouts \cup {About(l)} ELSE Abouts
      /\ Abouts = {a \in Abouts : Ours(a) # {}}
      /\ \A a : Ours(a) # {} => a \in Abouts
  BY <1>1, OneLineMore
<1> HIDE DEF n
<1>3. /\ l \in Line /\ Shaped(l.sample) /\ ws \in Seq(Word)
      /\ IF OutOfRange(ws) THEN UNCHANGED raw_data ELSE Store(ws)
  BY DEF Takes
<1>4. yes => Plain(l) /\ ws = Words(l) /\ ~OutOfRange(ws)
  <2>1. yes => Plain(l) /\ ws = Words(l)
    BY <1>1 DEF Regular
  <2>2. QED  BY <1>3, <2>1, ValueOfWords
<1>5. ASSUME NEW a \in Abouts
      PROVE  \E m \in Line : Plain(m) /\ About(m) = a
  <2>1. PICK i \in 1..Len(read) : Regular(read[i]) /\ About(read[i].line) = a
    BY <1>5 DEF Abouts
  <2>2. read[i] \in ReadType
    BY <2>1
  <2>3. QED  BY <2>1, <2>2 DEF ReadType, Regular
<1>6. /\ \A a \in Abouts :
           /\ KeyOf(a) \in DOMAIN raw_data
           /\ \E place \in Arrangements(raw_data[KeyOf(a)].series, LinesRead, Ours(a)) :
                AllRegular =>
                  \A k \in DOMAIN raw_data[KeyOf(a)].series :
                    \E i \in Ours(a) : place[i] = k
      /\ AllRegular => DOMAIN raw_data = {KeyOf(a) : a \in Abouts}
  BY DEF Grouped
<1>7. SUFFICES
        /\ \A a \in Abouts' :
             /\ KeyOf(a) \in DOMAIN raw_data'
             /\ \E place \in Arrangements(raw_data'[KeyOf(a)].series, LinesRead', Ours(a)') :
                  AllRegular' =>
                    \A k \in DOMAIN raw_data'[KeyOf(a)].series :
                      \E i \in Ours(a)' : place[i] = k
        /\ AllRegular' => DOMAIN raw_data' = {KeyOf(a) : a \in Abouts'}
  BY DEF Grouped, Arrangements
<1>8. CASE OutOfRange(ws)
  <2>1. raw_data' = raw_data /\ yes = FALSE
    BY <1>3, <1>4, <1>8
  <2>2. Abouts' = Abouts /\ (\A a : Ours(a)' = Ours(a)) /\ AllRegular' = FALSE
    BY <1>2, <2>1
  <2>3. ASSUME NEW a \in Abouts
        PROVE  /\ KeyOf(a) \in DOMAIN raw_data
               /\ \E place \in Arrangements(raw_data[KeyOf(a)].series, LinesRead', Ours(a)) : TRUE
    <3>1. PICK place \in Arrangements(raw_data[KeyOf(a)].series, LinesRead, Ours(a)) : TRUE
      BY <1>6
    <3>2. raw_data[KeyOf(a)].series \in Seq(EntryType)
      BY <1>6 DEF SeriesTyped
    <3>3. \A i \in Ours(a) : LinesRead'[i] = LinesRead[i]
      BY <1>2
    <3>4. PICK e \in EntryType : TRUE
      <4>1. l.ts \in Word /\ l.sample.value \in Numbers
        BY <1>3 DEF Line, Shaped
      <4>2. [timestamp |-> l.ts, value |-> l.sample.value] \in EntryType
        BY <4>1 DEF EntryType
      <4>3. QED  BY <4>2
    <3>5. place \in Arrangements(raw_data[KeyOf(a)].series, LinesRead', Ours(a))
      BY <3>1, <3>2, <3>3, <3>4, ArrangeSame
    <3>6. QED  BY <1>6, <3>5
  <2>4. QED  BY <2>1, <2>2, <2>3
<1>9. CASE ~OutOfRange(ws)
  <2> DEFINE key == <<ws[2], InstanceName(ws)>>
             old == IF key \in DOMAIN raw_data THEN raw_data[key].series ELSE <<>>
  <2>1. /\ DOMAIN raw_data' = DOMAIN raw_data \cup {key}
        /\ old \in Seq(EntryType)
        /\ \E entry \in EntryType :
             entry.timestamp = ws[1] /\ raw_data'[key].series = Append(old, entry)
        /\ \A k \in DOMAIN raw_data : k # key => raw_data'[k] = raw_data[k]
    BY <1>3, <1>9, StoreOne
  <2>2. PICK e \in EntryType : raw_data'[key].series = Append(old, e)
    BY <2>1
  <2>3. yes => key = KeyOf(About(l)) /\ e = Written(l)
    <3>1. SUFFICES ASSUME yes PROVE key = KeyOf(About(l)) /\ e = Written(l)
      OBVIOUS
    <3>2. Plain(l) /\ ws = Words(l) /\ Store(Words(l))
      BY <1>3, <1>4, <1>9, <3>1
    <3>3. key = KeyOf(About(l))
      BY <1>3, <3>2, KeyOfWords
    <3>4. raw_data'[KeyOf(About(l))].series
            = Append(IF KeyOf(About(l)) \in DOMAIN raw_data
                       THEN raw_data[KeyOf(About(l))].series ELSE <<>>, Written(l))
      BY <1>3, <3>2, StorePlain
    <3>5. Append(old, e) = Append(old, Written(l))
      BY <2>2, <3>3, <3>4
    <3>6. Written(l) \in EntryType
      BY <1>3 DEF Written, Entry, EntryType, Line, Shaped
    <3>7. e = Written(l)
      <4> HIDE DEF old
      <4>1. Append(old, e)[Len(old) + 1] = e /\ Append(old, Written(l))[Len(old) + 1] = Written(l)
        BY <2>1, <3>6, AppendProperties
      <4>2. QED  BY <3>5, <4>1
    <3>8. QED  BY <3>3, <3>7
  <2>4. key \in DOMAIN raw_data => old = raw_data[key].series
    OBVIOUS
  <2>5. key \notin DOMAIN raw_data => old = <<>>
    OBVIOUS
  <2>6. /\ Len(old) \in Nat /\ DOMAIN old = 1..Len(old)
        /\ DOMAIN Append(old, e) = 1..Len(old) + 1
    <3> HIDE DEF old
    <3>1. QED  BY <2>1
  <2> HIDE DEF key, old
  <2>7. ASSUME yes
        PROVE  LET a == About(l)
               IN \E place \in Arrangements(Append(old, e), LinesRead', Ours(a) \cup {n + 1}) :
                    AllRegular =>
                      \A k \in 1..Len(old) + 1 : \E i \in Ours(a) \cup {n + 1} : place[i] = k
    <3> DEFINE a == About(l)
    <3>1. key = KeyOf(a) /\ Plain(l) /\ l \in Line
      BY <1>3, <1>4, <2>3, <2>7
    <3>2. \E place \in Arrangements(old, LinesRead, Ours(a)) :
            AllRegular => \A k \in 1..Len(old) : \E i \in Ours(a) : place[i] = k
      <4>1. CASE a \in Abouts
        <5>1. KeyOf(a) \in DOMAIN raw_data /\ old = raw_data[KeyOf(a)].series
          BY <1>6, <2>4, <3>1, <4>1
        <5>2. PICK place \in Arrangements(old, LinesRead, Ours(a)) :
                AllRegular => \A k \in DOMAIN old : \E i \in Ours(a) : place[i] = k
          BY <1>6, <4>1, <5>1
        <5>3. QED  BY <2>6, <5>2
      <4>2. CASE a \notin Abouts
        <5>1. Ours(a) = {}
          BY <1>2, <4>2
        <5>2. PICK place : place \in Arrangements(old, LinesRead, {})
          BY ArrangeNone
        <5>3. AllRegular => Len(old) = 0
          <6>1. SUFFICES ASSUME AllRegular, key \in DOMAIN raw_data PROVE FALSE
            BY <2>5
          <6>2. PICK b \in Abouts : KeyOf(b) = KeyOf(a)
            BY <1>6, <3>1, <6>1
          <6>3. PICK m \in Line : Plain(m) /\ About(m) = b
            BY <1>5
          <6>4. b = a
            BY <3>1, <6>2, <6>3, KeyDetermines
          <6>5. QED  BY <4>2, <6>4
        <5>4. QED  BY <5>1, <5>2, <5>3
      <4>3. QED  BY <4>1, <4>2
    <3>3. PICK place \in Arrangements(old, LinesRead, Ours(a)) :
            AllRegular => \A k \in 1..Len(old) : \E i \in Ours(a) : place[i] = k
      BY <3>2
    <3>4. /\ \A i \in 1..n : LinesRead'[i] = LinesRead[i]
          /\ Ours(a) \in SUBSET (1..n)
          /\ Written(LinesRead'[n + 1]) = e
      BY <1>2, <2>3, <2>7
    <3>5. PICK p \in Arrangements(Append(old, e), LinesRead', Ours(a) \cup {n + 1}) :
            p[n + 1] = Len(old) + 1 /\ \A i \in Ours(a) : p[i] = place[i]
      <4> HIDE DEF a
      <4>1. PICK lines, more, ours :
              lines = LinesRead /\ more = LinesRead' /\ ours = Ours(a)
        OBVIOUS
      <4>2. /\ \A i \in 1..n : more[i] = lines[i]
            /\ ours \in SUBSET (1..n) /\ Written(more[n + 1]) = e
            /\ place \in Arrangements(old, lines, ours)
            /\ n \in Nat /\ old \in Seq(EntryType) /\ e \in EntryType
        BY <1>2, <2>1, <2>2, <3>3, <3>4, <4>1
      <4> DEFINE q == PlaceNext(place, ours, n, Len(old) + 1)
      <4>3. q \in Arrangements(Append(old, e), more, ours \cup {n + 1})
        BY <4>2, ArrangeOneMore
      <4>4. q[n + 1] = Len(old) + 1 /\ \A i \in ours : q[i] = place[i]
        <5>1. n + 1 \notin ours
          BY <4>2
        <5>2. QED  BY <5>1 DEF PlaceNext
      <4> HIDE DEF q
      <4>5. QED  BY <4>1, <4>3, <4>4
    <3>6. AllRegular => \A k \in 1..Len(old) + 1 : \E i \in Ours(a) \cup {n + 1} : p[i] = k
      <4>1. SUFFICES ASSUME AllRegular, NEW k \in 1..Len(old) + 1
                     PROVE  \E i \in Ours(a) \cup {n + 1} : p[i] = k
        OBVIOUS
      <4>2. CASE k \in 1..Len(old)
        <5>1. PICK i \in Ours(a) : place[i] = k
          BY <3>3, <4>1, <4>2
        <5>2. QED  BY <3>5, <5>1
      <4>3. CASE k \notin 1..Len(old)
        <5>1. k = Len(old) + 1
          BY <2>6, <4>3
        <5>2. QED  BY <3>5, <5>1
      <4>4. QED  BY <4>2, <4>3
    <3>7. QED  BY <3>5, <3>6
  <2>8. ASSUME NEW a \in Abouts'
        PROVE  /\ KeyOf(a) \in DOMAIN raw_data'
               /\ \E place \in Arrangements(raw_data'[KeyOf(a)].series, LinesRead', Ours(a)') :
                    AllRegular' =>
                      \A k \in DOMAIN raw_data'[KeyOf(a)].series :
                        \E i \in Ours(a)' : place[i] = k
    <3>1. CASE yes /\ About(l) = a
      <4>1. KeyOf(a) = key /\ Ours(a)' = Ours(a) \cup {n + 1}
        BY <1>2, <2>3, <3>1
      <4>2. raw_data'[KeyOf(a)].series = Append(old, e)
        BY <2>2, <4>1
      <4>3. PICK place \in Arrangements(Append(old, e), LinesRead', Ours(a) \cup {n + 1}) :
              AllRegular =>
                \A k \in 1..Len(old) + 1 : \E i \in Ours(a) \cup {n + 1} : place[i] = k
        BY <2>7, <3>1
      <4>4. AllRegular' => AllRegular
        BY <1>2
      <4>5. /\ place \in Arrangements(raw_data'[KeyOf(a)].series, LinesRead', Ours(a)')
            /\ AllRegular' =>
                 \A k \in DOMAIN raw_data'[KeyOf(a)].series :
                   \E i \in Ours(a)' : place[i] = k
        <5>1. DOMAIN raw_data'[KeyOf(a)].series = 1..Len(old) + 1
          BY <2>6, <4>2
        <5>2. QED  BY <4>1, <4>2, <4>3, <4>4, <5>1
      <4>6. QED  BY <2>1, <4>1, <4>5
    <3>2. CASE ~(yes /\ About(l) = a)
      <4>1. a \in Abouts /\ Ours(a)' = Ours(a)
        BY <1>2, <2>8, <3>2
      <4>2. PICK place \in Arrangements(raw_data[KeyOf(a)].series, LinesRead, Ours(a)) :
              AllRegular =>
                \A k \in DOMAIN raw_data[KeyOf(a)].series :
                  \E i \in Ours(a) : place[i] = k
        BY <1>6, <4>1
      <4>3. /\ KeyOf(a) \in DOMAIN raw_data
            /\ raw_data[KeyOf(a)].series \in Seq(EntryType)
        BY <1>6, <4>1 DEF SeriesTyped
      <4>4. \A i \in Ours(a) : LinesRead'[i] = LinesRead[i]
        BY <1>2
      <4>5. /\ place \in Arrangements(Append(raw_data[KeyOf(a)].series, e), LinesRead', Ours(a))
            /\ place \in Arrangements(raw_data[KeyOf(a)].series, LinesRead', Ours(a))
        BY <4>2, <4>3, <4>4, ArrangeSame
      <4>6. AllRegular' => AllRegular /\ KeyOf(a) # key
        <5>1. SUFFICES ASSUME AllRegular', KeyOf(a) = key PROVE FALSE
          BY <1>2
        <5>2. yes /\ key = KeyOf(About(l)) /\ Plain(l) /\ l \in Line
          BY <1>2, <1>3, <1>4, <2>3, <5>1
        <5>3. PICK m \in Line : Plain(m) /\ About(m) = a
          BY <1>5, <4>1
        <5>4. a = About(l)
          BY <5>1, <5>2, <5>3, KeyDetermines
        <5>5. QED  BY <3>2, <5>2, <5>4
      <4>7. CASE KeyOf(a) = key
        <5>1. raw_data'[KeyOf(a)].series = Append(raw_data[KeyOf(a)].series, e)
          BY <2>2, <2>4, <4>3, <4>7
        <5>2. QED  BY <2>1, <4>1, <4>3, <4>5, <4>6, <4>7, <5>1
      <4>8. CASE KeyOf(a) # key
        <5>1. raw_data'[KeyOf(a)] = raw_data[KeyOf(a)]
          BY <2>1, <4>3, <4>8
        <5>2. QED  BY <2>1, <4>1, <4>2, <4>3, <4>5, <4>6, <5>1
      <4>9. QED  BY <4>7, <4>8
    <3>3. QED  BY <3>1, <3>2
  <2>9. AllRegular' => DOMAIN raw_data' = {KeyOf(a) : a \in Abouts'}
    <3>1. SUFFICES ASSUME AllRegular' PROVE DOMAIN raw_data' = {KeyOf(a) : a \in Abouts'}
      OBVIOUS
    <3>2. AllRegular /\ yes
      BY <1>2, <3>1
    <3>3. /\ DOMAIN raw_data' = {KeyOf(a) : a \in Abouts} \cup {KeyOf(About(l))}
          /\ Abouts' = Abouts \cup {About(l)}
      BY <1>2, <1>6, <2>1, <2>3, <3>2
    <3>4. QED  BY <3>3
  <2>10. QED  BY <2>8, <2>9
<1>10. QED  BY <1>8, <1>9

\* exit flushes.
Exited == recording = "exited" => written.whole = Len(emitted) /\ written.place = 0

\* The lines read of the second file are the last ones read.
Followed ==
  status = "reading" /\ file = 2 =>
    \E base \in Nat :
      /\ Len(read) = base + at
      /\ \A i \in 1..at : read[base + i] = [line |-> emitted[i], words |-> Words(emitted[i])]

SamplesInv == IInv /\ Grouped /\ Exited /\ Followed

LEMMA InitSamplesInv ==
  ASSUME Init
  PROVE  SamplesInv
<1>1. recording = "runs" /\ file = 1 /\ raw_data = <<>> /\ read = <<>>
  BY DEF Init, JournalInit
<1>2. Abouts = {}
  BY <1>1 DEF Abouts
<1>3. Grouped
  BY <1>1, <1>2 DEF Grouped
<1>4. QED  BY <1>1, <1>3, InitIInv DEF SamplesInv, Exited, Followed

\* Grouped is about what is read.
LEMMA GroupedSame ==
  ASSUME Grouped, read' = read, raw_data' = raw_data
  PROVE  Grouped'
<1>1. LinesRead' = LinesRead /\ (AllRegular' <=> AllRegular) /\ Abouts' = Abouts
  BY DEF LinesRead, AllRegular, Abouts, Regular
<1>2. \A a : Ours(a)' = Ours(a)
  BY DEF Ours, Regular
<1>3. QED  BY <1>1, <1>2 DEF Grouped, Arrangements

LEMMA NextSamplesInv ==
  ASSUME SamplesInv, [Next]_vars
  PROVE  SamplesInv'
<1>1. IInv' /\ IInv
  BY NextIInv DEF SamplesInv
<1>2. /\ read \in Seq(ReadType) /\ SeriesTyped /\ file \in {1, 2} /\ at \in Nat
      /\ emitted \in Seq(Line) /\ Len(emitted) \in Nat
      /\ written.whole \in Nat
      /\ Inside /\ TypeOK /\ Printed
  BY <1>1, Types DEF IInv, JournalTypeOK
<1>3. /\ Grouped /\ Exited /\ Followed
  BY DEF SamplesInv
<1>4. ASSUME JournalNext \/ UNCHANGED journalVars, UNCHANGED readerVars
      PROVE  SamplesInv'
  <2>1. /\ read' = read /\ raw_data' = raw_data /\ status' = status
        /\ file' = file /\ at' = at
    BY <1>4 DEF readerVars
  <2>2. Grouped'
    BY <1>3, <2>1, GroupedSame
  <2>3. Exited'
    BY <1>3, <1>4 DEF Exited, JournalNext, Report, Flush, Exit, Terminate,
                      AllWritten, journalVars
  <2>4. Grows
    BY <1>2, <1>4, JournalStep DEF TypeOK
  <2>5. Followed'
    <3>1. SUFFICES ASSUME status = "reading", file = 2
                   PROVE  \E base \in Nat :
                            /\ Len(read) = base + at
                            /\ \A i \in 1..at :
                                 read[base + i] = [line |-> emitted'[i],
                                                   words |-> Words(emitted'[i])]
      BY <2>1 DEF Followed
    <3>2. PICK base \in Nat :
            /\ Len(read) = base + at
            /\ \A i \in 1..at :
                 read[base + i] = [line |-> emitted[i], words |-> Words(emitted[i])]
      BY <1>3, <3>1 DEF Followed
    <3>3. at <= Len(emitted)
      <4>1. Contents = [lines |-> emitted, written |-> written]
        BY <3>1 DEF Contents
      <4>2. at <= written.whole /\ written.whole <= Len(emitted)
        BY <1>2, <4>1 DEF Inside, Printed, EndsIn
      <4>3. QED  BY <1>2, <4>2
    <3>4. \A i \in 1..at : emitted'[i] = emitted[i]
      BY <1>2, <2>4, <3>3 DEF Grows
    <3>5. QED  BY <3>2, <3>4
  <2>6. QED  BY <1>1, <2>2, <2>3, <2>5 DEF SamplesInv
<1>5. CASE ReadLine
  <2> DEFINE l == Contents.lines[at + 1]
             ws == Words(l)
  <2>1. /\ status = "reading" /\ at < Contents.written.whole
        /\ at' = at + 1 /\ UNCHANGED <<older, file, journalVars>>
        /\ read' = Append(read, [line |-> l, words |-> ws])
        /\ IF OutOfRange(ws) THEN UNCHANGED raw_data ELSE Store(ws)
    BY <1>5 DEF ReadLine
  <2>2. Takes(l, ws)
    <3>1. at < Len(Contents.lines)
      BY <1>2, <2>1, ContentsType DEF EndsIn
    <3>2. l \in Line /\ Shaped(l.sample)
      BY <1>1, <1>2, <2>1, <3>1, NextLine DEF IInv
    <3>3. ws \in Seq(Word)
      BY <3>2, WordsType
    <3>4. QED  BY <2>1, <3>2, <3>3 DEF Takes
  <2>3. Grouped'
    BY <1>2, <1>3, <2>2, GroupedStep
  <2>4. Exited'
    BY <1>3, <2>1 DEF Exited, journalVars
  <2>5. Followed'
    <3>1. SUFFICES ASSUME file = 2
                   PROVE  \E base \in Nat :
                            /\ Len(read') = base + (at + 1)
                            /\ \A i \in 1..at + 1 :
                                 read'[base + i] = [line |-> emitted[i],
                                                    words |-> Words(emitted[i])]
      BY <2>1 DEF Followed, journalVars
    <3>2. PICK base \in Nat :
            /\ Len(read) = base + at
            /\ \A i \in 1..at :
                 read[base + i] = [line |-> emitted[i], words |-> Words(emitted[i])]
      BY <1>3, <2>1, <3>1 DEF Followed
    <3>3. /\ Len(read') = Len(read) + 1
          /\ \A j \in 1..Len(read) : read'[j] = read[j]
          /\ read'[Len(read')] = [line |-> l, words |-> ws]
      BY <1>2, <2>2, ReadGrows
    <3>4. l = emitted[at + 1]
      BY <3>1 DEF Contents
    <3>5. Len(read') = base + (at + 1)
      BY <1>2, <3>2, <3>3
    <3>6. ASSUME NEW i \in 1..at + 1
          PROVE  read'[base + i] = [line |-> emitted[i], words |-> Words(emitted[i])]
      <4>1. CASE i = at + 1
        BY <3>3, <3>4, <3>5, <4>1
      <4>2. CASE i # at + 1
        <5>1. i \in 1..at /\ base + i \in 1..Len(read)
          BY <1>2, <3>2, <4>2
        <5>2. QED  BY <3>2, <3>3, <5>1
      <4>3. QED  BY <4>1, <4>2
    <3>7. QED  BY <3>5, <3>6
  <2>6. QED  BY <1>1, <2>3, <2>4, <2>5 DEF SamplesInv
<1>6. ASSUME UNCHANGED journalVars, Grouped',
             status = "reading", status' = "reading" => NextFile,
             read' \in Seq(ReadType)
      PROVE  SamplesInv'
  <2>1. Exited'
    BY <1>3, <1>6 DEF Exited, journalVars
  <2>2. Followed'
    <3>1. SUFFICES ASSUME status' = "reading", file' = 2 PROVE Followed'
      BY DEF Followed
    <3>2. at' = 0
      BY <1>6, <3>1 DEF NextFile
    <3>3. Len(read') \in Nat /\ Len(read') = Len(read') + 0
      BY <1>6
    <3>4. \A i \in 1..0 : FALSE
      OBVIOUS
    <3>5. QED  BY <3>2, <3>3, <3>4 DEF Followed
  <2>3. QED  BY <1>1, <1>6, <2>1, <2>2 DEF SamplesInv
<1>7. CASE ReadCutLine
  <2> DEFINE l == Contents.lines[at + 1]
             ws == WordsUpTo(l, Contents.written.place)
  <2>1. /\ status = "reading" /\ at = Contents.written.whole
        /\ Contents.written.place > 0
        /\ UNCHANGED journalVars
        /\ read' = Append(read, [line |-> l, words |-> ws])
        /\ IF OutOfRange(ws) THEN UNCHANGED raw_data ELSE Store(ws)
        /\ status' = "reading" => NextFile
    BY <1>7 DEF ReadCutLine
  <2>2. Takes(l, ws)
    <3>1. at < Len(Contents.lines) /\ Contents.written.place \in Places(l)
      BY <1>2, <2>1, ContentsType DEF EndsIn
    <3>2. l \in Line /\ Shaped(l.sample)
      BY <1>1, <1>2, <2>1, <3>1, NextLine DEF IInv
    <3>3. ws \in Seq(Word)
      BY <3>1, <3>2, CutType
    <3>4. QED  BY <2>1, <3>2, <3>3 DEF Takes
  <2>3. Grouped'
    BY <1>2, <1>3, <2>2, GroupedStep
  <2>4. read' \in Seq(ReadType)
    BY <1>2, <2>2, ReadGrows
  <2>5. QED  BY <1>6, <2>1, <2>3, <2>4
<1>8. CASE EndOfFile
  <2>1. /\ UNCHANGED journalVars /\ read' = read /\ raw_data' = raw_data
        /\ status = "reading" /\ NextFile
    BY <1>8 DEF EndOfFile
  <2>2. Grouped'
    BY <1>3, <2>1, GroupedSame
  <2>3. QED  BY <1>2, <1>6, <2>1, <2>2
<1>9. CASE Ended \/ UNCHANGED vars
  BY <1>4, <1>9 DEF Ended, vars
<1>10. QED  BY <1>4, <1>5, <1>7, <1>8, <1>9 DEF Next

LEMMA SamplesInvariant == Spec => []SamplesInv
<1>1. Init => SamplesInv
  BY InitSamplesInv
<1>2. SamplesInv /\ [Next]_vars => SamplesInv'
  BY NextSamplesInv
<1>3. QED  BY <1>1, <1>2, PTL DEF Spec

\* The samples of two instances never mix, none is lost and none moves, whatever
\* else is in the recordings, as long as their own names are single words.
THEOREM GroupedHolds == Spec => []Grouped
<1>1. SamplesInv => Grouped
  BY DEF SamplesInv
<1>2. QED  BY <1>1, SamplesInvariant, PTL

\* Each sample that a recording printed is in its series when both files are read,
\* if the recording had ended normally: the flush at exit, the loop of getline and
\* the grouping together lose nothing.
THEOREM EndToEndHolds == Spec => EndToEnd
<1>1. ASSUME SamplesInv, SamplesInv', [Next]_vars,
             status = "reading", status' = "parsed", recording = "exited",
             NEW i \in 1..Len(emitted), Plain(emitted[i])
      PROVE  LET about == About(emitted[i])
                 ours == {j \in 1..Len(emitted) : About(emitted[j]) = about}
             IN /\ KeyOf(about) \in DOMAIN raw_data'
                /\ Arrangements(raw_data'[KeyOf(about)].series, emitted, ours) # {}
  <2> DEFINE a == About(emitted[i])
             n == Len(emitted)
             ours == {j \in 1..n : About(emitted[j]) = a}
  <2>1. /\ file \in {1, 2} /\ at \in Nat /\ emitted \in Seq(Line) /\ n \in Nat
    BY <1>1, Types DEF SamplesInv, IInv, JournalTypeOK
  <2>2. file = 2 /\ EndOfFile
    <3>1. EndOfFile \/ ReadCutLine
      BY <1>1 DEF Next, ReadLine, Ended, vars, readerVars
    <3>2. NextFile
      BY <1>1, <3>1 DEF EndOfFile, ReadCutLine
    <3>3. file = 2
      BY <1>1, <2>1, <3>2 DEF NextFile
    <3>4. Contents.written.place = 0
      BY <1>1, <3>3 DEF Contents, SamplesInv, Exited
    <3>5. QED  BY <3>1, <3>3, <3>4 DEF ReadCutLine
  <2>3. at = n /\ read' = read /\ raw_data' = raw_data
    <3>1. Contents.written.whole = n
      BY <1>1, <2>2 DEF Contents, SamplesInv, Exited
    <3>2. QED  BY <2>2, <3>1 DEF EndOfFile
  <2>4. PICK base \in Nat :
          /\ Len(read) = base + n
          /\ \A j \in 1..n : read[base + j] = [line |-> emitted[j],
                                              words |-> Words(emitted[j])]
    BY <1>1, <2>2, <2>3 DEF SamplesInv, Followed
  <2>5. ASSUME NEW j \in ours PROVE base + j \in Ours(a)
    <3>1. j \in 1..n /\ base + j \in 1..Len(read)
      BY <2>1, <2>4
    <3>2. read[base + j].line = emitted[j] /\ read[base + j].words = Words(emitted[j])
      <4>1. read[base + j] = [line |-> emitted[j], words |-> Words(emitted[j])]
        BY <2>4, <3>1
      <4>2. QED  BY <4>1
    <3>3. emitted[j].sample.metric = emitted[i].sample.metric
          /\ emitted[j].sample.names = emitted[i].sample.names
      BY <2>5 DEF About
    <3>4. Plain(emitted[j])
      BY <1>1, <3>3 DEF Plain
    <3>5. QED  BY <2>5, <3>1, <3>2, <3>4 DEF Ours, Regular
  <2>6. i \in ours
    OBVIOUS
  <2>7. a \in Abouts
    <3>1. base + i \in Ours(a)
      BY <2>5, <2>6
    <3>2. QED  BY <3>1 DEF Ours, Abouts
  <2> DEFINE s == raw_data[KeyOf(a)].series
  <2> HIDE DEF a, ours
  <2>8. /\ KeyOf(a) \in DOMAIN raw_data
        /\ \E place \in Arrangements(s, LinesRead, Ours(a)) : TRUE
    BY <1>1, <2>7 DEF SamplesInv, Grouped
  <2>9. PICK place \in Arrangements(s, LinesRead, Ours(a)) : TRUE
    BY <2>8
  <2> HIDE DEF s
  <2>10. /\ place \in [Ours(a) -> DOMAIN s]
         /\ \A j, k \in Ours(a) : j < k => place[j] < place[k]
         /\ \A j \in Ours(a) : s[place[j]] = Written(LinesRead[j])
    BY <2>9 DEF Arrangements
  <2> DEFINE p == [j \in ours |-> place[base + j]]
  <2>11. ours \in SUBSET (1..n)
    BY DEF ours
  <2>12. p \in [ours -> DOMAIN s]
    BY <2>5, <2>10
  <2>13. ASSUME NEW j \in ours, NEW k \in ours, j < k PROVE p[j] < p[k]
    <3>1. base + j < base + k
      BY <2>1, <2>11, <2>13
    <3>2. QED  BY <2>5, <2>10, <3>1
  <2>14. ASSUME NEW j \in ours PROVE s[p[j]] = Written(emitted[j])
    <3>1. s[place[base + j]] = Written(LinesRead[base + j])
      BY <2>5, <2>10
    <3>2. j \in 1..n /\ base + j \in 1..Len(read)
      BY <2>1, <2>4, <2>11
    <3>3. LinesRead[base + j] = emitted[j]
      <4>1. read[base + j] = [line |-> emitted[j], words |-> Words(emitted[j])]
        BY <2>4, <3>2
      <4>2. LinesRead[base + j] = read[base + j].line
        BY <3>2 DEF LinesRead
      <4>3. QED  BY <4>1, <4>2
    <3>4. QED  BY <3>1, <3>3
  <2>15. p \in Arrangements(s, emitted, ours)
    BY <2>12, <2>13, <2>14 DEF Arrangements
  <2>16. KeyOf(a) \in DOMAIN raw_data' /\ Arrangements(raw_data'[KeyOf(a)].series, emitted, ours) # {}
    BY <2>3, <2>8, <2>15 DEF s
  <2>17. QED  BY <2>16 DEF a, ours
<1> DEFINE Holds ==
      status = "reading" /\ status' = "parsed" /\ recording = "exited" =>
        \A i \in 1..Len(emitted) :
          Plain(emitted[i]) =>
            LET about == About(emitted[i])
                ours == {j \in 1..Len(emitted) : About(emitted[j]) = about}
            IN /\ KeyOf(about) \in DOMAIN raw_data'
               /\ Arrangements(raw_data'[KeyOf(about)].series, emitted, ours) # {}
<1>2. SamplesInv /\ SamplesInv' /\ [Next]_vars => [Holds]_vars
  <2>1. SUFFICES ASSUME SamplesInv, SamplesInv', [Next]_vars PROVE Holds
    OBVIOUS
  <2>2. QED  BY <1>1, <2>1
<1>3. QED  BY <1>2, SamplesInvariant, PTL DEF Spec, EndToEnd
=============================================================================
