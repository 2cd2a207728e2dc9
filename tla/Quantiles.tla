------------------------------ MODULE Quantiles ------------------------------
(***************************************************************************)
(* The statistics of one series: compute_gauge, compute_counter,           *)
(* compute_derive and get_quantiles of src/src/summarize.cc.               *)
(*                                                                         *)
(* get_quantiles picks values by index from the sorted series.  Values     *)
(* that come in descending order are not sorted but indexed from the other *)
(* end, so the same values give other quantiles in another order; what     *)
(* holds for both is that each is a quantile.                              *)
(*                                                                         *)
(* A value is a fraction: a sample of a gauge or counter is an integer     *)
(* here, and a derivative is a difference over a difference.  That of two  *)
(* neighbours of one timestamp is a division by zero, which doubles carry  *)
(* out: an infinity, or NaN if the values do not differ either.  Such      *)
(* neighbours come of a metric named twice on the command line, and of a   *)
(* process comm of three words, with which all threads of the process fall *)
(* into one series.  The average, which is summed in a float, is left out. *)
(***************************************************************************)
EXTENDS Integers, Sequences, FiniteSets, Functions

CONSTANTS
  Inputs,   \* the series to run with, and what they are series of
  TsMod     \* 2^64: timestamps are uint64_t

\* record writes the last three only.
StatType == {"none", "gauge", "counter", "derive"}

Sample == [timestamp : 0..TsMod - 1, value : Int]

ASSUME QuantilesAssumption ==
  /\ TsMod \in Nat \ {0}
  /\ Inputs \subseteq [stat_type : StatType, series : Seq(Sample)]

VARIABLES
  series,      \* DataStruct::series
  stat_type,   \* DataStruct::stat_type
  pc,          \* "compute", "sort" (compute_derive), "quantiles", "pick", "done"
  values,      \* the values that get_quantiles is given, and sorts
  descending,  \* which of its two sets of indexes it uses
  result       \* DataStruct::result; the zeroes it starts with are <<>>

vars == <<series, stat_type, pc, values, descending, result>>

\* The fields of ComputeResult between min and max, in thousandths.
Thousandths ==
  [p0_1 |-> 1, p1 |-> 10, p10 |-> 100, p25 |-> 250, p50 |-> 500,
   p75 |-> 750, p90 |-> 900, p99 |-> 990, p999 |-> 999]

Fields == DOMAIN Thousandths \cup {"min", "max"}

Fraction == [num : Int, den : Nat \ {0}]

\* A double: a fraction, or what a division by zero gives.
Value == [num : Int, den : Nat]

NaN(v) == v.num = 0 /\ v.den = 0

Whole(n) == [num |-> n, den |-> 1]

\* The order of doubles.  NaN is neither less nor greater than anything.
Less(a, b) ==
  IF a.den = 0 /\ b.den = 0
    THEN a.num < 0 /\ b.num > 0
    ELSE a.num * b.den < b.num * a.den

\* std::is_sorted, by < and by >: no value comes before the one ahead of it.
Ascending(s) == \A i \in 1..Len(s) - 1 : ~Less(s[i + 1], s[i])

Descending(s) == \A i \in 1..Len(s) - 1 : ~Less(s[i], s[i + 1])

Init ==
  /\ \E in \in Inputs : stat_type = in.stat_type /\ series = in.series
  /\ pc = "compute"
  /\ values = <<>>
  /\ descending = FALSE
  /\ result = <<>>

-----------------------------------------------------------------------------
(***************************************************************************)
(* compute_gauge, which compute_counter calls, and compute_derive.         *)
(* Definitions whose names begin with Bug are not the code but plausible   *)
(* mistakes in it, listed in the README.                                   *)
(***************************************************************************)
SampleValues == [i \in 1..Len(series) |-> Whole(series[i].value)]

\* The loop runs from the front and meets values it has replaced.
BugRates ==
  [i \in 1..Len(series) - 1 |->
     LET dt(j) == (series[j + 1].timestamp - series[j].timestamp) % TsMod
         dv(j) == series[j + 1].value - series[j].value
     IN IF i = 1 THEN [num |-> dv(1), den |-> dt(1)]
        ELSE [num |-> series[i + 1].value * dt(i - 1) - dv(i - 1),
              den |-> dt(i) * dt(i - 1)]]

\* The difference of the timestamps is signed.
BugSignedRates ==
  [i \in 1..Len(series) - 1 |->
     [num |-> series[i + 1].value - series[i].value,
      den |-> series[i + 1].timestamp - series[i].timestamp]]

\* The loop of compute_derive runs from the back, so that the sample before the
\* one it replaces still has its own value.  The first sample has no rate.
Rates ==
  [i \in 1..Len(series) - 1 |->
     [num |-> series[i + 1].value - series[i].value,
      den |-> (series[i + 1].timestamp - series[i].timestamp) % TsMod]]

\* No result is computed: the zeroes stay.
ZeroResult == pc' = "done" /\ UNCHANGED values

ComputeGauge ==
  IF Len(series) < 2 THEN ZeroResult
  ELSE values' = SampleValues /\ pc' = "quantiles"

\* The test for short series lets a single sample pass.
BugComputeDerive ==
  IF Len(series) < 1 THEN ZeroResult
  ELSE values' = Rates /\ pc' = "sort"

ComputeDerive ==
  IF Len(series) < 2 THEN ZeroResult
  ELSE values' = Rates /\ pc' = "sort"

\* The body of the loops of run(): what is computed depends on the type that
\* the last line of the series gave.
Compute ==
  /\ pc = "compute"
  /\ \/ stat_type \in {"counter", "gauge"} /\ ComputeGauge
     \/ stat_type = "derive" /\ ComputeDerive
     \/ stat_type = "none" /\ ZeroResult
  /\ UNCHANGED <<series, stat_type, descending, result>>

\* std::sort: some permutation that ascends.  With a NaN among the values < does
\* not order them and the call is undefined; it leaves the values in any order.
Sort ==
  \E f \in Bijection(1..Len(values), 1..Len(values)) :
    LET sorted == [i \in 1..Len(values) |-> values[f[i]]] IN
    /\ Ascending(sorted) \/ \E i \in 1..Len(values) : NaN(values[i])
    /\ values' = sorted

SortRates ==
  /\ pc = "sort"
  /\ Sort
  /\ pc' = "quantiles"
  /\ UNCHANGED <<series, stat_type, descending, result>>

-----------------------------------------------------------------------------
(***************************************************************************)
(* get_quantiles.                                                          *)
(***************************************************************************)
\* The values are taken as they come.
BugOrder ==
  /\ pc = "quantiles"
  /\ descending' = Descending(values)
  /\ pc' = "pick"
  /\ UNCHANGED <<series, stat_type, values, result>>

\* Values in either order are left as they are, others are sorted.
Order ==
  /\ pc = "quantiles"
  /\ descending' = Descending(values)
  /\ IF Descending(values) \/ Ascending(values) THEN UNCHANGED values ELSE Sort
  /\ pc' = "pick"
  /\ UNCHANGED <<series, stat_type, result>>

\* The same indexes for both orders.
BugIndex(f) ==
  LET nr == Len(values) IN
  CASE f = "min" -> IF descending THEN nr - 1 ELSE 0
    [] f = "max" -> IF descending THEN 0 ELSE nr - 1
    [] OTHER     -> (nr * Thousandths[f]) \div 1000

\* Shares of the last index instead of the number of values.
BugIndexOfLast(f) ==
  LET last == Len(values) - 1 IN
  CASE f = "min" -> IF descending THEN last ELSE 0
    [] f = "max" -> IF descending THEN 0 ELSE last
    [] OTHER     -> (last * (IF descending THEN 1000 - Thousandths[f] ELSE Thousandths[f]))
                      \div 1000

\* nr * 0.25 and so on, truncated to an integer.
Index(f) ==
  LET nr == Len(values) IN
  CASE f = "min" -> IF descending THEN nr - 1 ELSE 0
    [] f = "max" -> IF descending THEN 0 ELSE nr - 1
    [] OTHER     -> (nr * (IF descending THEN 1000 - Thousandths[f] ELSE Thousandths[f]))
                      \div 1000

Pick ==
  /\ pc = "pick"
  /\ result' = [f \in Fields |-> values[Index(f) + 1]]
  /\ pc' = "done"
  /\ UNCHANGED <<series, stat_type, values, descending>>

\* report() reads the result and changes nothing.
Reported == pc = "done" /\ UNCHANGED vars

Next ==
  \/ Compute \/ SortRates
  \/ Order \/ Pick
  \/ Reported

Spec == Init /\ [][Next]_vars

-----------------------------------------------------------------------------
\* What a value of the series is: a fraction, unless two neighbours have one
\* timestamp.  The difference of two timestamps may wrap, but is then not 0.
TimesDiffer ==
  \A i \in 1..Len(series) - 1 : series[i].timestamp # series[i + 1].timestamp

Double == IF TimesDiffer THEN Fraction ELSE Value

\* Every variable has its type; nothing was divided by zero if no two neighbours
\* of the series have one timestamp, in whatever order the files were given.
TypeOK ==
  /\ [stat_type |-> stat_type, series |-> series] \in Inputs
  /\ pc \in {"compute", "sort", "quantiles", "pick", "done"}
  /\ values \in Seq(Double)
  /\ descending \in BOOLEAN
  /\ result = <<>> \/ result \in [Fields -> Double]

\* No index is outside the vector, for either order: not for one value, which a
\* derivative of two samples is, and not for a thousand.
InRange == pc = "pick" => \A f \in Fields : Index(f) \in 0..Len(values) - 1

Computed == pc = "done" /\ result # <<>>

\* What the values were before they were sorted.
RawValues == IF stat_type = "derive" THEN Rates ELSE SampleValues

\* No two neighbours agree both in timestamp and in value: < orders the values,
\* infinities included.
Comparable == \A i \in 1..Len(RawValues) : ~NaN(RawValues[i])

Leq(a, b) == ~Less(b, a)

\* min <= p0.1 <= p1 <= ... <= p999 <= max, if no value is NaN.
Ordered ==
  Computed /\ Comparable =>
    /\ \A f, g \in DOMAIN Thousandths :
         Thousandths[f] <= Thousandths[g] => Leq(result[f], result[g])
    /\ \A f \in DOMAIN Thousandths :
         Leq(result["min"], result[f]) /\ Leq(result[f], result["max"])

\* min and max bound every value of the series, if none is NaN, and are two of
\* them.
Extremes ==
  Computed /\ Comparable =>
    /\ \A i \in 1..Len(RawValues) :
         Leq(result["min"], RawValues[i]) /\ Leq(RawValues[i], result["max"])
    /\ \E i, j \in 1..Len(RawValues) :
         result["min"] = RawValues[i] /\ result["max"] = RawValues[j]

\* Each field is the quantile its name says: no more than that share of the
\* series lies below it, and no less is at most it.  (Index alone cannot say
\* this: in descending values it counts from the other end.)  Again no value may
\* be NaN.
IsQuantile ==
  Computed /\ Comparable =>
    \A f \in DOMAIN Thousandths :
      LET n == Len(RawValues)
          below == {i \in 1..n : ~Leq(result[f], RawValues[i])}
          upTo  == {i \in 1..n : Leq(RawValues[i], result[f])}
      IN /\ 1000 * Cardinality(below) <= Thousandths[f] * n
         /\ 1000 * Cardinality(upTo) >= Thousandths[f] * n

\* Recorded in order, the mean rate from the first sample to the last lies
\* between the smallest and the largest of the rates: each is the difference of
\* two neighbours, and every pair of neighbours has one.
Increasing == \A i \in 1..Len(series) - 1 : series[i].timestamp < series[i + 1].timestamp

MeanInBetween ==
  Computed /\ stat_type = "derive" /\ Increasing =>
    LET n == Len(series)
        mean == [num |-> series[n].value - series[1].value,
                 den |-> series[n].timestamp - series[1].timestamp]
    IN Leq(result["min"], mean) /\ Leq(mean, result["max"])
=============================================================================
