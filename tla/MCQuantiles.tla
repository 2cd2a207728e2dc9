----------------------------- MODULE MCQuantiles -----------------------------
(***************************************************************************)
(* Quantiles on all short series over a few timestamps, in order and not,  *)
(* and on ascending and descending series of about a thousand samples,     *)
(* where one thousandth is an index of its own.                            *)
(***************************************************************************)
EXTENDS Quantiles

\* The last two have neighbours of one time: a metric named twice, and threads of
\* one process in one series.
Clocks ==
  {<<1, 2, 3, 4>>, <<1, 3, 4, 8>>, <<6, 7, 1, 2>>, <<4, 1, 6, 2>>,
   <<1, 1, 2, 2>>, <<3, 5, 5, 5>>}

ShortSeries ==
  UNION {{[i \in 1..n |-> [timestamp |-> t[i], value |-> v[i]]] :
            t \in Clocks, v \in [1..n -> 0..3]} : n \in 0..4}

Up(n) == [i \in 1..n |-> [timestamp |-> i, value |-> i]]
Down(n) == [i \in 1..n |-> [timestamp |-> i, value |-> n - i]]

MCInputs ==
  [stat_type : {"gauge", "derive"}, series : ShortSeries]
  \cup [stat_type : {"none"}, series : {Up(1), Up(2)}]
  \cup [stat_type : {"counter"}, series : {Up(2), Down(3)}]
  \cup [stat_type : {"gauge"}, series : {Up(999), Down(999), Up(1000), Down(1001)}]
=============================================================================
