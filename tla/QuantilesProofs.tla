--------------------------- MODULE QuantilesProofs ---------------------------
(***************************************************************************)
(* The statistics of a series, for series of every length and every value. *)
(*                                                                         *)
(* The values that get_quantiles picks from are a permutation of the       *)
(* values of the series (Permuted) and in order (InOrder).  That a picked  *)
(* value is the quantile it is called is then counting: the permutation    *)
(* takes the values below it to the positions before it, or, in descending *)
(* order, to those after it.                                               *)
(*                                                                         *)
(* std::is_sorted compares neighbours only; that every two values are in   *)
(* order follows because < is transitive on doubles (LeqTransitive), the   *)
(* infinities that a division by zero gives included, but not NaN.         *)
(***************************************************************************)
EXTENDS Quantiles, FiniteSetTheorems, WellFoundedInduction, TLAPS

\* The first n values of v are those of w in some order.
IsPermutation(v, w, n) ==
  \E f \in Bijection(1..n, 1..n) : \A i \in 1..n : v[i] = w[f[i]]

Permuted ==
  /\ Len(values) = Len(RawValues)
  /\ IsPermutation(values, RawValues, Len(values))

InOrder ==
  Comparable => IF descending THEN Descending(values) ELSE Ascending(values)

IInv ==
  /\ TypeOK
  /\ pc # "done" => result = <<>>
  /\ pc \in {"sort", "quantiles", "pick"} \/ Computed =>
       Permuted /\ Len(series) >= 2
  /\ pc = "pick" \/ Computed => InOrder
  /\ Computed => result = [f \in Fields |-> values[Index(f) + 1]]

-----------------------------------------------------------------------------
(***************************************************************************)
(* Facts about indexes.                                                    *)
(***************************************************************************)
LEMMA Shares ==
  ASSUME NEW f \in DOMAIN Thousandths
  PROVE  Thousandths[f] \in Nat /\ 0 < Thousandths[f] /\ Thousandths[f] < 1000
<1>1. Thousandths[f] \in {1, 10, 100, 250, 500, 750, 900, 990, 999}
  BY DEF Thousandths
<1> QED
  BY <1>1

\* min and max are fields, and no quantiles.
LEMMA NamesDiffer ==
  DOMAIN Thousandths \subseteq Fields /\ {"min", "max"} \cap DOMAIN Thousandths = {}
BY DEF Thousandths, Fields

\* Less than all of a vector is inside it.
LEMMA ShareInRange ==
  ASSUME NEW n \in Nat \ {0}, NEW k \in Nat, 0 < k, k < 1000
  PROVE  /\ (n * k) \div 1000 \in 0..n - 1
         /\ 1000 * ((n * k) \div 1000) <= n * k
         /\ n * k < 1000 * ((n * k) \div 1000) + 1000
<1>1. n * k \in Nat /\ n * k < 1000 * n
  BY SMT
<1>2. \A x \in Nat : /\ x \div 1000 \in Nat
                     /\ 1000 * (x \div 1000) <= x
                     /\ x < 1000 * (x \div 1000) + 1000
  BY SMT
<1>3. /\ (n * k) \div 1000 \in Nat
      /\ 1000 * ((n * k) \div 1000) <= n * k
      /\ n * k < 1000 * ((n * k) \div 1000) + 1000
  BY <1>1, <1>2
<1>4. 1000 * ((n * k) \div 1000) < 1000 * n
  BY <1>1, <1>3
<1>5. \A y \in Nat : 1000 * y < 1000 * n => y \in 0..n - 1
  BY SMT
<1> QED
  BY <1>3, <1>4, <1>5

\* A larger share is no smaller an index.
LEMMA ShareMonotone ==
  ASSUME NEW n \in Nat, NEW j \in Nat, NEW k \in Nat, j <= k
  PROVE  (n * j) \div 1000 <= (n * k) \div 1000
<1> DEFINE x == n * j
           y == n * k
<1>1. x \in Nat /\ y \in Nat /\ x <= y
  BY SMT
<1> HIDE DEF x, y
<1>2. x \div 1000 <= y \div 1000
  BY <1>1, SMT
<1> QED
  BY <1>2 DEF x, y

\* What Index is, without the names of the fields.
LEMMA IndexIs ==
  ASSUME NEW n, n = Len(values)
  PROVE  /\ Index("min") = IF descending THEN n - 1 ELSE 0
         /\ Index("max") = IF descending THEN 0 ELSE n - 1
         /\ \A f \in DOMAIN Thousandths :
              Index(f) = IF descending THEN (n * (1000 - Thousandths[f])) \div 1000
                                       ELSE (n * Thousandths[f]) \div 1000
<1>1. Index("min") = IF descending THEN n - 1 ELSE 0
  BY DEF Index
<1>2. Index("max") = IF descending THEN 0 ELSE n - 1
  BY DEF Index
<1>3. ASSUME NEW f \in DOMAIN Thousandths
      PROVE  Index(f) = IF descending THEN (n * (1000 - Thousandths[f])) \div 1000
                                      ELSE (n * Thousandths[f]) \div 1000
  <2>1. f # "min" /\ f # "max"
    BY NamesDiffer
  <2> QED
    BY <2>1 DEF Index
<1> QED
  BY <1>1, <1>2, <1>3

\* Every index of a vector that is not empty is inside it.
LEMMA IndexInRange ==
  ASSUME NEW n \in Nat \ {0}, n = Len(values), NEW f \in Fields
  PROVE  Index(f) \in 0..n - 1
<1>1. CASE f \in DOMAIN Thousandths
  <2> DEFINE k == Thousandths[f]
             l == 1000 - k
  <2>1. k \in Nat /\ 0 < k /\ k < 1000
    BY <1>1, Shares
  <2>2. Index(f) = (n * l) \div 1000 \/ Index(f) = (n * k) \div 1000
    BY <1>1, IndexIs
  <2>3. l \in Nat /\ 0 < l /\ l < 1000
    BY <2>1
  <2> HIDE DEF k, l
  <2>4. (n * k) \div 1000 \in 0..n - 1 /\ (n * l) \div 1000 \in 0..n - 1
    BY <2>1, <2>3, ShareInRange
  <2> QED
    BY <2>2, <2>4
<1>2. CASE f = "min" \/ f = "max"
  <2>1. Index(f) = 0 \/ Index(f) = n - 1
    BY <1>2, IndexIs
  <2>2. 0 \in 0..n - 1 /\ n - 1 \in 0..n - 1
    OBVIOUS
  <2> QED
    BY <2>1, <2>2
<1> QED
  BY <1>1, <1>2 DEF Fields

-----------------------------------------------------------------------------
(***************************************************************************)
(* Facts about permutations.                                               *)
(***************************************************************************)
LEMMA BijectionFacts ==
  ASSUME NEW n, NEW f \in Bijection(1..n, 1..n)
  PROVE  /\ f \in [1..n -> 1..n]
         /\ \A i, j \in 1..n : f[i] = f[j] => i = j
         /\ \A b \in 1..n : \E i \in 1..n : f[i] = b
<1>1. f \in Injection(1..n, 1..n) /\ f \in Surjection(1..n, 1..n)
  BY DEF Bijection
<1>2. f \in [1..n -> 1..n] /\ IsInjective(f)
  BY <1>1 DEF Injection
<1>3. DOMAIN f = 1..n
  BY <1>2
<1>4. \A i, j \in 1..n : f[i] = f[j] => i = j
  BY <1>2, <1>3 DEF IsInjective
<1>5. \A b \in 1..n : \E i \in 1..n : f[i] = b
  BY <1>1 DEF Surjection
<1> QED
  BY <1>2, <1>4, <1>5

\* A function between intervals of which the same is true is one.
LEMMA IsBijection ==
  ASSUME NEW n, NEW f \in [1..n -> 1..n],
         \A i, j \in 1..n : f[i] = f[j] => i = j,
         \A b \in 1..n : \E i \in 1..n : f[i] = b
  PROVE  f \in Bijection(1..n, 1..n)
<1>1. IsInjective(f)
  BY DEF IsInjective
<1>2. f \in Injection(1..n, 1..n)
  BY <1>1 DEF Injection
<1>3. f \in Surjection(1..n, 1..n)
  BY DEF Surjection
<1> QED
  BY <1>2, <1>3 DEF Bijection

\* The indexes of a set that a permutation takes from an interval are no more
\* than the interval is long ...
LEMMA CountAtMost ==
  ASSUME NEW n \in Nat, NEW f \in Bijection(1..n, 1..n), NEW B \in SUBSET (1..n),
         NEW lo \in Int, NEW hi \in Int, lo <= hi + 1,
         \A j \in 1..n : f[j] \in B => j \in lo..hi
  PROVE  IsFiniteSet(B) /\ Cardinality(B) \in Nat /\ Cardinality(B) <= hi - lo + 1
<1> DEFINE h == [b \in B |-> CHOOSE j \in 1..n : f[j] = b]
<1>1. \A b \in 1..n : \E i \in 1..n : f[i] = b
  BY BijectionFacts
<1>2. \A b \in B : h[b] \in 1..n /\ f[h[b]] = b
  BY <1>1
<1>3. h \in [B -> lo..hi]
  BY <1>2
<1>4. \A b, c \in B : h[b] = h[c] => b = c
  BY <1>2
<1> HIDE DEF h
<1>5. IsInjective(h)
  BY <1>3, <1>4 DEF IsInjective
<1>6. h \in Injection(B, lo..hi)
  BY <1>3, <1>5 DEF Injection
<1>7. IsFiniteSet(lo..hi)
  BY FS_Interval
<1>8. Cardinality(lo..hi) = hi - lo + 1
  BY FS_Interval
<1>9. IsFiniteSet(B) /\ Cardinality(B) <= Cardinality(lo..hi)
  BY <1>6, <1>7, FS_Injection
<1> QED
  BY <1>8, <1>9, FS_CardinalityType

\* ... and no fewer if it takes all of the interval there.
LEMMA CountAtLeast ==
  ASSUME NEW n \in Nat, NEW f \in Bijection(1..n, 1..n), NEW U \in SUBSET (1..n),
         NEW lo \in 1..n, NEW hi \in 1..n, lo <= hi + 1,
         \A j \in lo..hi : f[j] \in U
  PROVE  Cardinality(U) \in Nat /\ hi - lo + 1 <= Cardinality(U)
<1> DEFINE h == [j \in lo..hi |-> f[j]]
<1>1. \A i, j \in 1..n : f[i] = f[j] => i = j
  BY BijectionFacts
<1>2. h \in [lo..hi -> U]
  OBVIOUS
<1>3. \A i, j \in lo..hi : h[i] = h[j] => i = j
  BY <1>1
<1> HIDE DEF h
<1>4. IsInjective(h)
  BY <1>2, <1>3 DEF IsInjective
<1>5. h \in Injection(lo..hi, U)
  BY <1>2, <1>4 DEF Injection
<1>6. Cardinality(lo..hi) = hi - lo + 1
  BY FS_Interval
<1>7. IsFiniteSet(1..n)
  BY FS_Interval
<1>8. IsFiniteSet(U)
  BY <1>7, FS_Subset
<1>9. Cardinality(lo..hi) <= Cardinality(U)
  BY <1>5, <1>8, FS_Injection
<1> QED
  BY <1>6, <1>8, <1>9, FS_CardinalityType

\* One permutation after another.
LEMMA Compose ==
  ASSUME NEW n \in Nat, NEW f \in Bijection(1..n, 1..n), NEW g \in Bijection(1..n, 1..n)
  PROVE  [i \in 1..n |-> f[g[i]]] \in Bijection(1..n, 1..n)
<1> DEFINE h == [i \in 1..n |-> f[g[i]]]
<1>1. /\ f \in [1..n -> 1..n]
      /\ \A i, j \in 1..n : f[i] = f[j] => i = j
      /\ \A b \in 1..n : \E i \in 1..n : f[i] = b
  BY BijectionFacts
<1>2. /\ g \in [1..n -> 1..n]
      /\ \A i, j \in 1..n : g[i] = g[j] => i = j
      /\ \A b \in 1..n : \E i \in 1..n : g[i] = b
  BY BijectionFacts
<1>3. h \in [1..n -> 1..n]
  BY <1>1, <1>2
<1>4. \A i, j \in 1..n : h[i] = h[j] => i = j
  BY <1>1, <1>2
<1>5. ASSUME NEW b \in 1..n PROVE \E i \in 1..n : h[i] = b
  <2>1. PICK c \in 1..n : f[c] = b
    BY <1>1
  <2>2. PICK i \in 1..n : g[i] = c
    BY <1>2
  <2> QED
    BY <2>1, <2>2
<1> HIDE DEF h
<1>6. h \in Bijection(1..n, 1..n)
  BY <1>3, <1>4, <1>5, IsBijection
<1> QED
  BY <1>6 DEF h

-----------------------------------------------------------------------------
(***************************************************************************)
(* Facts about the order of doubles.                                       *)
(***************************************************************************)
\* A set that has 0 and with each number the next has every number.  (Stated of
\* a set, and not of a predicate, so that it can be cited with any set.)
LEMMA Induction ==
  ASSUME NEW T, 0 \in T, \A n \in Nat : n \in T => n + 1 \in T
  PROVE  Nat \subseteq T
<1> DEFINE less == {ss \in Nat \X Nat : ss[1] < ss[2]}
<1>1. less = OpToRel(<, Nat)
  BY DEF OpToRel
<1>2. IsWellFoundedOn(less, Nat)
  BY <1>1, NatLessThanWellFounded
<1>3. SUFFICES ASSUME Nat \ T # {} PROVE FALSE
  OBVIOUS
<1>4. PICK n \in Nat \ T : \A m \in Nat \ T : ~(<<m, n>> \in less)
  <2> HIDE DEF less
  <2>1. Nat \ T \subseteq Nat
    OBVIOUS
  <2> QED
    BY <1>2, <1>3, <2>1, WFMin
<1>5. n # 0 /\ n - 1 \in Nat /\ n - 1 < n
  BY <1>4
<1>6. n - 1 \in T
  BY <1>4, <1>5
<1> QED
  BY <1>4, <1>5, <1>6

\* The sign of a product with a positive number.
LEMMA Sign ==
  ASSUME NEW x \in Int, NEW d \in Nat \ {0}
  PROVE  /\ x * d \in Int
         /\ (x * d > 0 <=> x > 0) /\ (x * d < 0 <=> x < 0)
         /\ x * 0 = 0 /\ 0 * d = 0
BY SMT

\* Fractions are ordered by cross-multiplication.
LEMMA CrossTransitive ==
  ASSUME NEW a \in Int, NEW b \in Int, NEW c \in Int,
         NEW p \in Nat \ {0}, NEW q \in Nat \ {0}, NEW r \in Nat \ {0},
         a * q <= b * p, b * r <= c * q
  PROVE  a * r <= c * p
<1>1. (a * q) * r <= (b * p) * r /\ (b * r) * p <= (c * q) * p
  BY SMT
<1>2. (b * p) * r = (b * r) * p /\ (a * q) * r = (a * r) * q /\ (c * q) * p = (c * p) * q
  BY SMT
<1>3. (a * r) * q <= (c * p) * q
  BY <1>1, <1>2, SMT
<1>4. a * r \in Int /\ c * p \in Int
  OBVIOUS
<1>5. \A x, y \in Int : x * q <= y * q => x <= y
  BY SMT
<1> QED
  BY <1>3, <1>4, <1>5, Zenon

\* The order of two fractions is that of the products.
LEMMA CrossLeq ==
  ASSUME NEW a, NEW b, a.num \in Int, a.den \in Nat \ {0}, b.num \in Int, b.den \in Nat \ {0}
  PROVE  Leq(a, b) <=> a.num * b.den <= b.num * a.den
<1>1. a.num * b.den \in Int /\ b.num * a.den \in Int
  OBVIOUS
<1> QED
  BY <1>1 DEF Leq, Less

\* What is not greater than what is not greater is not greater, unless it is NaN.
LEMMA LeqTransitive ==
  ASSUME NEW a \in Value, NEW b \in Value, NEW c \in Value,
         ~NaN(a), ~NaN(b), ~NaN(c), Leq(a, b), Leq(b, c)
  PROVE  Leq(a, c)
<1>1. /\ a.num \in Int /\ b.num \in Int /\ c.num \in Int
      /\ a.den \in Nat /\ b.den \in Nat /\ c.den \in Nat
      /\ a.den = 0 => a.num # 0
      /\ b.den = 0 => b.num # 0
      /\ c.den = 0 => c.num # 0
  BY DEF Value, NaN
<1>2. ASSUME NEW x \in {a, b, c}, NEW y \in {a, b, c}
      PROVE  /\ x.den # 0 /\ y.den # 0 => (Leq(x, y) <=> x.num * y.den <= y.num * x.den)
             /\ x.den # 0 /\ y.den = 0 => (Leq(x, y) <=> y.num > 0)
             /\ x.den = 0 /\ y.den # 0 => (Leq(x, y) <=> x.num < 0)
             /\ x.den = 0 /\ y.den = 0 => (Leq(x, y) <=> x.num < 0 \/ y.num > 0)
  <2>1. /\ x.num \in Int /\ y.num \in Int /\ x.den \in Nat /\ y.den \in Nat
        /\ x.den = 0 => x.num # 0
        /\ y.den = 0 => y.num # 0
    BY <1>1
  <2>2. ASSUME x.den # 0, y.den # 0 PROVE Leq(x, y) <=> x.num * y.den <= y.num * x.den
    BY <2>1, <2>2, CrossLeq
  <2>3. ASSUME x.den # 0, y.den = 0 PROVE Leq(x, y) <=> y.num > 0
    <3>1. Leq(x, y) <=> ~(y.num * x.den < x.num * 0)
      BY <2>3 DEF Leq, Less
    <3>2. x.den \in Nat \ {0}
      BY <2>1, <2>3
    <3>3. x.num * 0 = 0 /\ (y.num * x.den < 0 <=> y.num < 0)
      BY <2>1, <3>2, Sign
    <3>4. Leq(x, y) <=> ~(y.num < 0)
      BY <3>1, <3>3
    <3> QED
      BY <2>1, <2>3, <3>4
  <2>4. ASSUME x.den = 0, y.den # 0 PROVE Leq(x, y) <=> x.num < 0
    <3>1. Leq(x, y) <=> ~(y.num * 0 < x.num * y.den)
      BY <2>4 DEF Leq, Less
    <3>2. y.den \in Nat \ {0}
      BY <2>1, <2>4
    <3>3. y.num * 0 = 0 /\ (0 < x.num * y.den <=> x.num > 0)
      BY <2>1, <3>2, Sign
    <3>4. Leq(x, y) <=> ~(x.num > 0)
      BY <3>1, <3>3
    <3> QED
      BY <2>1, <2>4, <3>4
  <2>5. ASSUME x.den = 0, y.den = 0 PROVE Leq(x, y) <=> x.num < 0 \/ y.num > 0
    <3>1. Leq(x, y) <=> ~(y.num < 0 /\ x.num > 0)
      BY <2>5 DEF Leq, Less
    <3> QED
      BY <2>1, <2>5, <3>1
  <2> QED
    BY <2>2, <2>3, <2>4, <2>5
<1>3. CASE a.den # 0 /\ b.den # 0 /\ c.den # 0
  <2>1. a.num * b.den <= b.num * a.den /\ b.num * c.den <= c.num * b.den
    BY <1>2, <1>3
  <2>2. a.num * c.den <= c.num * a.den
    BY <1>1, <1>3, <2>1, CrossTransitive
  <2> QED
    BY <1>2, <1>3, <2>2
<1>4. CASE a.den = 0
  <2>1. a.num < 0 \/ (b.den = 0 /\ b.num > 0)
    BY <1>2, <1>4
  <2>2. b.den = 0 /\ b.num > 0 => c.den = 0 /\ c.num > 0
    BY <1>1, <1>2
  <2> QED
    BY <1>2, <1>4, <2>1, <2>2
<1>5. CASE a.den # 0 /\ b.den = 0
  <2>1. b.num > 0
    BY <1>2, <1>5
  <2>2. c.den = 0 /\ c.num > 0
    BY <1>1, <1>2, <1>5, <2>1
  <2> QED
    BY <1>2, <1>5, <2>2
<1>6. CASE a.den # 0 /\ b.den # 0 /\ c.den = 0
  BY <1>2, <1>6
<1> QED
  BY <1>3, <1>4, <1>5, <1>6

\* A value is not less than itself.
LEMMA LeqReflexive ==
  ASSUME NEW a \in Value
  PROVE  Leq(a, a)
<1>1. a.num \in Int /\ a.den \in Nat
  BY DEF Value
<1>2. a.num * a.den \in Int
  BY <1>1
<1> QED
  BY <1>1, <1>2 DEF Leq, Less

\* Where no value is greater than its neighbour, none is greater than a later one.
LEMMA Chain ==
  ASSUME NEW n \in Nat, NEW v, \A i \in 1..n : v[i] \in Value /\ ~NaN(v[i]),
         \A i \in 1..n - 1 : Leq(v[i], v[i + 1])
  PROVE  \A i, j \in 1..n : i <= j => Leq(v[i], v[j])
<1> SUFFICES ASSUME NEW i \in 1..n PROVE \A j \in 1..n : i <= j => Leq(v[i], v[j])
  OBVIOUS
<1> DEFINE T == {k \in Nat : i + k <= n => Leq(v[i], v[i + k])}
<1>1. 0 \in T
  BY LeqReflexive
<1>2. ASSUME NEW k \in Nat, k \in T PROVE k + 1 \in T
  <2>1. SUFFICES ASSUME i + (k + 1) <= n PROVE Leq(v[i], v[i + (k + 1)])
    OBVIOUS
  <2>2. i + k \in 1..n - 1 /\ i + k \in 1..n /\ i + (k + 1) \in 1..n /\ (i + k) + 1 = i + (k + 1)
    BY <2>1
  <2>3. Leq(v[i], v[i + k])
    BY <1>2, <2>2
  <2>4. Leq(v[i + k], v[i + (k + 1)])
    BY <2>2
  <2> QED
    BY <2>2, <2>3, <2>4, LeqTransitive
<1> HIDE DEF T
<1>3. Nat \subseteq T
  BY <1>1, <1>2, Induction
<1>4. ASSUME NEW j \in 1..n, i <= j PROVE Leq(v[i], v[j])
  <2>1. j - i \in T /\ i + (j - i) = j
    BY <1>3, <1>4
  <2> QED
    BY <2>1 DEF T
<1> QED
  BY <1>4

\* The same for values that descend.
LEMMA ChainDown ==
  ASSUME NEW n \in Nat, NEW v, \A i \in 1..n : v[i] \in Value /\ ~NaN(v[i]),
         \A i \in 1..n - 1 : Leq(v[i + 1], v[i])
  PROVE  \A i, j \in 1..n : i <= j => Leq(v[j], v[i])
<1> DEFINE w == [i \in 1..n |-> v[n + 1 - i]]
<1>1. \A i \in 1..n : n + 1 - i \in 1..n /\ w[i] = v[n + 1 - i]
  OBVIOUS
<1>2. \A i \in 1..n : w[i] \in Value /\ ~NaN(w[i])
  BY <1>1
<1>3. ASSUME NEW i \in 1..n - 1 PROVE Leq(w[i], w[i + 1])
  <2>1. i \in 1..n /\ i + 1 \in 1..n /\ n - i \in 1..n - 1 /\ n + 1 - i = (n - i) + 1
        /\ n + 1 - (i + 1) = n - i
    OBVIOUS
  <2>2. w[i] = v[(n - i) + 1] /\ w[i + 1] = v[n - i]
    BY <1>1, <2>1
  <2> QED
    BY <2>1, <2>2
<1> HIDE DEF w
<1>4. \A i, j \in 1..n : i <= j => Leq(w[i], w[j])
  BY <1>2, <1>3, Chain
<1>5. ASSUME NEW i \in 1..n, NEW j \in 1..n, i <= j PROVE Leq(v[j], v[i])
  <2>1. /\ n + 1 - j \in 1..n /\ n + 1 - i \in 1..n /\ n + 1 - j <= n + 1 - i
        /\ n + 1 - (n + 1 - j) = j /\ n + 1 - (n + 1 - i) = i
    BY <1>5
  <2>2. w[n + 1 - j] = v[j] /\ w[n + 1 - i] = v[i]
    BY <1>1, <2>1
  <2> QED
    BY <1>4, <2>1, <2>2
<1> QED
  BY <1>5

-----------------------------------------------------------------------------
(***************************************************************************)
(* Facts about the values of a series.                                     *)
(***************************************************************************)
\* The difference of two timestamps that differ is not 0, even if it wraps.
LEMMA WrappedDifference ==
  ASSUME NEW m \in Nat \ {0}, NEW a \in 0..m - 1, NEW b \in 0..m - 1
  PROVE  (a - b) % m \in Nat /\ (a # b => (a - b) % m # 0)
<1>1. (a - b) % m \in 0..m - 1
  BY SMT
<1>2. a - b = m * ((a - b) \div m) + ((a - b) % m)
  BY SMT
<1>3. ASSUME NEW q \in Int, a - b = m * q, a # b PROVE FALSE
  <2>1. -m < m * q /\ m * q < m
    BY <1>3
  <2>2. q = 0
    BY <2>1, SMT
  <2> QED
    BY <1>3, <2>2
<1> QED
  BY <1>1, <1>2, <1>3

\* A vector filled index by index is a sequence of that length.
LEMMA FunctionIsSeq ==
  ASSUME NEW n \in Nat, NEW S, NEW g \in [1..n -> S]
  PROVE  g \in Seq(S) /\ Len(g) = n
BY SMT

\* The types of the input.
LEMMA SeriesType ==
  ASSUME TypeOK
  PROVE  /\ stat_type \in StatType
         /\ series \in Seq(Sample)
<1> DEFINE in == [stat_type |-> stat_type, series |-> series]
<1>1. in \in Inputs
  BY DEF TypeOK
<1>2. in.stat_type = stat_type /\ in.series = series
  OBVIOUS
<1>3. in \in [stat_type : StatType, series : Seq(Sample)]
  BY <1>1, QuantilesAssumption
<1>5. stat_type \in StatType /\ series \in Seq(Sample)
  BY <1>3
<1> HIDE DEF in
<1> QED
  BY <1>2, <1>5

\* Every fraction is a double, and so is every other value unless neighbours
\* are known to differ in time.
LEMMA FractionIsDouble ==
  Fraction \subseteq Double /\ (~TimesDiffer => Double = Value)
<1>1. Fraction \subseteq Value
  BY DEF Fraction, Value
<1> QED
  BY <1>1, Zenon DEF Double

\* compute_gauge has one value per sample ...
LEMMA SampleValuesType ==
  ASSUME TypeOK
  PROVE  SampleValues \in [1..Len(series) -> Double]
<1>1. ASSUME NEW i \in 1..Len(series) PROVE Whole(series[i].value) \in Double
  <2>1. series[i] \in Sample
    BY SeriesType
  <2>2. series[i].value \in Int
    BY <2>1 DEF Sample
  <2>3. Whole(series[i].value) \in Fraction
    BY <2>2 DEF Whole, Fraction
  <2> QED
    BY <2>3, FractionIsDouble
<1> QED
  BY <1>1 DEF SampleValues

\* ... and compute_derive one per pair of neighbours, a fraction if they differ
\* in time.
LEMMA RatesType ==
  ASSUME TypeOK
  PROVE  Rates \in [1..Len(series) - 1 -> Double]
<1>1. ASSUME NEW i \in 1..Len(series) - 1
      PROVE  [num |-> series[i + 1].value - series[i].value,
              den |-> (series[i + 1].timestamp - series[i].timestamp) % TsMod] \in Double
  <2>1. series \in Seq(Sample)
    BY SeriesType
  <2>2. i \in 1..Len(series) /\ i + 1 \in 1..Len(series)
    BY <2>1
  <2>3. series[i] \in Sample /\ series[i + 1] \in Sample
    BY <2>1, <2>2
  <2>4. /\ series[i].value \in Int /\ series[i + 1].value \in Int
        /\ series[i].timestamp \in 0..TsMod - 1 /\ series[i + 1].timestamp \in 0..TsMod - 1
    BY <2>3 DEF Sample
  <2>5. TsMod \in Nat \ {0}
    BY QuantilesAssumption
  <2>6. /\ (series[i + 1].timestamp - series[i].timestamp) % TsMod \in Nat
        /\ TimesDiffer => (series[i + 1].timestamp - series[i].timestamp) % TsMod # 0
    BY <2>4, <2>5, WrappedDifference DEF TimesDiffer
  <2>7. series[i + 1].value - series[i].value \in Int
    BY <2>4
  <2>8. CASE TimesDiffer
    <3>1. (series[i + 1].timestamp - series[i].timestamp) % TsMod \in Nat \ {0}
      BY <2>6, <2>8
    <3>2. [num |-> series[i + 1].value - series[i].value,
           den |-> (series[i + 1].timestamp - series[i].timestamp) % TsMod] \in Fraction
      BY <2>7, <3>1 DEF Fraction
    <3> QED
      BY <3>2, FractionIsDouble
  <2>9. CASE ~TimesDiffer
    <3>1. [num |-> series[i + 1].value - series[i].value,
           den |-> (series[i + 1].timestamp - series[i].timestamp) % TsMod] \in Value
      BY <2>6, <2>7 DEF Value
    <3> QED
      BY <2>9, <3>1, FractionIsDouble
  <2> QED
    BY <2>8, <2>9
<1> QED
  BY <1>1 DEF Rates

\* How many values there are, and what they are.
LEMMA RawValuesType ==
  ASSUME TypeOK, Len(series) >= 1
  PROVE  /\ RawValues \in [1..Len(RawValues) -> Double]
         /\ Len(RawValues) = IF stat_type = "derive" THEN Len(series) - 1 ELSE Len(series)
<1>1. Len(series) \in Nat \ {0}
  BY SeriesType
<1>2. CASE stat_type = "derive"
  <2>1. RawValues = Rates
    BY <1>2 DEF RawValues
  <2>2. Rates \in [1..Len(series) - 1 -> Double]
    BY RatesType
  <2>3. Len(series) - 1 \in Nat
    BY <1>1
  <2>4. Len(Rates) = Len(series) - 1
    BY <2>2, <2>3, FunctionIsSeq
  <2> QED
    BY <1>2, <2>1, <2>2, <2>4
<1>3. CASE stat_type # "derive"
  <2>1. RawValues = SampleValues
    BY <1>3 DEF RawValues
  <2>2. SampleValues \in [1..Len(series) -> Double]
    BY SampleValuesType
  <2>3. Len(SampleValues) = Len(series)
    BY <1>1, <2>2, FunctionIsSeq
  <2> QED
    BY <1>3, <2>1, <2>2, <2>3
<1> QED
  BY <1>2, <1>3

-----------------------------------------------------------------------------
(***************************************************************************)
(* Each step preserves the invariant.                                      *)
(***************************************************************************)
\* Sorting a permutation of the values leaves a permutation of them.
LEMMA PermutationsCompose ==
  ASSUME NEW n \in Nat, NEW u, NEW v, NEW w, IsPermutation(w, v, n), IsPermutation(v, u, n)
  PROVE  IsPermutation(w, u, n)
<1>1. PICK g \in Bijection(1..n, 1..n) : \A i \in 1..n : w[i] = v[g[i]]
  BY DEF IsPermutation
<1>2. PICK f \in Bijection(1..n, 1..n) : \A i \in 1..n : v[i] = u[f[i]]
  BY DEF IsPermutation
<1> DEFINE h == [i \in 1..n |-> f[g[i]]]
<1>3. h \in Bijection(1..n, 1..n)
  BY Compose
<1>4. g \in [1..n -> 1..n]
  BY BijectionFacts
<1>5. \A i \in 1..n : w[i] = u[h[i]]
  BY <1>1, <1>2, <1>4
<1> HIDE DEF h
<1> QED
  BY <1>3, <1>5 DEF IsPermutation

\* The values as they come are a permutation of themselves.
LEMMA Unsorted ==
  ASSUME NEW n \in Nat, NEW v
  PROVE  IsPermutation(v, v, n)
<1> DEFINE f == [i \in 1..n |-> i]
<1>1. f \in [1..n -> 1..n]
  OBVIOUS
<1>2. (\A i, j \in 1..n : f[i] = f[j] => i = j) /\ (\A b \in 1..n : \E i \in 1..n : f[i] = b)
  OBVIOUS
<1>3. \A i \in 1..n : v[i] = v[f[i]]
  OBVIOUS
<1> HIDE DEF f
<1>4. f \in Bijection(1..n, 1..n)
  BY <1>1, <1>2, IsBijection
<1> QED
  BY <1>3, <1>4 DEF IsPermutation

\* A permutation brings no NaN in.
LEMMA NoneIsNaN ==
  ASSUME NEW n \in Nat, n = Len(RawValues), IsPermutation(values, RawValues, n), Comparable
  PROVE  \A i \in 1..n : ~NaN(values[i])
<1>1. PICK f \in Bijection(1..n, 1..n) : \A i \in 1..n : values[i] = RawValues[f[i]]
  BY DEF IsPermutation
<1>2. f \in [1..n -> 1..n]
  BY BijectionFacts
<1> QED
  BY <1>1, <1>2 DEF Comparable

\* The series is an input: its values do not change.
LEMMA PermutedKept ==
  ASSUME UNCHANGED <<series, stat_type>>
  PROVE  /\ RawValues' = RawValues
         /\ Double' = Double
         /\ Comparable' <=> Comparable
         /\ Permuted /\ values' = values => Permuted'
<1>1. RawValues' = RawValues
  BY DEF RawValues, Rates, SampleValues
<1>2. ASSUME Permuted, values' = values PROVE Permuted'
  BY <1>1, <1>2 DEF Permuted
<1>3. TimesDiffer' <=> TimesDiffer
  BY DEF TimesDiffer
<1>4. Double' = Double
  BY <1>3, Zenon DEF Double
<1>5. Comparable' <=> Comparable
  BY <1>1 DEF Comparable, NaN
<1> QED
  BY <1>1, <1>2, <1>4, <1>5

\* std::sort leaves the same values, in ascending order if it can tell it.
LEMMA SortStep ==
  ASSUME TypeOK, Permuted, Sort, UNCHANGED <<series, stat_type>>
  PROVE  /\ Permuted'
         /\ values' \in Seq(Double)
         /\ Comparable => Ascending(values')
<1>1. RawValues' = RawValues
  BY PermutedKept
<1>2. PICK n : n = Len(values)
  OBVIOUS
<1>3. n \in Nat /\ values \in [1..n -> Double] /\ Len(RawValues) = n
  BY <1>2 DEF TypeOK, Permuted
<1>4. PICK g \in Bijection(1..n, 1..n) :
        /\ \/ Ascending([i \in 1..n |-> values[g[i]]])
           \/ \E i \in 1..n : NaN(values[i])
        /\ values' = [i \in 1..n |-> values[g[i]]]
  BY <1>2 DEF Sort
<1>5. g \in [1..n -> 1..n]
  BY BijectionFacts
<1>6. values' \in [1..n -> Double]
  BY <1>3, <1>4, <1>5
<1>7. values' \in Seq(Double) /\ Len(values') = n
  BY <1>3, <1>6, FunctionIsSeq
<1>8. IsPermutation(values', values, n)
  BY <1>4 DEF IsPermutation
<1>9. IsPermutation(values, RawValues, n)
  BY <1>2 DEF Permuted
<1>10. IsPermutation(values', RawValues, n)
  BY <1>3, <1>8, <1>9, PermutationsCompose
<1>11. Permuted'
  BY <1>1, <1>3, <1>7, <1>10 DEF Permuted
<1>12. ASSUME Comparable PROVE Ascending(values')
  <2>1. \A i \in 1..n : ~NaN(values[i])
    BY <1>3, <1>9, <1>12, NoneIsNaN
  <2> QED
    BY <1>4, <2>1, Zenon
<1> QED
  BY <1>7, <1>11, <1>12

\* The invariant holds before anything is computed ...
LEMMA InitIInv == Init => IInv
<1> SUFFICES ASSUME Init PROVE IInv
  OBVIOUS
<1>1. PICK in \in Inputs : stat_type = in.stat_type /\ series = in.series
  BY DEF Init
<1>2. in \in [stat_type : StatType, series : Seq(Sample)]
  BY QuantilesAssumption
<1>3. [stat_type |-> stat_type, series |-> series] = in
  BY <1>1, <1>2
<1>4. pc = "compute" /\ values = <<>> /\ descending = FALSE /\ result = <<>>
  BY DEF Init
<1>5. [stat_type |-> stat_type, series |-> series] \in Inputs
  BY <1>3
<1>6. values \in Seq(Double)
  BY <1>4
<1>7. TypeOK
  BY <1>4, <1>5, <1>6 DEF TypeOK
<1> QED
  BY <1>4, <1>7 DEF IInv, Computed

\* ... and each operation preserves it.
LEMMA ComputeIInv == IInv /\ Compute => IInv'
<1> SUFFICES ASSUME IInv, Compute PROVE IInv'
  OBVIOUS
<1>1. TypeOK /\ result = <<>>
  BY DEF IInv, Compute
<1>2. series' = series /\ stat_type' = stat_type /\ descending' = descending /\ result' = result
  BY DEF Compute
<1>3. RawValues' = RawValues /\ Double' = Double
  BY <1>2, PermutedKept
<1>4. Len(series) \in Nat
  BY <1>1, SeriesType
<1>5. CASE values' = values /\ pc' = "done"
  <2>1. TypeOK'
    BY <1>1, <1>2, <1>3, <1>5 DEF TypeOK
  <2> QED
    BY <1>1, <1>2, <1>5, <2>1 DEF IInv, Computed
<1>6. CASE values' = RawValues /\ pc' \in {"sort", "quantiles"} /\ Len(series) >= 2
  <2>1. RawValues \in [1..Len(RawValues) -> Double] /\ Len(RawValues) \in Nat /\ Len(RawValues) >= 1
    BY <1>1, <1>4, <1>6, RawValuesType
  <2>2. values' \in Seq(Double)
    BY <1>6, <2>1, FunctionIsSeq
  <2>3. TypeOK'
    BY <1>1, <1>2, <1>3, <1>6, <2>2 DEF TypeOK
  <2>4. IsPermutation(RawValues, RawValues, Len(RawValues))
    BY <2>1, Unsorted
  <2>5. Permuted'
    BY <1>3, <1>6, <2>4 DEF Permuted
  <2> QED
    BY <1>1, <1>2, <1>6, <2>3, <2>5 DEF IInv, Computed
<1>7. CASE stat_type \in {"counter", "gauge"} /\ ComputeGauge
  <2>1. RawValues = SampleValues
    BY <1>7 DEF RawValues
  <2> QED
    BY <1>4, <1>5, <1>6, <1>7, <2>1 DEF ComputeGauge, ZeroResult
<1>8. CASE stat_type = "derive" /\ ComputeDerive
  <2>1. RawValues = Rates
    BY <1>8 DEF RawValues
  <2> QED
    BY <1>4, <1>5, <1>6, <1>8, <2>1 DEF ComputeDerive, ZeroResult
<1>9. CASE stat_type = "none" /\ ZeroResult
  BY <1>5, <1>9 DEF ZeroResult
<1> QED
  BY <1>7, <1>8, <1>9 DEF Compute

\* Where there are values, there is a series.
LEMMA Sampled ==
  ASSUME IInv, pc \in {"sort", "quantiles", "pick"} \/ Computed
  PROVE  /\ TypeOK /\ Permuted /\ Len(series) >= 1
         /\ Len(RawValues) \in Nat \ {0}
         /\ Len(values) = Len(RawValues)
         /\ values \in [1..Len(RawValues) -> Double]
<1>1. TypeOK /\ Permuted /\ Len(series) >= 2
  BY DEF IInv
<1>2. Len(series) \in Nat
  BY <1>1, SeriesType
<1>3. Len(RawValues) \in Nat \ {0}
  BY <1>1, <1>2, RawValuesType
<1>4. Len(values) = Len(RawValues) /\ values \in [1..Len(values) -> Double]
  BY <1>1 DEF TypeOK, Permuted
<1> QED
  BY <1>1, <1>2, <1>3, <1>4

\* The sort of compute_derive.
LEMMA SortRatesIInv == IInv /\ SortRates => IInv'
<1> SUFFICES ASSUME IInv, SortRates PROVE IInv'
  OBVIOUS
<1>1. pc = "sort" /\ pc' = "quantiles" /\ UNCHANGED <<series, stat_type, descending, result>> /\ Sort
  BY DEF SortRates
<1>2. TypeOK /\ Permuted /\ Len(series) >= 1
  BY <1>1, Sampled
<1>3. Permuted' /\ values' \in Seq(Double) /\ Double' = Double
  BY <1>1, <1>2, SortStep, PermutedKept
<1>4. TypeOK'
  BY <1>1, <1>2, <1>3 DEF TypeOK
<1> QED
  BY <1>1, <1>2, <1>3, <1>4 DEF IInv, Computed

\* The values end up in the order that the indexes assume.
LEMMA OrderIInv == IInv /\ Order => IInv'
<1> SUFFICES ASSUME IInv, Order PROVE IInv'
  OBVIOUS
<1>1. pc = "quantiles" /\ pc' = "pick" /\ UNCHANGED <<series, stat_type, result>>
  BY DEF Order
<1>2. TypeOK /\ Permuted /\ Len(series) >= 1
  BY <1>1, Sampled
<1>3. descending' = Descending(values) /\ Descending(values) \in BOOLEAN
  BY DEF Order, Descending
<1>4. Permuted' /\ values' \in Seq(Double) /\ InOrder'
  <2>1. CASE Descending(values) \/ Ascending(values)
    <3>1. values' = values
      BY <2>1 DEF Order
    <3>2. Permuted'
      BY <1>1, <1>2, <3>1, PermutedKept
    <3>3. InOrder'
      <4>1. Comparable' <=> Comparable
        BY <1>1, PermutedKept
      <4> QED
        BY <1>3, <2>1, <3>1, <4>1, Zenon DEF InOrder
    <3> QED
      BY <1>2, <3>1, <3>2, <3>3 DEF TypeOK
  <2>2. CASE ~(Descending(values) \/ Ascending(values))
    <3>1. Sort
      BY <2>2 DEF Order
    <3>2. /\ Permuted' /\ values' \in Seq(Double)
          /\ Comparable => Ascending(values')
          /\ Comparable' <=> Comparable
      BY <1>1, <1>2, <3>1, SortStep, PermutedKept
    <3>3. InOrder'
      BY <1>3, <2>2, <3>2, Zenon DEF InOrder
    <3> QED
      BY <3>2, <3>3
  <2> QED
    BY <2>1, <2>2
<1>5. Double' = Double
  BY <1>1, PermutedKept
<1>6. TypeOK'
  BY <1>1, <1>2, <1>3, <1>4, <1>5 DEF TypeOK
<1> QED
  BY <1>1, <1>4, <1>6 DEF IInv, Computed

\* The result is read from them.
LEMMA PickIInv == IInv /\ Pick => IInv'
<1> SUFFICES ASSUME IInv, Pick PROVE IInv'
  OBVIOUS
<1>1. /\ pc = "pick" /\ pc' = "done"
      /\ UNCHANGED <<series, stat_type, values, descending>>
      /\ result' = [f \in Fields |-> values[Index(f) + 1]]
  BY DEF Pick
<1> DEFINE n == Len(RawValues)
<1>2. TypeOK /\ Permuted /\ n \in Nat \ {0} /\ Len(values) = n /\ values \in [1..n -> Double]
  BY <1>1, Sampled
<1>3. ASSUME NEW f \in Fields PROVE values[Index(f) + 1] \in Double
  <2>1. Index(f) \in 0..n - 1
    BY <1>2, IndexInRange
  <2>2. Index(f) + 1 \in 1..n
    BY <1>2, <2>1
  <2> QED
    BY <1>2, <2>2
<1>4. result' \in [Fields -> Double]
  BY <1>1, <1>3
<1>5. TypeOK'
  <2>1. Double' = Double
    BY <1>1, PermutedKept
  <2> QED
    BY <1>1, <1>2, <1>4, <2>1 DEF TypeOK
<1>6. Permuted' /\ (Comparable' <=> Comparable)
  BY <1>1, <1>2, PermutedKept
<1>7. InOrder
  BY <1>1 DEF IInv
<1>8. InOrder'
  BY <1>1, <1>6, <1>7, Zenon DEF InOrder
<1>9. result' = [f \in Fields |-> values'[(Index(f))' + 1]]
  BY <1>1 DEF Index
<1> QED
  BY <1>1, <1>2, <1>5, <1>6, <1>8, <1>9 DEF IInv, Computed

\* Every step, then, preserves the invariant ...
LEMMA NextIInv == IInv /\ [Next]_vars => IInv'
<1> SUFFICES ASSUME IInv, [Next]_vars PROVE IInv'
  OBVIOUS
<1>1. CASE Compute
  BY <1>1, ComputeIInv
<1>2. CASE SortRates
  BY <1>2, SortRatesIInv
<1>3. CASE Order
  BY <1>3, OrderIInv
<1>4. CASE Pick
  BY <1>4, PickIInv
<1>5. CASE UNCHANGED vars
  <2>1. TypeOK => TypeOK'
    <3>1. Double' = Double
      BY <1>5, PermutedKept DEF vars
    <3> QED
      BY <1>5, <3>1 DEF vars, TypeOK
  <2>2. Permuted => Permuted'
    BY <1>5, PermutedKept DEF vars
  <2>3. InOrder => InOrder'
    <3>1. Comparable' <=> Comparable
      BY <1>5, PermutedKept DEF vars
    <3>2. values' = values /\ descending' = descending
      BY <1>5 DEF vars
    <3> QED
      BY <3>1, <3>2, Zenon DEF InOrder
  <2>4. /\ (pc # "done" => result = <<>>)'
        /\ (Computed => result = [f \in Fields |-> values[Index(f) + 1]])'
    BY <1>5 DEF vars, IInv, Computed, Index
  <2> QED
    BY <1>5, <2>1, <2>2, <2>3, <2>4 DEF vars, IInv, Computed
<1> QED
  BY <1>1, <1>2, <1>3, <1>4, <1>5 DEF Next, Reported

\* ... which holds of every behaviour of summarize on one series.
THEOREM Invariance == Spec => []IInv
BY InitIInv, NextIInv, PTL DEF Spec

\* Every value is a double, and a derivative divides by 0 only where two
\* neighbours of the series have one timestamp, however the differences wrap.
THEOREM TypeCorrect == Spec => []TypeOK
<1>1. IInv => TypeOK
  BY DEF IInv
<1> QED
  BY <1>1, Invariance, PTL

-----------------------------------------------------------------------------
(***************************************************************************)
(* What the quantiles are.                                                 *)
(***************************************************************************)
\* get_quantiles reads inside its vector, however many values there are.
THEOREM InRangeHolds == Spec => []InRange
<1>1. ASSUME IInv PROVE InRange
  <2>1. ASSUME pc = "pick", NEW f \in Fields PROVE Index(f) \in 0..Len(values) - 1
    BY <1>1, <2>1, Sampled, IndexInRange
  <2> QED
    BY <2>1 DEF InRange
<1> QED
  BY <1>1, Invariance, PTL

\* What the state is when there is a result: n values in order, of which each
\* field is one.
LEMMA ResultIs ==
  ASSUME IInv, Computed, Comparable
  PROVE  \E n \in Nat \ {0} :
           /\ n = Len(values) /\ n = Len(RawValues)
           /\ IsPermutation(values, RawValues, n)
           /\ \A i, j \in 1..n :
                i <= j => IF descending THEN Leq(values[j], values[i])
                                        ELSE Leq(values[i], values[j])
           /\ \A f \in Fields : Index(f) \in 0..n - 1 /\ result[f] = values[Index(f) + 1]
<1>1. PICK n \in Nat \ {0} : n = Len(values) /\ n = Len(RawValues)
  BY Sampled
<1>2. IsPermutation(values, RawValues, n)
  BY <1>1, Sampled DEF Permuted
<1>3. InOrder /\ result = [f \in Fields |-> values[Index(f) + 1]]
  BY DEF IInv
<1>4. \A i \in 1..n : values[i] \in Value /\ ~NaN(values[i])
  <2>1. values \in [1..n -> Double]
    BY <1>1, Sampled
  <2>2. Double \subseteq Value
    BY DEF Double, Fraction, Value
  <2>3. \A i \in 1..n : ~NaN(values[i])
    BY <1>1, <1>2, NoneIsNaN
  <2> QED
    BY <2>1, <2>2, <2>3
<1>5. ASSUME NEW f \in Fields PROVE Index(f) \in 0..n - 1 /\ result[f] = values[Index(f) + 1]
  <2>1. Index(f) \in 0..n - 1
    BY <1>1, IndexInRange
  <2> QED
    BY <1>3, <2>1
<1>6. CASE descending
  <2>1. \A i \in 1..n - 1 : Leq(values[i + 1], values[i])
    BY <1>1, <1>3, <1>6 DEF InOrder, Descending, Leq
  <2>2. \A i, j \in 1..n : i <= j => Leq(values[j], values[i])
    BY <1>4, <2>1, ChainDown
  <2> QED
    BY <1>1, <1>2, <1>5, <1>6, <2>2
<1>7. CASE ~descending
  <2>1. \A i \in 1..n - 1 : Leq(values[i], values[i + 1])
    BY <1>1, <1>3, <1>7 DEF InOrder, Ascending, Leq
  <2>2. \A i, j \in 1..n : i <= j => Leq(values[i], values[j])
    BY <1>4, <2>1, Chain
  <2> QED
    BY <1>1, <1>2, <1>5, <1>7, <2>2
<1> QED
  BY <1>6, <1>7

\* The quantiles never decrease from min to max.
THEOREM OrderedHolds == Spec => []Ordered
<1>1. ASSUME IInv, Computed, Comparable,
             NEW f \in DOMAIN Thousandths, NEW g \in DOMAIN Thousandths,
             Thousandths[f] <= Thousandths[g]
      PROVE  Leq(result[f], result[g])
  <2>1. PICK n \in Nat \ {0} :
          /\ n = Len(values)
          /\ \A i, j \in 1..n :
               i <= j => IF descending THEN Leq(values[j], values[i])
                                       ELSE Leq(values[i], values[j])
          /\ \A h \in Fields : Index(h) \in 0..n - 1 /\ result[h] = values[Index(h) + 1]
    BY <1>1, ResultIs
  <2>2. f \in Fields /\ g \in Fields
    BY NamesDiffer
  <2>3. /\ Thousandths[f] \in Nat /\ Thousandths[f] < 1000
        /\ Thousandths[g] \in Nat /\ Thousandths[g] < 1000
    BY Shares
  <2>4. CASE descending
    <3> DEFINE j == 1000 - Thousandths[f]
               k == 1000 - Thousandths[g]
    <3>1. j \in Nat /\ k \in Nat /\ k <= j
      BY <1>1, <2>3
    <3>2. Index(f) = (n * j) \div 1000 /\ Index(g) = (n * k) \div 1000
      BY <2>1, <2>4, IndexIs
    <3> HIDE DEF j, k
    <3>3. (n * k) \div 1000 <= (n * j) \div 1000
      BY <3>1, ShareMonotone
    <3> QED
      BY <2>1, <2>2, <2>4, <3>2, <3>3
  <2>5. CASE ~descending
    <3> DEFINE j == Thousandths[f]
               k == Thousandths[g]
    <3>1. j \in Nat /\ k \in Nat /\ j <= k
      BY <1>1, <2>3
    <3>2. Index(f) = (n * j) \div 1000 /\ Index(g) = (n * k) \div 1000
      BY <2>1, <2>5, IndexIs
    <3> HIDE DEF j, k
    <3>3. (n * j) \div 1000 <= (n * k) \div 1000
      BY <3>1, ShareMonotone
    <3> QED
      BY <2>1, <2>2, <2>5, <3>2, <3>3
  <2> QED
    BY <2>4, <2>5
<1>2. ASSUME IInv, Computed, Comparable, NEW f \in Fields
      PROVE  Leq(result["min"], result[f]) /\ Leq(result[f], result["max"])
  <2>1. PICK n \in Nat \ {0} :
          /\ n = Len(values)
          /\ \A i, j \in 1..n :
               i <= j => IF descending THEN Leq(values[j], values[i])
                                       ELSE Leq(values[i], values[j])
          /\ \A h \in Fields : Index(h) \in 0..n - 1 /\ result[h] = values[Index(h) + 1]
    BY <1>2, ResultIs
  <2>2. "min" \in Fields /\ "max" \in Fields
    BY DEF Fields
  <2>3. /\ Index("min") = IF descending THEN n - 1 ELSE 0
        /\ Index("max") = IF descending THEN 0 ELSE n - 1
    BY <2>1, IndexIs
  <2>4. 1 \in 1..n /\ n \in 1..n /\ Index(f) + 1 \in 1..n
    BY <2>1
  <2>5. CASE descending
    BY <2>1, <2>2, <2>3, <2>4, <2>5
  <2>6. CASE ~descending
    BY <2>1, <2>2, <2>3, <2>4, <2>6
  <2> QED
    BY <2>5, <2>6
<1>3. IInv => Ordered
  BY <1>1, <1>2, NamesDiffer DEF Ordered
<1> QED
  BY <1>3, Invariance, PTL

\* min and max are two of the values, and the others lie between them.
LEMMA Bounds ==
  ASSUME IInv, Computed, Comparable
  PROVE  /\ \A k \in 1..Len(RawValues) :
              Leq(result["min"], RawValues[k]) /\ Leq(RawValues[k], result["max"])
         /\ \E i, j \in 1..Len(RawValues) :
              result["min"] = RawValues[i] /\ result["max"] = RawValues[j]
<1>1. PICK n \in Nat \ {0} :
        /\ n = Len(values) /\ n = Len(RawValues)
        /\ IsPermutation(values, RawValues, n)
        /\ \A i, j \in 1..n :
             i <= j => IF descending THEN Leq(values[j], values[i])
                                     ELSE Leq(values[i], values[j])
        /\ \A h \in Fields : Index(h) \in 0..n - 1 /\ result[h] = values[Index(h) + 1]
  BY ResultIs
<1>2. PICK p \in Bijection(1..n, 1..n) : \A i \in 1..n : values[i] = RawValues[p[i]]
  BY <1>1 DEF IsPermutation
<1>3. p \in [1..n -> 1..n] /\ \A b \in 1..n : \E i \in 1..n : p[i] = b
  BY BijectionFacts
<1>4. /\ result["min"] = IF descending THEN values[n] ELSE values[1]
      /\ result["max"] = IF descending THEN values[1] ELSE values[n]
  <2>1. "min" \in Fields /\ "max" \in Fields
    BY DEF Fields
  <2>2. /\ Index("min") = IF descending THEN n - 1 ELSE 0
        /\ Index("max") = IF descending THEN 0 ELSE n - 1
    BY <1>1, IndexIs
  <2> QED
    BY <1>1, <2>1, <2>2
<1>5. 1 \in 1..n /\ n \in 1..n
  OBVIOUS
<1>6. ASSUME NEW k \in 1..n
      PROVE  Leq(result["min"], RawValues[k]) /\ Leq(RawValues[k], result["max"])
  <2>1. PICK i \in 1..n : p[i] = k
    BY <1>3
  <2>2. RawValues[k] = values[i]
    BY <1>2, <2>1
  <2> QED
    BY <1>1, <1>4, <1>5, <2>2
<1>7. p[1] \in 1..n /\ p[n] \in 1..n /\ values[1] = RawValues[p[1]] /\ values[n] = RawValues[p[n]]
  BY <1>2, <1>3, <1>5
<1> QED
  BY <1>1, <1>4, <1>6, <1>7

\* min and max are the smallest and the largest value of the series, sorted or not.
THEOREM ExtremesHolds == Spec => []Extremes
<1>1. IInv => Extremes
  BY Bounds DEF Extremes
<1> QED
  BY <1>1, Invariance, PTL

\* The values below a field, and those up to it, by number.
Below(f) == {i \in 1..Len(RawValues) : ~Leq(result[f], RawValues[i])}
UpTo(f) == {i \in 1..Len(RawValues) : Leq(RawValues[i], result[f])}

\* Each field is the quantile it is named after, for values in either order.
THEOREM IsQuantileHolds == Spec => []IsQuantile
<1>1. ASSUME IInv, Computed, Comparable, NEW f \in DOMAIN Thousandths,
             NEW n, n = Len(RawValues),
             NEW below, below = Below(f), NEW upTo, upTo = UpTo(f)
      PROVE  /\ 1000 * Cardinality(below) <= Thousandths[f] * n
             /\ 1000 * Cardinality(upTo) >= Thousandths[f] * n
  <2>1. /\ n \in Nat \ {0} /\ n = Len(values)
        /\ IsPermutation(values, RawValues, n)
        /\ \A i, j \in 1..n :
             i <= j => IF descending THEN Leq(values[j], values[i])
                                     ELSE Leq(values[i], values[j])
        /\ \A h \in Fields : Index(h) \in 0..n - 1 /\ result[h] = values[Index(h) + 1]
    BY <1>1, ResultIs
  <2>2. PICK p \in Bijection(1..n, 1..n) : \A i \in 1..n : values[i] = RawValues[p[i]]
    BY <2>1 DEF IsPermutation
  <2>3. p \in [1..n -> 1..n]
    BY BijectionFacts
  <2>4. PICK m \in 0..n - 1 : m = Index(f)
    BY <2>1, NamesDiffer
  <2>5. result[f] = values[m + 1]
    BY <2>1, <2>4, NamesDiffer
  <2>6. PICK k \in Nat : k = Thousandths[f] /\ 0 < k /\ k < 1000
    BY Shares
  <2>7. below \in SUBSET (1..n) /\ upTo \in SUBSET (1..n)
    BY <1>1 DEF Below, UpTo
  <2>8. \A j \in 1..n : /\ (p[j] \in below <=> ~Leq(values[m + 1], values[j]))
                        /\ (p[j] \in upTo <=> Leq(values[j], values[m + 1]))
    BY <1>1, <2>2, <2>3, <2>5 DEF Below, UpTo
  <2>9. m + 1 \in 1..n
    BY <2>1, <2>4
  <2> DEFINE share == n * k
  <2>10. share \in Nat /\ Thousandths[f] * n = share
    BY <2>1, <2>6
  <2>11. CASE ~descending
    <3>1. m = (n * k) \div 1000
      BY <2>1, <2>4, <2>6, <2>11, IndexIs
    <3>2. 1000 * m <= share /\ share < 1000 * m + 1000
      BY <2>1, <2>6, <3>1, ShareInRange
    <3>3. \A j \in 1..n : p[j] \in below => j \in 1..m
      BY <2>1, <2>8, <2>9, <2>11
    <3>4. \A j \in 1..m + 1 : p[j] \in upTo
      BY <2>1, <2>8, <2>9, <2>11
    <3>5. /\ n \in Nat /\ 1 \in Int /\ m \in Int /\ 1 <= m + 1
          /\ 1 \in 1..n
      BY <2>1
    <3>6. Cardinality(below) \in Nat /\ Cardinality(below) <= m - 1 + 1
      BY <2>7, <3>3, <3>5, CountAtMost, Zenon
    <3>7. Cardinality(upTo) \in Nat /\ m + 1 <= Cardinality(upTo)
      <4>1. PICK hi \in 1..n : hi = m + 1
        BY <2>9
      <4>2. 1 <= hi + 1
        BY <4>1
      <4>3. \A j \in 1..hi : p[j] \in upTo
        BY <3>4, <4>1
      <4>4. Cardinality(upTo) \in Nat /\ hi - 1 + 1 <= Cardinality(upTo)
        BY <2>7, <3>5, <4>2, <4>3, CountAtLeast, Zenon
      <4> QED
        BY <2>1, <4>1, <4>4
    <3> HIDE DEF share
    <3> QED
      BY <2>1, <2>10, <3>2, <3>6, <3>7
  <2>12. CASE descending
    <3> DEFINE l == 1000 - k
    <3>1. l \in Nat /\ 0 < l /\ l < 1000 /\ n * l = 1000 * n - share
      BY <2>1, <2>6
    <3>2. m = (n * l) \div 1000
      BY <2>1, <2>4, <2>6, <2>12, IndexIs
    <3> HIDE DEF l
    <3>3. 1000 * m <= n * l /\ n * l < 1000 * m + 1000
      BY <2>1, <3>1, <3>2, ShareInRange
    <3>4. \A j \in 1..n : p[j] \in below => j \in m + 2..n
      BY <2>1, <2>8, <2>9, <2>12
    <3>5. \A j \in m + 1..n : p[j] \in upTo
      BY <2>1, <2>8, <2>9, <2>12
    <3>6. /\ n \in Nat /\ m + 2 \in Int /\ n \in Int /\ m + 2 <= n + 1
          /\ n \in 1..n
      BY <2>1
    <3>7. Cardinality(below) \in Nat /\ Cardinality(below) <= n - (m + 2) + 1
      BY <2>7, <3>4, <3>6, CountAtMost, Zenon
    <3>8. Cardinality(upTo) \in Nat /\ n - m <= Cardinality(upTo)
      <4>1. PICK lo \in 1..n : lo = m + 1
        BY <2>9
      <4>2. lo <= n + 1
        BY <2>1, <4>1
      <4>3. \A j \in lo..n : p[j] \in upTo
        BY <3>5, <4>1
      <4>4. Cardinality(upTo) \in Nat /\ n - lo + 1 <= Cardinality(upTo)
        BY <2>7, <3>6, <4>2, <4>3, CountAtLeast, Zenon
      <4> QED
        BY <2>1, <4>1, <4>4
    <3>9. 1000 * m <= 1000 * n - share /\ 1000 * n - share < 1000 * m + 1000
      BY <3>1, <3>3
    <3> HIDE DEF share
    <3> QED
      BY <2>1, <2>10, <3>7, <3>8, <3>9
  <2> QED
    BY <2>11, <2>12
<1>2. ASSUME IInv, Computed, Comparable, NEW f \in DOMAIN Thousandths
      PROVE  LET n == Len(RawValues)
                 below == {i \in 1..n : ~Leq(result[f], RawValues[i])}
                 upTo == {i \in 1..n : Leq(RawValues[i], result[f])}
             IN /\ 1000 * Cardinality(below) <= Thousandths[f] * n
                /\ 1000 * Cardinality(upTo) >= Thousandths[f] * n
  <2>1. /\ 1000 * Cardinality(Below(f)) <= Thousandths[f] * Len(RawValues)
        /\ 1000 * Cardinality(UpTo(f)) >= Thousandths[f] * Len(RawValues)
    BY <1>1, <1>2
  <2> QED
    BY <2>1 DEF Below, UpTo
<1>3. IInv => IsQuantile
  BY <1>2 DEF IsQuantile
<1> QED
  BY <1>3, Invariance, PTL

-----------------------------------------------------------------------------
(***************************************************************************)
(* The mean rate.                                                          *)
(***************************************************************************)
LEMMA TwoSteps ==
  ASSUME NEW x, NEW y, NEW k \in Nat,
         x[1] \in Int /\ x[k + 1] \in Int /\ x[k + 2] \in Int,
         y[1] \in Int /\ y[k + 1] \in Int /\ y[k + 2] \in Int,
         x[k + 1] - x[1] <= y[k + 1] - y[1],
         x[k + 2] - x[k + 1] <= y[k + 2] - y[k + 1]
  PROVE  x[k + 2] - x[1] <= y[k + 2] - y[1]
OBVIOUS

\* If no step of x is larger than that of y, neither is the way from the first to
\* the last.
LEMMA Telescope ==
  ASSUME NEW n \in Nat, NEW x \in [1..n + 1 -> Int], NEW y \in [1..n + 1 -> Int],
         \A i \in 1..n : x[i + 1] - x[i] <= y[i + 1] - y[i]
  PROVE  x[n + 1] - x[1] <= y[n + 1] - y[1]
<1> DEFINE T == {k \in Nat : k <= n => x[k + 1] - x[1] <= y[k + 1] - y[1]}
<1>1. 0 \in T
  OBVIOUS
<1>2. ASSUME NEW k \in Nat, k \in T PROVE k + 1 \in T
  <2>1. SUFFICES ASSUME k + 1 <= n PROVE x[k + 2] - x[1] <= y[k + 2] - y[1]
    OBVIOUS
  <2>2. /\ x[1] \in Int /\ x[k + 1] \in Int /\ x[k + 2] \in Int
        /\ y[1] \in Int /\ y[k + 1] \in Int /\ y[k + 2] \in Int
    BY <2>1
  <2>3. x[k + 1] - x[1] <= y[k + 1] - y[1]
    BY <1>2, <2>1
  <2>4. x[k + 2] - x[k + 1] <= y[k + 2] - y[k + 1]
    <3>1. k + 1 \in 1..n /\ (k + 1) + 1 = k + 2
      BY <2>1
    <3> QED
      BY <3>1
  <2> QED
    BY <2>2, <2>3, <2>4, TwoSteps, Zenon
<1> HIDE DEF T
<1>3. n \in T
  BY <1>1, <1>2, Induction
<1> QED
  BY <1>3 DEF T

\* Timestamps that increase are as far apart as their difference modulo 2^64.
LEMMA PlainDifference ==
  ASSUME NEW m \in Nat \ {0}, NEW a \in 0..m - 1, NEW b \in 0..m - 1, a < b
  PROVE  (b - a) % m = b - a
<1> DEFINE d == b - a
<1>1. d \in 0..m - 1
  OBVIOUS
<1> HIDE DEF d
<1>2. d % m = d
  BY <1>1, SMT
<1> QED
  BY <1>2 DEF d

\* A product of a difference is a difference of products.
LEMMA Scaled ==
  ASSUME NEW a \in Int, NEW b \in Int, NEW u \in Int, NEW w \in Int,
         NEW r \in Int, NEW s \in Int
  PROVE  /\ a * (u - w) <= (r - s) * b <=> a * u - a * w <= r * b - s * b
         /\ (r - s) * b <= a * (u - w) <=> r * b - s * b <= a * u - a * w
<1>1. a * (u - w) = a * u - a * w /\ (r - s) * b = r * b - s * b
  BY SMT
<1> QED
  BY <1>1

\* The mean rate of a series lies between the smallest and the largest of its
\* rates, however long it is: no rate is left out and none overwritten.
THEOREM MeanInBetweenHolds == Spec => []MeanInBetween
<1>1. ASSUME IInv, Computed, stat_type = "derive", Increasing,
             NEW n, n = Len(series),
             NEW mean, mean = [num |-> series[n].value - series[1].value,
                               den |-> series[n].timestamp - series[1].timestamp]
      PROVE  Leq(result["min"], mean) /\ Leq(mean, result["max"])
  <2>1. /\ TypeOK /\ n \in Nat /\ n >= 2
        /\ series \in [1..n -> Sample]
    <3>1. TypeOK /\ Len(series) >= 2
      BY <1>1 DEF IInv
    <3> QED
      BY <1>1, <3>1, SeriesType
  <2>2. PICK k \in Nat : n = k + 1 /\ k >= 1
    BY <2>1
  <2>3. TsMod \in Nat \ {0}
    BY QuantilesAssumption
  <2> DEFINE t == [i \in 1..k + 1 |-> series[i].timestamp]
             v == [i \in 1..k + 1 |-> series[i].value]
  <2>4. t \in [1..k + 1 -> 0..TsMod - 1] /\ v \in [1..k + 1 -> Int]
    BY <2>1, <2>2 DEF Sample
  <2>5. ASSUME NEW i \in 1..k
        PROVE  /\ i \in 1..k + 1 /\ i + 1 \in 1..k + 1
               /\ i \in 1..Len(RawValues)
               /\ RawValues[i].num = v[i + 1] - v[i]
               /\ RawValues[i].den = t[i + 1] - t[i]
               /\ RawValues[i].num \in Int
               /\ RawValues[i].den \in Nat \ {0}
    <3>1. i \in 1..k + 1 /\ i + 1 \in 1..k + 1 /\ i \in 1..Len(series) - 1
      BY <1>1, <2>2
    <3>2. RawValues = Rates /\ Len(Rates) = Len(series) - 1
      BY <1>1, <2>1, RatesType DEF RawValues
    <3>3. Rates[i] = [num |-> series[i + 1].value - series[i].value,
                      den |-> (series[i + 1].timestamp - series[i].timestamp) % TsMod]
      BY <3>1 DEF Rates
    <3>4. t[i] \in 0..TsMod - 1 /\ t[i + 1] \in 0..TsMod - 1 /\ t[i] < t[i + 1]
      BY <1>1, <2>4, <3>1 DEF Increasing
    <3>5. (t[i + 1] - t[i]) % TsMod = t[i + 1] - t[i]
      BY <2>3, <3>4, PlainDifference
    <3>6. v[i] \in Int /\ v[i + 1] \in Int
      BY <2>4, <3>1
    <3>7. RawValues[i].num = v[i + 1] - v[i] /\ RawValues[i].den = t[i + 1] - t[i]
      BY <3>1, <3>2, <3>3, <3>5
    <3>8. v[i + 1] - v[i] \in Int /\ t[i + 1] - t[i] \in Nat \ {0}
      BY <3>4, <3>6
    <3> QED
      BY <3>1, <3>2, <3>7, <3>8
  <2>6. /\ result["min"] \in Fraction /\ result["max"] \in Fraction
    <3>1. TimesDiffer
      <4>1. ASSUME NEW i \in 1..Len(series) - 1
            PROVE  series[i].timestamp # series[i + 1].timestamp
        <5>1. i \in 1..n /\ i + 1 \in 1..n
          BY <1>1, <2>1
        <5>2. series[i].timestamp \in Int /\ series[i + 1].timestamp \in Int
          BY <2>1, <2>3, <5>1 DEF Sample
        <5>3. series[i].timestamp < series[i + 1].timestamp
          BY <1>1 DEF Increasing
        <5> QED
          BY <5>2, <5>3
      <4> QED
        BY <4>1 DEF TimesDiffer
    <3>2. Double = Fraction
      BY <3>1 DEF Double
    <3> QED
      BY <1>1, <2>1, <3>2 DEF TypeOK, Fields, Computed
  <2>7. ASSUME NEW q \in Fraction PROVE q.num \in Int /\ q.den \in Nat \ {0}
    BY DEF Fraction
  <2>13. /\ mean.num = v[k + 1] - v[1] /\ mean.den = t[k + 1] - t[1]
         /\ mean.num \in Int /\ mean.den \in Nat \ {0}
    <3>1. 1 \in 1..k + 1 /\ k + 1 \in 1..k + 1
      BY <2>2
    <3>2. mean.num = v[k + 1] - v[1] /\ mean.den = t[k + 1] - t[1]
      BY <1>1, <2>2, <3>1
    <3>3. \A i \in 1..k : t[i] < t[i + 1]
      <4>1. ASSUME NEW i \in 1..k PROVE t[i] < t[i + 1]
        <5>1. i \in 1..Len(series) - 1 /\ i \in 1..k + 1 /\ i + 1 \in 1..k + 1
          BY <1>1, <2>2
        <5> QED
          BY <1>1, <5>1 DEF Increasing
      <4> QED
        BY <4>1
    <3>4. t[1] < t[k + 1]
      <4> DEFINE x == [i \in 1..k + 1 |-> i]
      <4>1. x \in [1..k + 1 -> Int] /\ t \in [1..k + 1 -> Int]
        BY <2>4
      <4>2. ASSUME NEW i \in 1..k PROVE x[i + 1] - x[i] <= t[i + 1] - t[i]
        <5>1. x[i + 1] = i + 1 /\ x[i] = i
          OBVIOUS
        <5>2. i \in 1..k + 1 /\ i + 1 \in 1..k + 1
          OBVIOUS
        <5>3. t[i] \in Int /\ t[i + 1] \in Int
          BY <4>1, <5>2
        <5> HIDE DEF x, t
        <5> QED
          BY <3>3, <5>1, <5>3
      <4>3. x[k + 1] = k + 1 /\ x[1] = 1
        BY <3>1
      <4> HIDE DEF x, t
      <4>4. x[k + 1] - x[1] <= t[k + 1] - t[1]
        BY <4>1, <4>2, Telescope
      <4>5. t[1] \in Int /\ t[k + 1] \in Int
        BY <3>1, <4>1
      <4> QED
        BY <2>2, <4>3, <4>4, <4>5
    <3>5. v[1] \in Int /\ v[k + 1] \in Int /\ t[1] \in Int /\ t[k + 1] \in Int
      BY <2>4, <3>1
    <3> HIDE DEF t, v
    <3> QED
      BY <3>2, <3>4, <3>5
  <2> HIDE DEF t, v
  <2>8. \A a, b \in Int : a * b \in Int
    OBVIOUS
  <2>9. ASSUME NEW q \in Fraction, \A i \in 1..k : Leq(q, RawValues[i])
        PROVE  Leq(q, mean)
    <3> DEFINE x == [i \in 1..k + 1 |-> q.num * t[i]]
               y == [i \in 1..k + 1 |-> v[i] * q.den]
    <3>1. q.num \in Int /\ q.den \in Int /\ q.den \in Nat \ {0}
      BY <2>7
    <3>8. \A i \in 1..k + 1 : t[i] \in Int /\ v[i] \in Int
      BY <2>4
    <3>9. \A i \in 1..k + 1 : q.num * t[i] \in Int /\ v[i] * q.den \in Int
      BY <2>8, <3>1, <3>8, Zenon
    <3>2. x \in [1..k + 1 -> Int] /\ y \in [1..k + 1 -> Int]
      BY <3>9
    <3>3. ASSUME NEW i \in 1..k PROVE x[i + 1] - x[i] <= y[i + 1] - y[i]
      <4>1. q.num * (t[i + 1] - t[i]) <= (v[i + 1] - v[i]) * q.den
        <5>1. Leq(q, RawValues[i])
          BY <2>9
        <5>2. q.num * RawValues[i].den <= RawValues[i].num * q.den
          BY <2>5, <3>1, <5>1, CrossLeq
        <5> QED
          BY <2>5, <5>2
      <4>2. t[i] \in Int /\ t[i + 1] \in Int /\ v[i] \in Int /\ v[i + 1] \in Int
        BY <2>4, <2>5
      <4>3. /\ x[i] = q.num * t[i] /\ x[i + 1] = q.num * t[i + 1]
            /\ y[i] = v[i] * q.den /\ y[i + 1] = v[i + 1] * q.den
        BY <2>5
      <4> QED
        BY <3>1, <4>1, <4>2, <4>3, Scaled, Zenon
    <3> HIDE DEF x, y
    <3>4. x[k + 1] - x[1] <= y[k + 1] - y[1]
      BY <3>2, <3>3, Telescope
    <3>5. /\ 1 \in 1..k + 1 /\ k + 1 \in 1..k + 1
          /\ t[1] \in Int /\ t[k + 1] \in Int /\ v[1] \in Int /\ v[k + 1] \in Int
      BY <2>4
    <3>6. q.num * (t[k + 1] - t[1]) <= (v[k + 1] - v[1]) * q.den
      BY <3>1, <3>4, <3>5, Scaled DEF x, y
    <3>7. /\ mean.num = v[k + 1] - v[1] /\ mean.den = t[k + 1] - t[1]
          /\ mean.num \in Int /\ mean.den \in Nat \ {0}
      BY <2>13
    <3> QED
      BY <3>1, <3>6, <3>7, CrossLeq
  <2>10. ASSUME NEW q \in Fraction, \A i \in 1..k : Leq(RawValues[i], q)
        PROVE  Leq(mean, q)
    <3> DEFINE x == [i \in 1..k + 1 |-> v[i] * q.den]
               y == [i \in 1..k + 1 |-> q.num * t[i]]
    <3>1. q.num \in Int /\ q.den \in Int /\ q.den \in Nat \ {0}
      BY <2>7
    <3>8. \A i \in 1..k + 1 : t[i] \in Int /\ v[i] \in Int
      BY <2>4
    <3>9. \A i \in 1..k + 1 : q.num * t[i] \in Int /\ v[i] * q.den \in Int
      BY <2>8, <3>1, <3>8, Zenon
    <3>2. x \in [1..k + 1 -> Int] /\ y \in [1..k + 1 -> Int]
      BY <3>9
    <3>3. ASSUME NEW i \in 1..k PROVE x[i + 1] - x[i] <= y[i + 1] - y[i]
      <4>1. (v[i + 1] - v[i]) * q.den <= q.num * (t[i + 1] - t[i])
        <5>1. Leq(RawValues[i], q)
          BY <2>10
        <5>2. RawValues[i].num * q.den <= q.num * RawValues[i].den
          BY <2>5, <3>1, <5>1, CrossLeq
        <5> QED
          BY <2>5, <5>2
      <4>2. t[i] \in Int /\ t[i + 1] \in Int /\ v[i] \in Int /\ v[i + 1] \in Int
        BY <2>4, <2>5
      <4>3. /\ x[i] = v[i] * q.den /\ x[i + 1] = v[i + 1] * q.den
            /\ y[i] = q.num * t[i] /\ y[i + 1] = q.num * t[i + 1]
        BY <2>5
      <4> QED
        BY <3>1, <4>1, <4>2, <4>3, Scaled, Zenon
    <3> HIDE DEF x, y
    <3>4. x[k + 1] - x[1] <= y[k + 1] - y[1]
      BY <3>2, <3>3, Telescope
    <3>5. /\ 1 \in 1..k + 1 /\ k + 1 \in 1..k + 1
          /\ t[1] \in Int /\ t[k + 1] \in Int /\ v[1] \in Int /\ v[k + 1] \in Int
      BY <2>4
    <3>6. (v[k + 1] - v[1]) * q.den <= q.num * (t[k + 1] - t[1])
      BY <3>1, <3>4, <3>5, Scaled DEF x, y
    <3>7. /\ mean.num = v[k + 1] - v[1] /\ mean.den = t[k + 1] - t[1]
          /\ mean.num \in Int /\ mean.den \in Nat \ {0}
      BY <2>13
    <3> QED
      BY <3>1, <3>6, <3>7, CrossLeq
  <2>11. \A i \in 1..k : Leq(result["min"], RawValues[i]) /\ Leq(RawValues[i], result["max"])
    <3>1. Len(RawValues) = k
      BY <1>1, <2>1, <2>2, RawValuesType
    <3>2. Comparable
      BY <2>5, <3>1 DEF Comparable, NaN
    <3> QED
      BY <1>1, <2>5, <3>2, Bounds
  <2> QED
    BY <2>6, <2>9, <2>10, <2>11
<1>2. IInv => MeanInBetween
  BY <1>1 DEF MeanInBetween
<1> QED
  BY <1>2, Invariance, PTL
=============================================================================
