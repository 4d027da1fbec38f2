--------------------------- MODULE Metrics_proofs ----------------------------
(***************************************************************************)
(* Proofs about the metrics plugin, for every list of endpoints, every     *)
(* behaviour of them and every well-formed histogram.                      *)
(***************************************************************************)
EXTENDS Metrics, WellFoundedInduction, TLAPS

-----------------------------------------------------------------------------
(* Arithmetic. *)

\* A set of natural numbers that is not empty has a least element.
LEMMA MinIsLeast ==
  ASSUME NEW S \in SUBSET Nat, S # {}
  PROVE  Min(S) \in S /\ \A y \in S : Min(S) <= y
<1> DEFINE Less == {ss \in Nat \X Nat : ss[1] < ss[2]}
<1>1. IsWellFoundedOn(Less, Nat)
  BY NatLessThanWellFounded, Zenon DEF OpToRel
<1>2. PICK x \in S : \A y \in S : ~(<<y, x>> \in Less)
  BY <1>1, WFMin, Zenon
<1>3. \A y, z \in Nat : y < z => <<y, z>> \in Less
  OBVIOUS
<1> HIDE DEF Less
<1>4. \A y \in S : ~(y < x)
  BY <1>2, <1>3
<1>5. \A y \in S : x <= y
  BY <1>4
<1>6. QED
  BY <1>5 DEF Min

\* Multiplication by a natural number keeps the order.
LEMMA TimesKeepsOrder ==
  ASSUME NEW a \in Int, NEW b \in Int, NEW c \in Nat, a <= b
  PROVE  a * c <= b * c
<1>1. (b - a) * c >= 0
  OBVIOUS
<1>2. (b - a) * c = b * c - a * c
  OBVIOUS
<1>3. a * c \in Int /\ b * c \in Int
  OBVIOUS
<1>4. QED
  BY <1>1, <1>2, <1>3

\* The rank of a percentile is one of the observations; it is p percent of them,
\* rounded down, and at least 1.
LEMMA TargetIs ==
  ASSUME NEW h, h.Count \in Nat, h.Count > 0, NEW p \in 1..100
  PROVE  /\ Target(h, p) \in Nat /\ 1 <= Target(h, p) /\ Target(h, p) <= h.Count
         /\ 100 * Target(h, p) > h.Count * p - 100
         /\ \A c \in Nat : c < Target(h, p) => 100 * c < h.Count * p
<1> DEFINE X == h.Count * p
<1>1. X \in Nat /\ X <= h.Count * 100 /\ 1 <= X
  <2>1. X \in Nat
    OBVIOUS
  <2>2. p * h.Count <= 100 * h.Count /\ 1 * h.Count <= p * h.Count
    BY TimesKeepsOrder
  <2>3. QED
    BY <2>1, <2>2
<1> HIDE DEF X
<1>2. X \div 100 \in Nat /\ 100 * (X \div 100) <= X /\ X < 100 * (X \div 100) + 100
  BY <1>1
<1>3. Target(h, p) = larger(X \div 100, 1)
  BY DEF Target, X
<1>4. QED
  BY <1>1, <1>2, <1>3 DEF larger, X

\* A higher percentile has a higher rank, or the same one.
LEMMA TargetGrows ==
  ASSUME NEW h, h.Count \in Nat, NEW p \in 1..100, NEW q \in 1..100, p <= q
  PROVE  Target(h, p) <= Target(h, q)
<1>1. p * h.Count <= q * h.Count /\ h.Count * p \in Nat /\ h.Count * q \in Nat
  BY TimesKeepsOrder
<1>2. \A x, y \in Nat : x <= y => x \div 100 <= y \div 100
  OBVIOUS
<1>3. (h.Count * p) \div 100 <= (h.Count * q) \div 100
  BY <1>1, <1>2
<1>4. QED
  BY <1>1, <1>3 DEF Target, larger

\* Interpolation of a rank t between a bucket's lower bound l, with n0 ranks up
\* to it, and its upper bound u, with n1: the numerator over n1 - n0.
Between(l, u, n0, n1, t) == l * (n1 - n0) + (t - n0) * (u - l)

\* The value is above the lower bound and not above the upper one.
LEMMA BetweenBounds ==
  ASSUME NEW l \in Int, NEW u \in Int, l < u,
         NEW n0 \in Nat, NEW n1 \in Nat, NEW t \in Nat, n0 < t, t <= n1
  PROVE  /\ Between(l, u, n0, n1, t) \in Int
         /\ l * (n1 - n0) < Between(l, u, n0, n1, t)
         /\ Between(l, u, n0, n1, t) <= u * (n1 - n0)
<1> DEFINE c == n1 - n0
           d == t - n0
           w == u - l
<1>1. c \in Nat /\ d \in Nat /\ w \in Nat /\ 1 <= d /\ d <= c /\ 1 <= w
  OBVIOUS
<1>2. Between(l, u, n0, n1, t) = l * c + d * w
  BY DEF Between
<1>3. u * c = l * c + w * c
  OBVIOUS
<1> HIDE DEF c, d, w
<1>4. 1 * w <= d * w /\ d * w <= c * w
  BY <1>1, TimesKeepsOrder
<1>5. d * w \in Int /\ c * w \in Int /\ l * c \in Int /\ w * c = c * w
  BY <1>1
<1>6. l * c < l * c + d * w /\ l * c + d * w <= u * c
  BY <1>1, <1>3, <1>4, <1>5
<1>7. QED
  BY <1>2, <1>5, <1>6 DEF c

\* A higher rank has a higher value.
LEMMA BetweenGrows ==
  ASSUME NEW l \in Int, NEW u \in Int, l < u, NEW n0 \in Nat, NEW n1 \in Nat,
         NEW t \in Nat, NEW s \in Nat, n0 < t, t <= s, s <= n1
  PROVE  Between(l, u, n0, n1, t) <= Between(l, u, n0, n1, s)
<1>1. (t - n0) * (u - l) <= (s - n0) * (u - l)
  BY TimesKeepsOrder
<1>2. (t - n0) * (u - l) \in Int /\ (s - n0) * (u - l) \in Int /\ l * (n1 - n0) \in Int
  OBVIOUS
<1>3. QED
  BY <1>1, <1>2 DEF Between
-----------------------------------------------------------------------------
(* A percentile is in its bucket. *)

\* What is below bucket b.
Below(h, b) == IF b = 1 THEN [Count |-> 0, Le |-> 0] ELSE h.Buckets[b - 1]

\* The observation of rank t is in bucket b.
Falls(h, t, b) ==
  b \in DOMAIN h.Buckets /\ Below(h, b).Count < t /\ t <= h.Buckets[b].Count

\* The value interpolated for rank t in bucket b.
Interpolated(h, t, b) ==
  [num |-> Between(Below(h, b).Le, h.Buckets[b].Le, Below(h, b).Count, h.Buckets[b].Count, t),
   den |-> h.Buckets[b].Count - Below(h, b).Count]

\* The buckets of a well-formed histogram: what is below one has a finite bound
\* that is lower, and no more observations.
LEMMA BucketIs ==
  ASSUME NEW h, WellFormed(h), NEW b \in DOMAIN h.Buckets
  PROVE  /\ DOMAIN h.Buckets = 1..Len(h.Buckets) /\ Len(h.Buckets) \in Nat
         /\ h.Buckets[b].Count \in Nat /\ h.Buckets[b].Count <= h.Count
         /\ h.Buckets[b].Le = Inf \/ h.Buckets[b].Le \in Int
         /\ Below(h, b).Count \in Nat /\ Below(h, b).Le \in Int
         /\ h.Buckets[b].Le # Inf => Below(h, b).Le < h.Buckets[b].Le
         /\ b # 1 => b - 1 \in DOMAIN h.Buckets /\ Below(h, b) = h.Buckets[b - 1]
<1>1. h.Buckets \in Seq([Le : Int \cup {Inf}, Count : Nat])
  BY DEF WellFormed
<1>2. /\ DOMAIN h.Buckets = 1..Len(h.Buckets) /\ Len(h.Buckets) \in Nat
      /\ \A a \in DOMAIN h.Buckets : h.Buckets[a] \in [Le : Int \cup {Inf}, Count : Nat]
  <2>1. \A S : \A q \in Seq(S) :
          DOMAIN q = 1..Len(q) /\ Len(q) \in Nat /\ \A a \in DOMAIN q : q[a] \in S
    OBVIOUS
  <2>2. QED
    BY <1>1, <2>1, Zenon
<1>3. /\ h.Buckets[b].Count \in Nat /\ h.Buckets[b].Count <= h.Count
      /\ h.Buckets[b].Le = Inf \/ h.Buckets[b].Le \in Int
      /\ h.Buckets[b].Le # Inf => h.Buckets[b].Le > 0
  BY <1>2 DEF WellFormed
<1>4. CASE b = 1
  BY <1>2, <1>3, <1>4 DEF Below
<1>5. CASE b # 1
  <2>1. b - 1 \in DOMAIN h.Buckets /\ b - 1 \in 1..(b - 1) /\ b - 1 # Len(h.Buckets)
    BY <1>2, <1>5
  <2>2. h.Buckets[b - 1].Count \in Nat /\ h.Buckets[b - 1].Le \in Int \cup {Inf}
    BY <1>2, <2>1
  <2>3. h.Buckets[b - 1].Le # Inf
    BY <2>1 DEF WellFormed
  <2>4. h.Buckets[b].Le # Inf => h.Buckets[b - 1].Le < h.Buckets[b].Le
    BY <2>1 DEF WellFormed
  <2>5. Below(h, b) = h.Buckets[b - 1]
    BY <1>5 DEF Below
  <2>6. QED
    BY <1>2, <1>3, <2>1, <2>2, <2>3, <2>4, <2>5
<1>6. QED
  BY <1>4, <1>5

\* Of two buckets the first has a finite bound that is lower, and no more
\* observations.
LEMMA BucketsGrow ==
  ASSUME NEW h, WellFormed(h), NEW b \in DOMAIN h.Buckets, NEW a \in DOMAIN h.Buckets, a < b
  PROVE  /\ h.Buckets[a].Count <= Below(h, b).Count
         /\ h.Buckets[a].Le \in Int /\ h.Buckets[a].Le <= Below(h, b).Le
<1>1. /\ DOMAIN h.Buckets = 1..Len(h.Buckets) /\ Len(h.Buckets) \in Nat
      /\ h.Buckets[a].Le = Inf \/ h.Buckets[a].Le \in Int
      /\ h.Buckets[a].Count \in Nat
      /\ b - 1 \in DOMAIN h.Buckets /\ Below(h, b) = h.Buckets[b - 1]
      /\ Below(h, b).Le \in Int
  BY BucketIs
<1>2. h.Buckets[a].Le \in Int
  BY <1>1 DEF WellFormed
<1>3. CASE a = b - 1
  BY <1>1, <1>2, <1>3
<1>4. CASE a # b - 1
  <2>1. a \in 1..((b - 1) - 1)
    BY <1>1, <1>4
  <2>2. h.Buckets[b - 1].Le # Inf
    BY <1>1, FloatAssumption
  <2>3. h.Buckets[a].Count <= h.Buckets[b - 1].Count /\ h.Buckets[a].Le < h.Buckets[b - 1].Le
    BY <1>1, <2>1, <2>2 DEF WellFormed
  <2>4. QED
    BY <1>1, <1>2, <2>3
<1>5. QED
  BY <1>3, <1>4

\* percentileFromHistogram returns the value interpolated in the bucket its rank
\* falls into, or +Inf if that one has no bound.
LEMMA PercentileIs ==
  ASSUME NEW h, WellFormed(h), h.Count > 0, NEW p \in 1..100,
         NEW c \in DOMAIN h.Buckets, Target(h, p) <= h.Buckets[c].Count
  PROVE  \E b \in DOMAIN h.Buckets :
           /\ Falls(h, Target(h, p), b) /\ b <= c
           /\ percentileFromHistogram(h, p) =
                IF h.Buckets[b].Le = Inf THEN Inf ELSE Interpolated(h, Target(h, p), b)
<1> DEFINE t == Target(h, p)
           n == Len(h.Buckets)
           reached == {b \in 1..n : Reached(h.Buckets[b], t)}
           first == Min(reached)
<1>1. n \in Nat /\ DOMAIN h.Buckets = 1..n /\ n # 0
  BY BucketIs
<1>2. h.Count \in Nat /\ t \in Nat /\ 1 <= t
  BY TargetIs DEF WellFormed
<1> HIDE DEF t
<1>3. c \in reached /\ reached \in SUBSET Nat
  BY <1>1 DEF Reached, t
<1>4. first \in reached /\ \A a \in reached : first <= a
  BY <1>3, MinIsLeast
<1>5. first \in DOMAIN h.Buckets /\ t <= h.Buckets[first].Count /\ first <= c
  BY <1>1, <1>2, <1>3, <1>4, BucketIs DEF Reached
<1>6. Below(h, first).Count < t
  <2>1. CASE first = 1
    BY <1>2, <2>1 DEF Below
  <2>2. CASE first # 1
    <3>1. /\ first - 1 \in DOMAIN h.Buckets /\ Below(h, first) = h.Buckets[first - 1]
          /\ Below(h, first).Count \in Nat
      BY <1>5, <2>2, BucketIs
    <3>2. first - 1 \notin reached
      <4> HIDE DEF first, reached
      <4>1. first \in Nat /\ ~(first <= first - 1)
        BY <1>1, <1>5
      <4>2. QED
        BY <1>4, <4>1
    <3>3. QED
      BY <1>1, <1>2, <3>1, <3>2 DEF Reached
  <2>3. QED
    BY <2>1, <2>2
<1>7. h.Buckets[first].Count - Below(h, first).Count # 0
  <2> HIDE DEF first
  <2>1. h.Buckets[first].Count \in Nat /\ Below(h, first).Count \in Nat
    BY <1>5, BucketIs
  <2>2. QED
    BY <1>2, <1>5, <1>6, <2>1
<1>8. /\ Below(h, first).Count = IF first = 1 THEN 0 ELSE h.Buckets[first - 1].Count
      /\ Below(h, first).Le = IF first = 1 THEN 0 ELSE h.Buckets[first - 1].Le
  BY DEF Below
<1>9. percentileFromHistogram(h, p) =
        IF h.Buckets[first].Le = Inf THEN Inf ELSE Interpolated(h, t, first)
  <2> HIDE DEF first
  <2>1. h.Count # 0 /\ reached # {}
    BY <1>3
  <2>2. /\ Below(h, first).Le * (h.Buckets[first].Count - Below(h, first).Count)
             + (t - Below(h, first).Count) * (h.Buckets[first].Le - Below(h, first).Le)
           = Between(Below(h, first).Le, h.Buckets[first].Le, Below(h, first).Count,
                     h.Buckets[first].Count, t)
    BY DEF Between
  <2>3. QED
    BY <1>1, <1>7, <1>8, <2>1, <2>2 DEF percentileFromHistogram, Interpolated, t, first
<1>10. QED
  BY <1>5, <1>6, <1>9 DEF Falls, t

\* The interpolated value lies in its bucket.
LEMMA InterpolatedIs ==
  ASSUME NEW h, WellFormed(h), NEW b \in DOMAIN h.Buckets, h.Buckets[b].Le # Inf,
         NEW t \in Nat, Falls(h, t, b)
  PROVE  LET v == Interpolated(h, t, b)
         IN  /\ v.num \in Int /\ v.den \in Nat /\ 1 <= v.den /\ v # Inf
             /\ Below(h, b).Le * v.den < v.num
             /\ v.num <= h.Buckets[b].Le * v.den
<1> DEFINE v == Interpolated(h, t, b)
           l == Below(h, b).Le
           u == h.Buckets[b].Le
           n0 == Below(h, b).Count
           n1 == h.Buckets[b].Count
<1>1. l \in Int /\ u \in Int /\ l < u /\ n0 \in Nat /\ n1 \in Nat /\ n0 < t /\ t <= n1
  BY BucketIs DEF Falls
<1>2. v = [num |-> Between(l, u, n0, n1, t), den |-> n1 - n0]
  BY DEF Interpolated
<1> HIDE DEF v, l, u, n0, n1
<1>3. /\ Between(l, u, n0, n1, t) \in Int
      /\ l * (n1 - n0) < Between(l, u, n0, n1, t)
      /\ Between(l, u, n0, n1, t) <= u * (n1 - n0)
  BY <1>1, BetweenBounds
<1>4. n1 - n0 \in Nat /\ 1 <= n1 - n0
  BY <1>1
<1>5. v \in [num : Int, den : Int]
  BY <1>2, <1>3, <1>4
<1>6. v # Inf
  BY <1>5, FloatAssumption
<1>7. v.num \in Int /\ v.den \in Nat /\ 1 <= v.den /\ l * v.den < v.num /\ v.num <= u * v.den
  BY <1>2, <1>3, <1>4
<1>8. QED
  BY <1>6, <1>7 DEF v, l, u

\* The percentile of a histogram whose last bucket has no bound is in its bucket.
LEMMA PercentileInBucket ==
  ASSUME NEW h, WellFormed(h), h.Count > 0, h.Buckets # <<>>,
         h.Buckets[Len(h.Buckets)].Le = Inf, NEW p \in 1..100
  PROVE  InItsBucket(h, p, percentileFromHistogram(h, p))
<1> DEFINE t == Target(h, p)
           n == Len(h.Buckets)
<1>1. n \in DOMAIN h.Buckets
  BY DEF WellFormed
<1>2. /\ t \in Nat /\ 1 <= t /\ t <= h.Count /\ 100 * t > h.Count * p - 100
      /\ \A c \in Nat : c < t => 100 * c < h.Count * p
  BY TargetIs DEF WellFormed
<1>3. t <= h.Buckets[n].Count
  BY <1>1, <1>2 DEF WellFormed
<1>4. PICK b \in DOMAIN h.Buckets :
        /\ Falls(h, t, b)
        /\ percentileFromHistogram(h, p) =
             IF h.Buckets[b].Le = Inf THEN Inf ELSE Interpolated(h, t, b)
  BY <1>1, <1>3, PercentileIs
<1> DEFINE v == percentileFromHistogram(h, p)
           Le == h.Buckets[b].Le
<1> HIDE DEF t, v
<1>5. /\ Below(h, b).Count \in Nat /\ Below(h, b).Le \in Int
      /\ h.Buckets[b].Count \in Nat /\ (Le = Inf \/ Le \in Int)
      /\ Below(h, b).Count < t /\ t <= h.Buckets[b].Count
  BY <1>4, BucketIs DEF Falls
<1>6. 100 * Below(h, b).Count < h.Count * p
  BY <1>2, <1>5
<1>7. 100 * h.Buckets[b].Count > h.Count * p - 100
  <2> DEFINE X == h.Count * p
             y == h.Buckets[b].Count
  <2>1. X \in Int
    BY DEF WellFormed
  <2>2. 100 * t > X - 100
    BY <1>2, Zenon
  <2>3. t \in Nat /\ y \in Nat /\ t <= y
    BY <1>2, <1>5
  <2> HIDE DEF X, y
  <2>4. 100 * y > X - 100
    BY <2>1, <2>2, <2>3
  <2>5. QED
    BY <2>4 DEF X, y
<1>8. Number(Below(h, b).Le) \in [num : Int, den : Int]
  BY <1>5 DEF Number
<1>9. /\ NotAbove(v, IF Le = Inf THEN Inf ELSE Number(Le))
      /\ ~NotAbove(v, Number(Below(h, b).Le))
  <2>1. CASE Le = Inf
    <3>1. v = Inf
      BY <1>4, <2>1 DEF v
    <3>2. QED
      BY <1>8, <2>1, <3>1, FloatAssumption DEF NotAbove
  <2>2. CASE Le # Inf
    <3>1. v = Interpolated(h, t, b)
      BY <1>4, <2>2 DEF v
    <3>2. /\ v.num \in Int /\ v.den \in Nat /\ v # Inf
          /\ Below(h, b).Le * v.den < v.num /\ v.num <= Le * v.den
      BY <1>2, <1>4, <2>2, <3>1, InterpolatedIs
    <3>3. Number(Le).num = Le /\ Number(Le).den = 1
      BY DEF Number
    <3>4. Number(Below(h, b).Le).num = Below(h, b).Le /\ Number(Below(h, b).Le).den = 1
      BY DEF Number
    <3>5. v.num * 1 = v.num /\ Below(h, b).Le * v.den \in Int
      BY <1>5, <3>2
    <3>6. NotAbove(v, Number(Le))
      BY <3>2, <3>3, <3>5 DEF NotAbove
    <3>7. ~(v.num * 1 <= Below(h, b).Le * v.den)
      BY <3>2, <3>5
    <3>8. ~NotAbove(v, Number(Below(h, b).Le))
      BY <1>8, <3>4, <3>7, FloatAssumption DEF NotAbove
    <3>9. QED
      BY <2>2, <3>6, <3>8
  <2>3. QED
    BY <2>1, <2>2
<1>10. QED
  BY <1>6, <1>7, <1>9 DEF InItsBucket, Below, v

\* A rank that no bucket reaches has the last bound.
LEMMA PercentileOver ==
  ASSUME NEW h, WellFormed(h), h.Count > 0, h.Buckets # <<>>, NEW p \in 1..100,
         \A b \in DOMAIN h.Buckets : h.Buckets[b].Count < Target(h, p)
  PROVE  percentileFromHistogram(h, p) =
           IF h.Buckets[Len(h.Buckets)].Le = Inf THEN Inf
           ELSE Number(h.Buckets[Len(h.Buckets)].Le)
<1> DEFINE n == Len(h.Buckets)
           reached == {b \in 1..n : Reached(h.Buckets[b], Target(h, p))}
<1>1. DOMAIN h.Buckets = 1..n /\ n # 0
  BY DEF WellFormed
<1>2. Target(h, p) \in Nat
  BY TargetIs DEF WellFormed
<1>3. \A b \in 1..n : h.Buckets[b].Count \in Nat
  BY <1>1, BucketIs
<1>4. reached = {}
  BY <1>1, <1>2, <1>3 DEF Reached
<1>5. h.Count # 0
  BY DEF WellFormed
<1>6. QED
  BY <1>1, <1>4, <1>5 DEF percentileFromHistogram

\* Of two fractions in different buckets the one in the lower bucket is not above.
LEMMA FractionsInOrder ==
  ASSUME NEW a \in Int, NEW b \in Int, NEW m \in Nat, NEW n \in Nat,
         NEW x \in Int, NEW y \in Int, a <= x * m, x <= y, y * n <= b
  PROVE  a * n <= b * m
<1>1. a * n <= (x * m) * n
  BY TimesKeepsOrder
<1>2. x * (m * n) <= y * (m * n)
  BY TimesKeepsOrder
<1>3. (y * n) * m <= b * m
  BY TimesKeepsOrder
<1>4. (x * m) * n = x * (m * n) /\ (y * n) * m = y * (m * n)
  OBVIOUS
<1>5. /\ a * n \in Int /\ (x * m) * n \in Int /\ b * m \in Int /\ (y * n) * m \in Int
      /\ x * (m * n) \in Int /\ y * (m * n) \in Int
  OBVIOUS
<1> DEFINE r == a * n
           s == (x * m) * n
           u == (y * n) * m
           w == b * m
<1> HIDE DEF r, s, u, w
<1>6. r <= s /\ s <= u /\ u <= w /\ r \in Int /\ s \in Int /\ u \in Int /\ w \in Int
  BY <1>1, <1>2, <1>3, <1>4, <1>5 DEF r, s, u, w
<1>7. r <= w
  BY <1>6
<1>8. QED
  BY <1>7 DEF r, w

\* A higher percentile of a histogram is never smaller.
LEMMA PercentilesGrow ==
  ASSUME NEW h, WellFormed(h), NEW p \in 1..100, NEW q \in 1..100, p <= q
  PROVE  NotAbove(percentileFromHistogram(h, p), percentileFromHistogram(h, q))
<1> DEFINE tp == Target(h, p)
           tq == Target(h, q)
           vp == percentileFromHistogram(h, p)
           vq == percentileFromHistogram(h, q)
           n == Len(h.Buckets)
<1>1. h.Count \in Nat /\ DOMAIN h.Buckets = 1..n /\ n \in Nat
  BY DEF WellFormed
<1>2. \A x \in Int : Number(x) # Inf /\ NotAbove(Number(x), Number(x))
  BY FloatAssumption DEF NotAbove, Number
<1>3. CASE h.Count = 0 \/ n = 0
  <2>1. vp = Number(0) /\ vq = Number(0)
    BY <1>3 DEF percentileFromHistogram
  <2>2. QED
    BY <1>2, <2>1
<1>4. CASE h.Count > 0 /\ n # 0
  <2>1. tp \in Nat /\ tq \in Nat /\ tp <= tq
    BY <1>1, <1>4, TargetIs, TargetGrows
  <2>2. n \in DOMAIN h.Buckets /\ h.Buckets # <<>>
    BY <1>1, <1>4
  <2>3. \A b \in DOMAIN h.Buckets : h.Buckets[b].Count \in Nat
    BY BucketIs
  <2>4. \A b \in DOMAIN h.Buckets : h.Buckets[b].Le = Inf => b = n
    BY DEF WellFormed
  <2> HIDE DEF tp, tq, vp, vq
  <2>5. CASE \A b \in DOMAIN h.Buckets : h.Buckets[b].Count < tq
    <3>1. vq = IF h.Buckets[n].Le = Inf THEN Inf ELSE Number(h.Buckets[n].Le)
      BY <1>4, <2>2, <2>5, PercentileOver DEF tq, vq
    <3>2. CASE h.Buckets[n].Le = Inf
      BY <3>1, <3>2 DEF NotAbove, vp, vq
    <3>3. CASE h.Buckets[n].Le # Inf /\ \A b \in DOMAIN h.Buckets : h.Buckets[b].Count < tp
      <4>1. vp = Number(h.Buckets[n].Le)
        BY <1>4, <2>2, <3>3, PercentileOver DEF tp, vp
      <4>2. h.Buckets[n].Le \in Int
        BY <2>2, <3>3, BucketIs
      <4>3. QED
        BY <1>2, <3>1, <3>3, <4>1, <4>2 DEF vp, vq
    <3>4. ASSUME h.Buckets[n].Le # Inf, NEW c \in DOMAIN h.Buckets, tp <= h.Buckets[c].Count
          PROVE  NotAbove(vp, vq)
      <4>1. PICK b \in DOMAIN h.Buckets :
              /\ Falls(h, tp, b)
              /\ vp = IF h.Buckets[b].Le = Inf THEN Inf ELSE Interpolated(h, tp, b)
        BY <1>4, <3>4, PercentileIs DEF tp, vp
      <4>2. h.Buckets[b].Le # Inf /\ vp = Interpolated(h, tp, b)
        BY <2>4, <3>4, <4>1
      <4>3. /\ vp.num \in Int /\ vp.den \in Nat /\ vp # Inf
            /\ vp.num <= h.Buckets[b].Le * vp.den
        BY <2>1, <4>1, <4>2, InterpolatedIs
      <4>4. h.Buckets[b].Le \in Int /\ h.Buckets[n].Le \in Int
        BY <2>2, <3>4, <4>2, BucketIs
      <4>5. h.Buckets[b].Le <= h.Buckets[n].Le
        <5>1. CASE b = n
          BY <4>4, <5>1
        <5>2. CASE b < n
          <6>1. h.Buckets[b].Le <= Below(h, n).Le
            BY <2>2, <5>2, BucketsGrow
          <6>2. Below(h, n).Le \in Int /\ Below(h, n).Le < h.Buckets[n].Le
            BY <2>2, <3>4, BucketIs
          <6>3. QED
            BY <4>4, <6>1, <6>2
        <5>3. QED
          BY <1>1, <5>1, <5>2
      <4>6. vp.num * 1 <= h.Buckets[n].Le * vp.den
        BY <4>3, <4>4, <4>5, FractionsInOrder
      <4>7. vq = Number(h.Buckets[n].Le)
        BY <3>1, <3>4
      <4>8. QED
        BY <4>3, <4>6, <4>7 DEF NotAbove, Number
    <3>5. QED
      BY <2>1, <2>3, <3>2, <3>3, <3>4 DEF vp, vq
  <2>6. ASSUME NEW c \in DOMAIN h.Buckets, tq <= h.Buckets[c].Count
        PROVE  NotAbove(vp, vq)
    <3>1. PICK b \in DOMAIN h.Buckets :
            /\ Falls(h, tq, b)
            /\ vq = IF h.Buckets[b].Le = Inf THEN Inf ELSE Interpolated(h, tq, b)
      BY <1>4, <2>6, PercentileIs DEF tq, vq
    <3>2. tp <= h.Buckets[b].Count
      BY <2>1, <2>3, <3>1 DEF Falls
    <3>3. PICK a \in DOMAIN h.Buckets :
            /\ Falls(h, tp, a) /\ a <= b
            /\ vp = IF h.Buckets[a].Le = Inf THEN Inf ELSE Interpolated(h, tp, a)
      BY <1>4, <3>2, PercentileIs DEF tp, vp
    <3>4. CASE h.Buckets[b].Le = Inf
      BY <3>1, <3>4 DEF NotAbove
    <3>5. CASE h.Buckets[b].Le # Inf
      <4>1. h.Buckets[a].Le # Inf
        BY <1>1, <2>4, <3>3, <3>5
      <4>2. vp = Interpolated(h, tp, a) /\ vq = Interpolated(h, tq, b)
        BY <3>1, <3>3, <3>5, <4>1
      <4>3. /\ vp.num \in Int /\ vp.den \in Nat /\ vp # Inf
            /\ vp.num <= h.Buckets[a].Le * vp.den
        BY <2>1, <3>3, <4>1, <4>2, InterpolatedIs
      <4>4. /\ vq.num \in Int /\ vq.den \in Nat
            /\ Below(h, b).Le * vq.den < vq.num
        BY <2>1, <3>1, <3>5, <4>2, InterpolatedIs
      <4>5. /\ Below(h, b).Le \in Int /\ h.Buckets[a].Le \in Int /\ h.Buckets[b].Le \in Int
            /\ Below(h, b).Count \in Nat /\ h.Buckets[b].Count \in Nat
            /\ Below(h, b).Le < h.Buckets[b].Le
        BY <3>5, <4>1, BucketIs
      <4>6. vp.num * vq.den <= vq.num * vp.den
        <5>1. CASE a = b
          <6>1. vp.num <= vq.num
            BY <2>1, <3>1, <3>3, <4>2, <4>5, <5>1, BetweenGrows DEF Interpolated, Falls
          <6>2. vp.den = vq.den
            BY <4>2, <5>1 DEF Interpolated
          <6>3. QED
            BY <4>3, <4>4, <6>1, <6>2, TimesKeepsOrder
        <5>2. CASE a < b
          <6>1. h.Buckets[a].Le <= Below(h, b).Le
            BY <5>2, BucketsGrow
          <6>2. Below(h, b).Le * vq.den <= vq.num
            BY <4>4, <4>5
          <6>3. QED
            BY <4>3, <4>4, <4>5, <6>1, <6>2, FractionsInOrder
        <5>3. QED
          BY <1>1, <3>3, <5>1, <5>2
      <4>7. QED
        BY <4>3, <4>6 DEF NotAbove
    <3>6. QED
      BY <3>4, <3>5
  <2>7. QED
    BY <2>1, <2>3, <2>5, <2>6 DEF vp, vq
<1>5. QED
  BY <1>1, <1>3, <1>4

-----------------------------------------------------------------------------
(* Diagnose. *)

\* What the plugin has of the endpoints is what they have answered so far.
MInv ==
  /\ pc \in {"start", "loop", "done"} /\ eps \in Seq(Endpoint)
  /\ i \in 1..(Len(eps) + 1)
  /\ replies \in Seq(Replies) /\ Len(replies) = i - 1
  /\ DOMAIN EpMetricsList = 1..Len(eps)
  /\ \A k \in 1..Len(eps) : EpMetricsList[k] = IF k < i THEN Kept(replies[k]) ELSE <<>>
  /\ \A k \in 1..Len(eps) : k \in Summary <=> k < i /\ replies[k] = Error
  /\ pc = "start" => eps = <<>> /\ i = 1 /\ Summary = {}
  /\ pc # "done" => result = "none"
  /\ result = "checked" => i = Len(eps) + 1

\* MInv holds at the beginning, and no step makes it false.
THEOREM MInvariant == Spec => []MInv
<1>1. Init => MInv
  BY DEF Init, MInv
<1>2. MInv /\ [Next]_vars => MInv'
  <2> SUFFICES ASSUME MInv, [Next]_vars
               PROVE  MInv'
    OBVIOUS
  <2>1. CASE EndpointsFail
    BY <2>1 DEF EndpointsFail, MInv, Kept
  <2>2. ASSUME NEW es \in EpLists, Start(es)
        PROVE  MInv'
    <3>1. es \in Seq(Endpoint) /\ Len(es) \in Nat /\ DOMAIN es = 1..Len(es)
      BY EpListsAssumption
    <3>2. /\ pc' = "loop" /\ eps' = es /\ EpMetricsList' = [k \in 1..Len(es) |-> <<>>]
          /\ i' = 1 /\ Summary' = {} /\ result' = "none" /\ replies' = replies
          /\ replies \in Seq(Replies) /\ Len(replies) = 0
      BY <2>2, <3>1 DEF Start, MInv
    <3>3. i' \in 1..(Len(eps') + 1) /\ Len(replies') = i' - 1
      BY <3>1, <3>2
    <3>4. \A k \in 1..Len(es) : ~(k < 1)
      BY <3>1
    <3>5. /\ DOMAIN EpMetricsList' = 1..Len(eps')
          /\ \A k \in 1..Len(eps') : EpMetricsList'[k] = <<>> /\ k \notin Summary' /\ ~(k < i')
      BY <3>1, <3>2, <3>4
    <3>6. QED
      BY <3>1, <3>2, <3>3, <3>5 DEF MInv
  <2>3. ASSUME NEW reply \in Replies, Query(reply)
        PROVE  MInv'
    BY <2>3 DEF Query, MInv, Kept
  <2>4. CASE Finish
    BY <2>4 DEF Finish, MInv, Kept
  <2>5. CASE UNCHANGED vars
    BY <2>5 DEF vars, MInv, Kept
  <2>6. QED
    BY <2>1, <2>2, <2>3, <2>4, <2>5 DEF Next
<1>3. QED
  BY <1>1, <1>2, PTL DEF Spec

\* The failure of one endpoint of several is a line of the summary: the others
\* keep what they answered, and it has nothing of theirs.
THEOREM OwnOutputs == Spec => []EachHasItsOwn
<1>1. MInv => EachHasItsOwn
  <2> SUFFICES ASSUME MInv, result = "checked", NEW k \in DOMAIN eps
               PROVE  /\ k \in Summary <=> replies[k] = Error
                      /\ IF k \in Summary THEN EpMetricsList[k] = <<>>
                         ELSE /\ DOMAIN EpMetricsList[k] = DOMAIN replies[k] \cap Wanted
                              /\ \A name \in DOMAIN EpMetricsList[k] :
                                   EpMetricsList[k][name] = Output(replies[k][name])
    BY DEF EachHasItsOwn
  <2>1. k \in 1..Len(eps) /\ k < i
    BY DEF MInv
  <2>2. (k \in Summary <=> replies[k] = Error) /\ EpMetricsList[k] = Kept(replies[k])
    BY <2>1 DEF MInv
  <2>3. CASE replies[k] = Error
    BY <2>2, <2>3 DEF Kept
  <2>4. CASE replies[k] # Error
    <3>1. EpMetricsList[k] = Outputs(replies[k])
      BY <2>2, <2>4 DEF Kept
    <3>2. QED
      BY <2>2, <2>4, <3>1 DEF Outputs
  <2>5. QED
    BY <2>3, <2>4
<1>2. QED
  BY <1>1, MInvariant, PTL

\* What is kept of an endpoint is the outputs of a reply of it.
LEMMA KeptIs ==
  ASSUME MInv, NEW k \in DOMAIN EpMetricsList, NEW name \in DOMAIN EpMetricsList[k]
  PROVE  /\ replies[k] \in Replies \ {Error} /\ name \in DOMAIN replies[k]
         /\ EpMetricsList[k][name] = Output(replies[k][name])
<1>1. k \in 1..Len(eps) /\ EpMetricsList[k] = IF k < i THEN Kept(replies[k]) ELSE <<>>
  BY DEF MInv
<1>2. DOMAIN <<>> = {}
  OBVIOUS
<1>3. k < i /\ replies[k] # Error /\ EpMetricsList[k] = Outputs(replies[k])
  BY <1>1, <1>2 DEF Kept
<1>4. k \in 1..Len(replies) /\ replies \in Seq(Replies)
  BY <1>1, <1>3 DEF MInv
<1>5. replies[k] \in Replies
  BY <1>4
<1>6. QED
  BY <1>3, <1>5 DEF Outputs

\* What the plugin reports of a histogram is one the endpoint has sent, with the
\* percentiles of that.
LEMMA HistogramIs ==
  ASSUME MInv, NEW k \in DOMAIN EpMetricsList, NEW h \in Histograms(EpMetricsList[k])
  PROVE  \E m : /\ WellFormed(m)
                /\ h.Count = m.Count /\ h.Buckets = m.Buckets
                /\ h.Percentiles = [n \in DOMAIN percentileOptions |->
                     [Name |-> percentileOptions[n],
                      Value |-> percentileFromHistogram(m, percentileOptions[n])]]
<1> DEFINE outputs == EpMetricsList[k]
<1>1. PICK name \in DOMAIN outputs :
        /\ outputs[name].Type = "HISTOGRAM"
        /\ \E n \in DOMAIN outputs[name].Samples : h = outputs[name].Samples[n]
  BY DEF Histograms
<1> DEFINE family == replies[k][name]
<1>2. /\ replies[k] \in Replies \ {Error} /\ name \in DOMAIN replies[k]
      /\ outputs[name] = Output(family)
  BY KeptIs
<1>3. family.type = "HISTOGRAM"
  BY <1>1, <1>2 DEF Output
<1>4. PICK n \in DOMAIN family.metrics : h = Sample("HISTOGRAM", family.metrics[n])
  BY <1>1, <1>2, <1>3 DEF Output
<1>5. WellFormed(family.metrics[n])
  BY <1>2, <1>3, <1>4, RepliesAssumption
<1> HIDE DEF family
<1>6. QED
  BY <1>4, <1>5 DEF Sample

\* The percentiles asked for, in the order of percentileOptions.
LEMMA OptionsAre ==
  /\ DOMAIN percentileOptions = 1..7
  /\ \A n \in 1..7 : percentileOptions[n] \in 1..100
  /\ \A n \in 2..7 : percentileOptions[n] <= percentileOptions[n - 1]
  BY DEF percentileOptions

\* Each percentile of each histogram is in its bucket, and a higher percentile is
\* never smaller, whatever the bounds, the counts and the number of buckets.
THEOREM PercentilesRight == Spec => []PercentilesAreRight
<1>1. MInv => PercentilesAreRight
  <2> SUFFICES ASSUME MInv, NEW k \in DOMAIN EpMetricsList,
                      NEW h \in Histograms(EpMetricsList[k]), NEW n \in DOMAIN h.Percentiles
               PROVE  /\ h.Count > 0 /\ h.Buckets # <<>> /\ h.Buckets[Len(h.Buckets)].Le = Inf =>
                           InItsBucket(h, h.Percentiles[n].Name, h.Percentiles[n].Value)
                      /\ n > 1 => NotAbove(h.Percentiles[n].Value, h.Percentiles[n - 1].Value)
    BY DEF PercentilesAreRight
  <2>1. PICK m :
          /\ WellFormed(m) /\ h.Count = m.Count /\ h.Buckets = m.Buckets
          /\ h.Percentiles = [x \in DOMAIN percentileOptions |->
               [Name |-> percentileOptions[x],
                Value |-> percentileFromHistogram(m, percentileOptions[x])]]
    BY HistogramIs
  <2>2. n \in 1..7
    BY <2>1, OptionsAre
  <2>3. \A x \in 1..7 :
          /\ h.Percentiles[x].Name = percentileOptions[x]
          /\ h.Percentiles[x].Value = percentileFromHistogram(m, percentileOptions[x])
    BY <2>1, OptionsAre
  <2>4. ASSUME h.Count > 0, h.Buckets # <<>>, h.Buckets[Len(h.Buckets)].Le = Inf
        PROVE  InItsBucket(h, h.Percentiles[n].Name, h.Percentiles[n].Value)
    <3>1. InItsBucket(m, percentileOptions[n], percentileFromHistogram(m, percentileOptions[n]))
      BY <2>1, <2>2, <2>4, OptionsAre, PercentileInBucket
    <3>2. InItsBucket(h, percentileOptions[n], percentileFromHistogram(m, percentileOptions[n]))
      BY <2>1, <3>1 DEF InItsBucket
    <3>3. QED
      BY <2>2, <2>3, <3>2
  <2>5. ASSUME n > 1
        PROVE  NotAbove(h.Percentiles[n].Value, h.Percentiles[n - 1].Value)
    <3>1. n \in 2..7 /\ n - 1 \in 1..7
      BY <2>2, <2>5
    <3>2. NotAbove(percentileFromHistogram(m, percentileOptions[n]),
                   percentileFromHistogram(m, percentileOptions[n - 1]))
      BY <2>1, <2>2, <3>1, OptionsAre, PercentilesGrow
    <3>3. QED
      BY <2>2, <2>3, <3>1, <3>2
  <2>6. QED
    BY <2>4, <2>5
<1>2. QED
  BY <1>1, MInvariant, PTL
=============================================================================
