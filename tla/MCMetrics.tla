----------------------------- MODULE MCMetrics -----------------------------
\* Histograms with the bounds 1, 3 and +Inf and up to four observations in each
\* bucket, or five in the last one; gauges, a counter and a family nobody wants.
EXTENDS Metrics

CONSTANTS n1, n2

MCEndpoint == {n1, n2}
MCEpLists == {<<>>, <<n1>>, <<n1, n2>>}

Hist(a, b, c) ==
  [Count |-> a + b + c, Sum |-> a + b + c,
   Buckets |-> <<[Le |-> 1, Count |-> a], [Le |-> 3, Count |-> a + b],
                 [Le |-> Inf, Count |-> a + b + c]>>]
Fsync(h) == [fsync |-> [type |-> "HISTOGRAM", metrics |-> <<h>>]]
Memory(type, v) == [memory |-> [type |-> type, metrics |-> <<[Value |-> v]>>]]
MCReplies ==
  {Error, Memory("GAUGE", 7), Memory("GAUGE", NaN), Memory("COUNTER", 7),
   [cpu |-> [type |-> "GAUGE", metrics |-> <<[Value |-> 1]>>]],
   Fsync([Hist(1, 2, 0) EXCEPT !.Sum = NaN]),
   Fsync([Hist(1, 2, 0) EXCEPT !.Buckets = SubSeq(@, 1, 2)]),
   Fsync([Hist(0, 2, 3) EXCEPT !.Buckets = <<>>]),
   Fsync([Hist(1, 1, 5) EXCEPT !.Buckets = SubSeq(@, 1, 2)])}
  \cup {Fsync(Hist(a, b, c)) : a, b \in 0..4, c \in 0..5}
  \cup {Fsync(Hist(a, b, 0)) : a, b \in 9..11}
=============================================================================
