------------------------------ MODULE Metrics ------------------------------
(***************************************************************************)
(* The metrics plugin: it fetches the metrics of each endpoint, keeps the  *)
(* gauges and histograms it wants, and works out percentiles from the      *)
(* histograms.                                                             *)
(*                                                                         *)
(* A reply is Error or a family for each of some names: its type and the   *)
(* metrics in it.  A float is an integer or a fraction [num, den], Inf or  *)
(* NaN: the code's floats give the same ranks (p percent of a count), and  *)
(* the rounding of an interpolation is left out.                           *)
(***************************************************************************)
EXTENDS Integers, Sequences, FiniteSetsExt

CONSTANTS
  Endpoint,
  EpLists,       \* the endpoint lists agent.Endpoints may return
  Wanted,        \* metricsNames
  Replies,       \* what agent.Metrics may return
  Error, Inf, NaN

ASSUME EpListsAssumption == EpLists \subseteq Seq(Endpoint)

\* Inf is none of the numbers of a histogram, nor of those worked out from it.
ASSUME FloatAssumption ==
  NaN \notin Int /\ Inf \notin {NaN} \cup Int \cup [num : Int, den : Int]

\* How Prometheus exposes a histogram: bounds that grow, of which at most the
\* last one is +Inf, and cumulative counts, the last of them of everything.  Of
\* the wanted ones, which are of durations, the bounds are positive.
WellFormed(h) ==
  /\ h.Count \in Nat /\ h.Buckets \in Seq([Le : Int \cup {Inf}, Count : Nat])
  /\ \A b \in DOMAIN h.Buckets :
       LET bucket == h.Buckets[b]
       IN  /\ bucket.Count <= h.Count
           /\ bucket.Le = Inf => b = Len(h.Buckets) /\ bucket.Count = h.Count
           /\ bucket.Le # Inf => bucket.Le > 0
           /\ \A a \in 1..(b - 1) :
                /\ h.Buckets[a].Count <= bucket.Count
                /\ bucket.Le # Inf => h.Buckets[a].Le < bucket.Le

ASSUME RepliesAssumption ==
  \A reply \in Replies \ {Error} : \A name \in DOMAIN reply :
    reply[name].type = "HISTOGRAM" =>
      \A n \in DOMAIN reply[name].metrics : WellFormed(reply[name].metrics[n])

percentileOptions == <<99, 95, 90, 85, 80, 75, 50>>

VARIABLES
  pc,            \* "start", "loop", "done"
  eps,
  i,             \* the endpoint that is asked next
  Summary,       \* the positions whose call has failed
  EpMetricsList, \* EpMetricsList[k]: the outputs by name, <<>> if there are none
  result,        \* "none", "failed" (a FailedResult), "checked"
  replies        \* ghost: what the endpoints have answered

vars == <<pc, eps, i, Summary, EpMetricsList, result, replies>>

Init ==
  /\ pc = "start" /\ eps = <<>> /\ i = 1
  /\ Summary = {} /\ EpMetricsList = <<>> /\ result = "none" /\ replies = <<>>

-----------------------------------------------------------------------------
(* percentileFromHistogram.  h.Buckets[b] has an upper bound Le and the      *)
(* cumulative count of what is not above it.                                 *)

Number(n) == [num |-> n, den |-> 1]

larger(a, b) == IF a > b THEN a ELSE b

Target(h, p) == larger((h.Count * p) \div 100, 1)

FaultyReached(b, target) == b.Count > target

Reached(b, target) == b.Count >= target

percentileFromHistogram(h, p) ==
  LET target == Target(h, p)
      n == Len(h.Buckets)
      reached == {b \in 1..n : Reached(h.Buckets[b], target)}
      first == Min(reached)
      b == h.Buckets[first]
      prevCount == IF first = 1 THEN 0 ELSE h.Buckets[first - 1].Count
      prevUpper == IF first = 1 THEN 0 ELSE h.Buckets[first - 1].Le
      countInBucket == b.Count - prevCount
      bound(le) == IF le = Inf THEN Inf ELSE Number(le)
  IN  IF h.Count = 0 \/ n = 0 THEN Number(0)
      ELSE IF reached = {} THEN bound(h.Buckets[n].Le)
      ELSE IF countInBucket = 0 \/ b.Le = Inf THEN bound(b.Le)
      ELSE [num |-> prevUpper * countInBucket + (target - prevCount) * (b.Le - prevUpper),
            den |-> countInBucket]

-----------------------------------------------------------------------------
(* Diagnose. *)

\* A metric of a family as it is reported.
Sample(type, m) ==
  IF type = "GAUGE" THEN [Value |-> m.Value]
  ELSE [Count |-> m.Count, Sum |-> m.Sum, Buckets |-> m.Buckets,
        Percentiles |-> [n \in DOMAIN percentileOptions |->
                           [Name |-> percentileOptions[n],
                            Value |-> percentileFromHistogram(m, percentileOptions[n])]]]

\* Metrics of another type are skipped; their family stays, without samples.
Output(family) ==
  [Type |-> family.type,
   Samples |-> IF family.type \in {"GAUGE", "HISTOGRAM"}
               THEN [n \in DOMAIN family.metrics |-> Sample(family.type, family.metrics[n])]
               ELSE <<>>]

Outputs(reply) == [name \in DOMAIN reply \cap Wanted |-> Output(reply[name])]

EndpointsFail ==
  /\ pc = "start"
  /\ pc' = "done"
  /\ result' = "failed"
  /\ UNCHANGED <<eps, i, Summary, EpMetricsList, replies>>

Start(es) ==
  /\ pc = "start"
  /\ pc' = "loop"
  /\ eps' = es
  /\ EpMetricsList' = [k \in DOMAIN es |-> <<>>]
  /\ UNCHANGED <<i, Summary, result, replies>>

FaultyKept(reply) == IF reply = Error THEN EpMetricsList[larger(i - 1, 1)] ELSE Outputs(reply)

\* metricsMap of the endpoint, which a failed call leaves unset.
Kept(reply) == IF reply = Error THEN <<>> ELSE Outputs(reply)

Query(reply) ==
  /\ pc = "loop" /\ i <= Len(eps)
  /\ Summary' = IF reply = Error THEN Summary \cup {i} ELSE Summary
  /\ EpMetricsList' = [EpMetricsList EXCEPT ![i] = Kept(reply)]
  /\ replies' = Append(replies, reply)
  /\ i' = i + 1
  /\ UNCHANGED <<pc, eps, result>>

\* The err of a call shadows the one the deferred function looks at, so a
\* call that fails is a line of the Summary and no FailedResult.
Finish ==
  /\ pc = "loop" /\ i > Len(eps)
  /\ pc' = "done"
  /\ result' = "checked"
  /\ UNCHANGED <<eps, i, Summary, EpMetricsList, replies>>

Next ==
  \/ EndpointsFail
  \/ \E es \in EpLists : Start(es)
  \/ \E reply \in Replies : Query(reply)
  \/ Finish

Spec == Init /\ [][Next]_vars

-----------------------------------------------------------------------------
(* Properties.                                                             *)

\* The histograms reported of one endpoint.
Histograms(outputs) ==
  UNION {{outputs[name].Samples[n] : n \in DOMAIN outputs[name].Samples} :
           name \in {x \in DOMAIN outputs : outputs[x].Type = "HISTOGRAM"}}

NotAbove(v, w) == w = Inf \/ (v # Inf /\ v.num * w.den <= w.num * v.den)

\* The p-th percentile is within a bucket that the p-th percentile of the
\* observations is in, give or take one observation: less than p percent of
\* them are in the buckets below, and all but less than one of p percent in
\* the buckets up to it.
InItsBucket(h, p, v) ==
  \E b \in DOMAIN h.Buckets :
    LET below == IF b = 1 THEN [Count |-> 0, Le |-> 0] ELSE h.Buckets[b - 1]
        Le == h.Buckets[b].Le
    IN  /\ NotAbove(v, IF Le = Inf THEN Inf ELSE Number(Le))
        /\ ~NotAbove(v, Number(below.Le))
        /\ 100 * below.Count < h.Count * p
        /\ 100 * h.Buckets[b].Count > h.Count * p - 100

\* The rank is truncated, compared with cumulative counts and interpolated, up
\* to a last bucket without a bound.  All the same each percentile is in its
\* bucket, also where buckets are empty, and a higher one is never smaller.
PercentilesAreRight ==
  \A k \in DOMAIN EpMetricsList : \A h \in Histograms(EpMetricsList[k]) :
    \A n \in DOMAIN h.Percentiles :
      /\ h.Count > 0 /\ h.Buckets # <<>> /\ h.Buckets[Len(h.Buckets)].Le = Inf =>
           InItsBucket(h, h.Percentiles[n].Name, h.Percentiles[n].Value)
      /\ n > 1 => NotAbove(h.Percentiles[n].Value, h.Percentiles[n - 1].Value)

\* One endpoint of several fails: it is a line of the summary, the others keep
\* what they answered, and it has nothing of theirs.
EachHasItsOwn ==
  result = "checked" =>
    \A k \in DOMAIN eps :
      /\ k \in Summary <=> replies[k] = Error
      /\ IF k \in Summary THEN EpMetricsList[k] = <<>>
         ELSE /\ DOMAIN EpMetricsList[k] = DOMAIN replies[k] \cap Wanted
              /\ \A name \in DOMAIN EpMetricsList[k] :
                   EpMetricsList[k][name] = Output(replies[k][name])
=============================================================================
