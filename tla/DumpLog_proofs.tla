--------------------------- MODULE DumpLog_proofs ---------------------------
(***************************************************************************)
(* Proofs about the command log on whatever a server that was stopped or   *)
(* has crashed at any point has left on its disk, for every value of the   *)
(* bounds and every set of command lines.                                  *)
(***************************************************************************)
EXTENDS DumpLog, CommitIndex_proofs

-----------------------------------------------------------------------------
(* Picking elements, and the filters.                                      *)

\* The positions in P are counted from 1 to their number, in their order.
LEMMA RankIs ==
  ASSUME NEW N \in Nat, NEW P \in SUBSET (1..N)
  PROVE  /\ Cardinality(P) \in Nat
         /\ \A p \in P : Rank(p, P) \in 1..Cardinality(P)
         /\ \A p, q \in P : p < q => Rank(p, P) < Rank(q, P)
         /\ \A n \in 1..Cardinality(P) : \E p \in P : Rank(p, P) = n
<1> DEFINE c == Cardinality(P)
<1> DEFINE upTo(p) == {q \in P : q <= p}
<1>1. IsFiniteSet(1..N)
  BY FS_Interval
<1>2. IsFiniteSet(P) /\ c \in Nat
  BY <1>1, FS_Subset, FS_CardinalityType
<1>3. \A p : /\ upTo(p) \in SUBSET P /\ Rank(p, P) = Cardinality(upTo(p))
             /\ IsFiniteSet(upTo(p)) /\ Rank(p, P) \in Nat /\ Rank(p, P) <= c
  <2>1. TAKE p
  <2>2. upTo(p) \in SUBSET P /\ Rank(p, P) = Cardinality(upTo(p))
    BY DEF Rank
  <2> HIDE DEF upTo
  <2>3. IsFiniteSet(upTo(p)) /\ Cardinality(upTo(p)) <= c
    BY <1>2, <2>2, FS_Subset
  <2>4. Cardinality(upTo(p)) \in Nat
    BY <2>3, FS_CardinalityType
  <2>5. QED
    BY <2>2, <2>3, <2>4
<1>4. ASSUME NEW p \in P
      PROVE  Rank(p, P) \in 1..c
  <2>1. upTo(p) # {}
    BY <1>4
  <2> HIDE DEF upTo, c
  <2>2. Rank(p, P) # 0
    BY <1>3, <2>1, FS_EmptySet
  <2>3. QED
    BY <1>2, <1>3, <2>2
<1>5. ASSUME NEW p \in P, NEW q \in P, p < q
      PROVE  Rank(p, P) < Rank(q, P)
  <2>0. p \in Nat /\ q \in Nat /\ \A r \in P : r \in Nat
    OBVIOUS
  <2>1. upTo(p) \in SUBSET upTo(q) /\ q \in upTo(q) /\ q \notin upTo(p)
    <3>1. \A r \in upTo(p) : r \in P /\ r <= q
      BY <1>5, <2>0
    <3>2. q \in upTo(q)
      BY <2>0
    <3>3. q \notin upTo(p)
      BY <1>5, <2>0
    <3>4. QED
      BY <3>1, <3>2, <3>3
  <2> HIDE DEF upTo, c
  <2>2. /\ Cardinality(upTo(p)) <= Cardinality(upTo(q))
        /\ Cardinality(upTo(p)) # Cardinality(upTo(q))
    BY <1>3, <2>1, FS_Subset
  <2>3. QED
    BY <1>3, <2>2
<1>6. ASSUME NEW n \in 1..c
      PROVE  \E p \in P : Rank(p, P) = n
  <2> DEFINE R == [p \in P |-> Rank(p, P)]
  <2>1. R \in Injection(P, 1..c)
    <3>1. R \in [P -> 1..c]
      BY <1>4
    <3>2. \A p, q \in P : R[p] = R[q] => p = q
      <4>1. \A p, q \in P : p \in Nat /\ q \in Nat
        OBVIOUS
      <4>2. \A p \in P : Rank(p, P) \in Nat
        BY <1>3
      <4>3. QED
        BY <1>5, <4>1, <4>2
    <3>3. QED
      BY <3>1, <3>2 DEF Injection, IsInjective
  <2>2. IsFiniteSet(1..c) /\ Cardinality(1..c) = c
    BY <1>2, FS_Interval
  <2> HIDE DEF R, c
  <2>3. R \in Surjection(P, 1..c)
    BY <2>1, <2>2, FS_Injection DEF c
  <2>4. PICK p \in P : R[p] = n
    BY <1>6, <2>3 DEF Surjection
  <2>5. QED
    BY <2>4 DEF R
<1>7. QED
  BY <1>2, <1>4, <1>5, <1>6

\* The position of the n-th element picked.
Place(P) == [n \in 1..Cardinality(P) |-> CHOOSE p \in P : Rank(p, P) = n]

\* What is picked are the elements at these positions.
LEMMA PickAt ==
  ASSUME NEW s, NEW P
  PROVE  Pick(s, P) = [n \in 1..Cardinality(P) |-> s[Place(P)[n]]]
  BY DEF Pick, Place

\* They are those in P, in their order.
LEMMA PlaceIs ==
  ASSUME NEW N \in Nat, NEW P \in SUBSET (1..N)
  PROVE  LET c == Cardinality(P)
             f == Place(P)
         IN  /\ c \in Nat /\ f \in [1..c -> P]
             /\ \A m, n \in 1..c : m < n => f[m] < f[n]
             /\ \A p \in P : \E n \in 1..c : f[n] = p
<1> DEFINE c == Cardinality(P)
<1> DEFINE f == Place(P)
<1>1. /\ c \in Nat
      /\ \A p \in P : Rank(p, P) \in 1..c
      /\ \A p, q \in P : p < q => Rank(p, P) < Rank(q, P)
      /\ \A n \in 1..c : \E p \in P : Rank(p, P) = n
  BY RankIs
<1> HIDE DEF c
<1>2a. f = [n \in 1..c |-> CHOOSE p \in P : Rank(p, P) = n]
  BY DEF Place, c
<1>2. \A n \in 1..c : f[n] \in P /\ Rank(f[n], P) = n
  BY <1>1, <1>2a
<1>3. f \in [1..c -> P]
  BY <1>2, <1>2a
<1> HIDE DEF f
<1>5. \A p \in P : p \in Nat
  OBVIOUS
<1>6. ASSUME NEW m \in 1..c, NEW n \in 1..c, m < n
      PROVE  f[m] < f[n]
  <2>1. f[m] \in P /\ f[n] \in P /\ Rank(f[m], P) = m /\ Rank(f[n], P) = n
    BY <1>2
  <2>2. ~(f[n] < f[m]) /\ f[n] # f[m]
    <3>1. ASSUME f[n] < f[m] PROVE FALSE
      <4>1. n < m
        BY <1>1, <2>1, <3>1
      <4>2. QED
        BY <1>1, <1>6, <4>1
    <3>2. f[n] # f[m]
      BY <1>1, <1>6, <2>1
    <3>3. QED
      BY <3>1, <3>2
  <2>3. f[m] \in Nat /\ f[n] \in Nat
    BY <1>5, <2>1
  <2>4. QED
    BY <2>2, <2>3
<1>7. ASSUME NEW p \in P
      PROVE  \E n \in 1..c : f[n] = p
  <2>1. Rank(p, P) \in 1..c
    BY <1>1
  <2>2. f[Rank(p, P)] \in P /\ Rank(f[Rank(p, P)], P) = Rank(p, P)
    BY <1>2, <2>1
  <2> DEFINE g == f[Rank(p, P)]
  <2>3. g \in P /\ g \in Nat /\ p \in Nat /\ Rank(g, P) = Rank(p, P) /\ Rank(p, P) \in Nat
    <3>1. g \in P /\ Rank(g, P) = Rank(p, P)
      BY <2>2
    <3>2. g \in Nat /\ p \in Nat
      BY <1>5, <3>1
    <3>3. Rank(p, P) \in Nat
      BY <1>1, <2>1
    <3>4. QED
      BY <3>1, <3>2, <3>3
  <2> HIDE DEF g
  <2>4. ~(g < p) /\ ~(p < g)
    BY <1>1, <2>3
  <2>5. QED
    BY <2>1, <2>3, <2>4 DEF g
<1>8. QED
  BY <1>1, <1>3, <1>6, <1>7 DEF c, f

EntryRec == [k : {"entry"}, i : 1..MaxIndex, t : 1..MaxTerm]
FilterTypes == {"ConfigChange", "Request", "InternalRaftRequest", "UnknownNormal"}
RowRec == [i : 1..MaxIndex, t : 1..MaxTerm, type : FilterTypes]

\* There is an earliest place.
LEMMA EarliestIs ==
  ASSUME NEW N \in Nat, NEW S \in SUBSET ((1..N) \X (1..3)), S # {}
  PROVE  Earliest(S) \in S
<1> DEFINE groups == {a[1] : a \in S}
<1> DEFINE n == Min(groups)
<1>1. groups \in SUBSET Nat /\ groups # {}
  OBVIOUS
<1>2. n \in groups /\ \A m \in groups : n <= m
  <2> HIDE DEF groups
  <2>1. QED
    BY <1>1, MinIsLeast
<1> HIDE DEF n
<1> DEFINE places == {a[2] : a \in {b \in S : b[1] = n}}
<1> DEFINE k == Min(places)
<1>3. places \in SUBSET Nat /\ places # {}
  BY <1>2
<1>4. k \in places /\ \A m \in places : k <= m
  <2> HIDE DEF places
  <2>1. QED
    BY <1>3, MinIsLeast
<1> HIDE DEF k
<1>5. PICK a \in S : a[1] = n /\ a[2] = k
  BY <1>4
<1>6. \A b \in S : a[1] < b[1] \/ (a[1] = b[1] /\ a[2] <= b[2])
  <2>1. TAKE b \in S
  <2>2. n <= b[1] /\ n \in Nat /\ b[1] \in Nat
    BY <1>1, <1>2
  <2>3. CASE b[1] = n
    BY <1>4, <1>5, <2>3
  <2>4. CASE b[1] # n
    BY <1>5, <2>2, <2>4
  <2>5. QED
    BY <2>3, <2>4
<1>7. QED
  BY <1>5, <1>6 DEF Earliest

\* The filter that decides is one of those asked, if any is passed.
LEMMA ChosenIs ==
  ASSUME NEW filters, NEW e, NEW N \in Nat, DOMAIN filters = 1..N
  PROVE  /\ Passed(filters, e) = {} => Chosen(filters, e) = {}
         /\ Passed(filters, e) # {} =>
              \E n \in 1..N : \E k \in DOMAIN filters[n] : Chosen(filters, e) = {filters[n][k]}
<1> DEFINE S == Passed(filters, e)
<1>1. S \in SUBSET ((1..N) \X (1..3)) /\ \A a \in S : a[2] \in DOMAIN filters[a[1]]
  BY DEF Passed
<1>2. S = {} => Chosen(filters, e) = {}
  BY DEF Chosen
<1>3. ASSUME S # {}
      PROVE  \E n \in 1..N : \E k \in DOMAIN filters[n] : Chosen(filters, e) = {filters[n][k]}
  <2>1. Earliest(S) \in S
    BY <1>1, <1>3, EarliestIs
  <2>2. Chosen(filters, e) = {filters[Earliest(S)[1]][Earliest(S)[2]]}
    BY <1>3 DEF Chosen
  <2>3. Earliest(S)[1] \in 1..N /\ Earliest(S)[2] \in DOMAIN filters[Earliest(S)[1]]
    BY <1>1, <2>1
  <2>4. QED
    BY <2>2, <2>3
<1>4. QED
  BY <1>2, <1>3

\* Each filter returns a type that has a printer.
LEMMA FiltersAre ==
  ASSUME NEW types \in Seq({"Normal", "unknown"} \cup DOMAIN validRequest)
  PROVE  LET filters == evaluateEntrytypeFlag(types)
         IN  /\ Len(types) \in Nat /\ DOMAIN filters = 1..Len(types)
             /\ \A n \in 1..Len(types) : \A k \in DOMAIN filters[n] :
                  TypeOf(filters[n][k]) \in FilterTypes
<1> DEFINE filters == evaluateEntrytypeFlag(types)
<1>1. Len(types) \in Nat /\ DOMAIN types = 1..Len(types)
  BY LenProperties
<1>2. /\ DOMAIN filters = 1..Len(types)
      /\ \A n \in 1..Len(types) :
           filters[n] = IF types[n] \in DOMAIN validRequest THEN validRequest[types[n]] ELSE <<>>
  BY <1>1 DEF evaluateEntrytypeFlag
<1>3. ASSUME NEW type \in DOMAIN validRequest, NEW k \in DOMAIN validRequest[type]
      PROVE  TypeOf(validRequest[type][k]) \in FilterTypes
  <2>1. type \in {"ConfigChange", "Normal", "Request", "InternalRaftRequest"} \cup IRRKinds
    BY DEF validRequest
  <2>2. CASE type = "Normal"
    <3>1. validRequest[type] = <<"InternalRaftRequest", "Request", "UnknownNormal">>
      BY <2>1, <2>2 DEF validRequest
    <3>2. k \in 1..3
      BY <3>1
    <3>3. validRequest[type][k] \in {"InternalRaftRequest", "Request", "UnknownNormal"}
      BY <3>1, <3>2
    <3>4. QED
      BY <3>3 DEF TypeOf, IRRKinds, FilterTypes
  <2>3. CASE type # "Normal"
    <3>1. validRequest[type] = <<type>>
      BY <2>1, <2>3 DEF validRequest
    <3>2. validRequest[type][k] = type
      BY <3>1
    <3>3. QED
      BY <2>1, <2>3, <3>2 DEF TypeOf, IRRKinds, FilterTypes
  <2>4. QED
    BY <2>2, <2>3
<1>4. DOMAIN <<>> = {}
  OBVIOUS
<1>5. QED
  BY <1>1, <1>2, <1>3, <1>4

\* With the default types every entry passes.
LEMMA DefaultPassesAll ==
  ASSUME NEW e \in EntryData
  PROVE  Chosen(evaluateEntrytypeFlag(defaultEntryTypes), e) # {}
<1> DEFINE filters == evaluateEntrytypeFlag(defaultEntryTypes)
<1>1. /\ DOMAIN filters = 1..2
      /\ filters[1] = validRequest["Normal"] /\ filters[2] = validRequest["ConfigChange"]
  BY DEF evaluateEntrytypeFlag, defaultEntryTypes, validRequest
<1>2. /\ filters[1] = <<"InternalRaftRequest", "Request", "UnknownNormal">>
      /\ filters[2] = <<"ConfigChange">>
  BY <1>1 DEF validRequest
<1> HIDE DEF filters
<1>3. CASE e.conf
  <2>1. <<2, 1>> \in Passed(filters, e)
    BY <1>1, <1>2, <1>3 DEF Passed, Passes
  <2>2. QED
    BY <1>1, <2>1, ChosenIs DEF filters
<1>4. CASE ~e.conf /\ e.irr # "none"
  <2>1. <<1, 1>> \in Passed(filters, e)
    BY <1>1, <1>2, <1>4 DEF Passed, Passes
  <2>2. QED
    BY <1>1, <2>1, ChosenIs DEF filters
<1>5. CASE ~e.conf /\ e.irr = "none" /\ e.request
  <2>1. <<1, 2>> \in Passed(filters, e)
    BY <1>1, <1>2, <1>5 DEF Passed, Passes
  <2>2. QED
    BY <1>1, <2>1, ChosenIs DEF filters
<1>6. CASE ~e.conf /\ e.irr = "none" /\ ~e.request
  <2>1. <<1, 3>> \in Passed(filters, e)
    BY <1>1, <1>2, <1>6 DEF Passed, Passes
  <2>2. QED
    BY <1>1, <2>1, ChosenIs DEF filters
<1>7. QED
  BY <1>3, <1>4, <1>5, <1>6

\* Lists of entries in the order of their indexes.
Increasing(s) == \A m, n \in DOMAIN s : m < n => s[m].i < s[n].i

\* The rows are those of some of the entries, in their order, and with the
\* default types of all of them.
LEMMA ListIs ==
  ASSUME NEW es \in Seq(EntryRec),
         NEW types \in Seq({"Normal", "unknown"} \cup DOMAIN validRequest)
  PROVE  LET rows == listEntriesType(types, es, Data)
         IN  /\ \A n \in DOMAIN rows : rows[n] \in RowRec
             /\ Increasing(es) => Increasing(rows)
             /\ types = defaultEntryTypes => Len(rows) = Len(es)
<1> DEFINE filters == evaluateEntrytypeFlag(types)
<1> DEFINE listed == {n \in DOMAIN es : Chosen(filters, Data[es[n].i]) # {}}
<1> DEFINE rows == listEntriesType(types, es, Data)
<1>1. Len(es) \in Nat /\ DOMAIN es = 1..Len(es) /\ \A n \in 1..Len(es) : es[n] \in EntryRec
  BY LenProperties, ElementOfSeq
<1>2. listed \in SUBSET (1..Len(es))
  BY <1>1
<1>3. rows = [n \in 1..Cardinality(listed) |-> Row(Pick(es, listed)[n], filters, Data)]
  BY DEF listEntriesType
<1> HIDE DEF listed
<1> DEFINE c == Cardinality(listed)
<1>4. c \in Nat
  BY <1>1, <1>2, RankIs
<1> DEFINE f == Place(listed)
<1>5. /\ f \in [1..c -> listed]
      /\ Pick(es, listed) = [n \in 1..c |-> es[f[n]]]
      /\ \A m, n \in 1..c : m < n => f[m] < f[n]
      /\ \A p \in listed : \E n \in 1..c : f[n] = p
  <2> HIDE DEF f, c
  <2>1. /\ f \in [1..c -> listed]
        /\ \A m, n \in 1..c : m < n => f[m] < f[n]
        /\ \A p \in listed : \E n \in 1..c : f[n] = p
    BY <1>1, <1>2, PlaceIs DEF f, c
  <2>2. Pick(es, listed) = [n \in 1..c |-> es[f[n]]]
    BY PickAt DEF f, c
  <2>3. QED
    BY <2>1, <2>2
<1> HIDE DEF f
<1> HIDE DEF rows
<1>6. rows = [n \in 1..c |-> Row(es[f[n]], filters, Data)] /\ DOMAIN rows = 1..c
  BY <1>3, <1>5
<1> HIDE DEF c
<1>7. \A n \in 1..c : f[n] \in listed /\ f[n] \in 1..Len(es) /\ es[f[n]] \in EntryRec
  BY <1>1, <1>2, <1>5
<1>8. \A n \in 1..c : rows[n] = Row(es[f[n]], filters, Data) /\ rows[n].i = es[f[n]].i
  BY <1>6 DEF Row
<1>9. ASSUME NEW n \in 1..c
      PROVE  rows[n] \in RowRec
  <2> DEFINE e == es[f[n]]
  <2>1. e \in EntryRec /\ Chosen(filters, Data[e.i]) # {}
    BY <1>7 DEF listed
  <2>2. /\ Len(types) \in Nat /\ DOMAIN filters = 1..Len(types)
        /\ \A k \in 1..Len(types) : \A m \in DOMAIN filters[k] :
             TypeOf(filters[k][m]) \in FilterTypes
    BY FiltersAre
  <2> HIDE DEF e, filters
  <2>3. PICK k \in 1..Len(types) : \E m \in DOMAIN filters[k] :
          Chosen(filters, Data[e.i]) = {filters[k][m]}
    BY <2>1, <2>2, ChosenIs
  <2>4. PICK m \in DOMAIN filters[k] : Chosen(filters, Data[e.i]) = {filters[k][m]}
    BY <2>3
  <2>5. (CHOOSE x \in Chosen(filters, Data[e.i]) : TRUE) = filters[k][m]
    BY <2>4
  <2>6. Row(e, filters, Data) = [i |-> e.i, t |-> e.t, type |-> TypeOf(filters[k][m])]
    BY <2>5 DEF Row
  <2>7. TypeOf(filters[k][m]) \in FilterTypes
    BY <2>2, <2>4
  <2>8. e.i \in 1..MaxIndex /\ e.t \in 1..MaxTerm
    BY <2>1 DEF EntryRec
  <2>9. Row(e, filters, Data) \in RowRec
    BY <2>6, <2>7, <2>8 DEF RowRec
  <2>10. QED
    BY <1>8, <2>9 DEF e
<1>10. ASSUME Increasing(es)
       PROVE  Increasing(rows)
  <2>1. \A m, n \in 1..c : m < n => es[f[m]].i < es[f[n]].i
    BY <1>1, <1>5, <1>7, <1>10 DEF Increasing, c
  <2>2. QED
    BY <1>6, <1>8, <2>1 DEF Increasing
<1>11. ASSUME types = defaultEntryTypes
       PROVE  Len(rows) = Len(es)
  <2>1. \A n \in 1..Len(es) : Data[es[n].i] \in EntryData
    BY <1>1, DataAssumption DEF EntryRec
  <2>2. listed = 1..Len(es)
    BY <1>1, <1>11, <2>1, DefaultPassesAll DEF listed
  <2>3. c = Len(es)
    <3>1. Cardinality(1..Len(es)) = IF 1 > Len(es) THEN 0 ELSE Len(es) - 1 + 1
      <4>1. 1 \in Int /\ Len(es) \in Int
        BY <1>1
      <4>2. QED
        BY <4>1, FS_Interval, Zenon
    <3>2. Cardinality(1..Len(es)) = Len(es)
      BY <1>1, <3>1
    <3>3. QED
      BY <2>2, <3>2 DEF c
  <2>4. QED
    BY <1>4, <1>6, <2>3 DEF c
<1>12. QED
  BY <1>6, <1>9, <1>10, <1>11 DEF rows

-----------------------------------------------------------------------------
(* Reading up to a gap.                                                    *)

\* The entries before p end with the last of them, if there is one.
LEMMA EndIs ==
  ASSUME NEW start, start.i \in Index, Recs(start) \in Seq(Rec), NEW p \in Nat
  PROVE  /\ LaterIn(start) \in SUBSET (1..Len(Recs(start))) /\ Len(Recs(start)) \in Nat
         /\ Before(start, p) \in SUBSET Nat
         /\ \A q \in LaterIn(start) : Recs(start)[q].i \in Nat /\ Recs(start)[q].i > start.i
         /\ EndAt(start, p) \in Nat /\ EndAt(start, p) >= start.i /\ start.i \in Nat
         /\ Before(start, p) = {} => EndAt(start, p) = start.i
         /\ Before(start, p) # {} => \E q \in Before(start, p) :
              EndAt(start, p) = Recs(start)[q].i /\ \A r \in Before(start, p) : r <= q
<1>1. /\ LaterIn(start) \in SUBSET (1..Len(Recs(start)))
      /\ Before(start, p) = {} => EndAt(start, p) = start.i
      /\ Before(start, p) # {} => \E q \in Before(start, p) :
           EndAt(start, p) = Recs(start)[q].i /\ \A r \in Before(start, p) : r <= q
  BY EndAtIs
<1>2. start.i \in Nat /\ Len(Recs(start)) \in Nat
  BY LenProperties DEF Index
<1>3. \A q \in LaterIn(start) : Recs(start)[q].i \in Nat /\ Recs(start)[q].i > start.i
  BY <1>1, RecIs DEF LaterIn
<1>4. Before(start, p) \in SUBSET LaterIn(start)
  BY DEF Before
<1>5. EndAt(start, p) \in Nat /\ EndAt(start, p) >= start.i
  BY <1>1, <1>2, <1>3, <1>4
<1>6. Before(start, p) \in SUBSET Nat
  BY <1>1, <1>4
<1>7. QED
  BY <1>1, <1>2, <1>3, <1>5, <1>6

\* Without a gap before stop, the indexes climb by one from any entry to the end.
LEMMA Climbs ==
  ASSUME NEW start, start.i \in Index, Recs(start) \in Seq(Rec), NEW stop \in Nat,
         \A g \in Gaps(start) : g >= stop,
         NEW a \in Before(start, stop) \cup {0}, NEW y \in Nat,
         (a = 0 /\ start.i < y) \/ (a # 0 /\ Recs(start)[a].i < y),
         y <= EndAt(start, stop)
  PROVE  \E p \in Before(start, stop) : a < p /\ Recs(start)[p].i = y
<1> DEFINE recs == Recs(start)
<1> DEFINE high == {p \in Before(start, stop) : a < p /\ recs[p].i >= y}
<1>0. /\ LaterIn(start) \in SUBSET (1..Len(recs)) /\ start.i \in Nat
      /\ Before(start, stop) \in SUBSET Nat
      /\ \A q \in LaterIn(start) : recs[q].i \in Nat /\ recs[q].i > start.i
      /\ EndAt(start, stop) \in Nat
      /\ Before(start, stop) = {} => EndAt(start, stop) = start.i
      /\ Before(start, stop) # {} => \E q \in Before(start, stop) :
           EndAt(start, stop) = recs[q].i /\ \A r \in Before(start, stop) : r <= q
  BY EndIs
<1>1. \A q : q \in Before(start, stop) <=> q \in LaterIn(start) /\ q < stop
  BY DEF Before
<1>2. high # {}
  <2>1. Before(start, stop) # {}
    BY <1>0
  <2>2. PICK q \in Before(start, stop) :
          EndAt(start, stop) = recs[q].i /\ \A r \in Before(start, stop) : r <= q
    BY <1>0, <2>1
  <2>3. q \in Nat /\ q >= 1 /\ a \in Nat
    BY <1>0, <1>1, <2>2
  <2>4. a < q
    BY <1>0, <2>2, <2>3
  <2>5. QED
    BY <2>2, <2>4
<1>3. PICK b \in high : \A p \in high : b <= p
  <2>1. high \in SUBSET Nat
    BY <1>0
  <2> HIDE DEF high
  <2>2. QED
    BY <1>2, <2>1, MinIsLeast, Zenon
<1>4. b \in LaterIn(start) /\ b \in Nat /\ b < stop /\ a < b /\ recs[b].i >= y /\ recs[b].i \in Nat
  BY <1>0, <1>1
<1>5. ~(recs[b].i > y)
  <2> SUFFICES ASSUME recs[b].i > y PROVE FALSE
    OBVIOUS
  <2>1. /\ EndAt(start, b) \in Nat
        /\ Before(start, b) = {} => EndAt(start, b) = start.i
        /\ Before(start, b) # {} => \E q \in Before(start, b) :
             EndAt(start, b) = recs[q].i /\ \A r \in Before(start, b) : r <= q
    BY <1>4, EndIs
  <2>2. b \notin Gaps(start)
    BY <1>4
  <2>3. recs[b].i <= EndAt(start, b) + 1
    BY <1>4, <2>1, <2>2 DEF Gaps
  <2>4. \A q : q \in Before(start, b) <=> q \in LaterIn(start) /\ q < b
    BY DEF Before
  <2>5. a # 0 => a \in Before(start, b)
    BY <1>1, <1>4, <2>4
  <2>6. Before(start, b) # {}
    BY <1>0, <1>4, <2>1, <2>3, <2>5
  <2>7. PICK q \in Before(start, b) :
          EndAt(start, b) = recs[q].i /\ \A r \in Before(start, b) : r <= q
    BY <2>1, <2>6
  <2>8. q \in LaterIn(start) /\ q < b /\ recs[q].i >= y /\ q \in Nat /\ q >= 1
    BY <1>0, <1>4, <2>1, <2>3, <2>4, <2>7
  <2>9. a < q
    <3>1. a # 0 => a <= q /\ a # q /\ a \in Nat
      BY <1>0, <2>5, <2>7, <2>8
    <3>2. QED
      BY <2>8, <3>1
  <2>10. q \in high
    BY <1>1, <1>4, <2>8, <2>9
  <2>11. QED
    BY <1>3, <1>4, <2>8, <2>10
<1>6. QED
  BY <1>3, <1>4, <1>5

\* What is read up to a gap, or to the end, if there is no mismatch: every index
\* from the start to the last entry, each time the entry that nothing has cut off.
LEMMA PrefixRead ==
  ASSUME NEW start, start.i \in Index, Recs(start) \in Seq(Rec),
         ErrOf(start) # "ErrSnapshotMismatch"
  PROVE  LET recs == Recs(start)
             x == StopAt(start)
             last == EndAt(start, x)
             es == ReadAll(start).ents
         IN  /\ x \in 1..(Len(recs) + 1)
             /\ last \in Nat /\ last >= start.i
             /\ es = [n \in 1..(last - start.i) |-> es[n]]
             /\ ErrOf(start) = "ErrSliceOutOfRange" =>
                  x \in LaterIn(start) /\ recs[x].i > last + 1
             /\ ErrOf(start) # "ErrSliceOutOfRange" => x = Len(recs) + 1
             /\ \A n \in 1..(last - start.i) : \E p \in Before(start, x) :
                  /\ es[n] = recs[p] /\ recs[p].i = start.i + n
                  /\ \A q \in Before(start, x) : recs[q].i <= start.i + n => q <= p
             /\ \A q \in Before(start, x) :
                  (\A r \in Before(start, x) : r <= q) => recs[q].i = last
<1> DEFINE recs == Recs(start)
<1> DEFINE s == start.i
<1> DEFINE x == StopAt(start)
<1> DEFINE last == EndAt(start, x)
<1> DEFINE es == ReadAll(start).ents
<1>1. /\ x \in 1..(Len(recs) + 1)
      /\ x \in Stops(start) \/ x = Len(recs) + 1
      /\ ErrOf(start) \in {"nil", "ErrSnapshotNotFound"} => x = Len(recs) + 1
  BY StopAtIs
<1>2. Len(recs) \in Nat /\ x \in Nat
  BY <1>1, LenProperties
<1>3. /\ LaterIn(start) \in SUBSET (1..Len(recs)) /\ s \in Nat
      /\ Before(start, x) \in SUBSET Nat
      /\ \A q \in LaterIn(start) : recs[q].i \in Nat /\ recs[q].i > s
      /\ last \in Nat /\ last >= s
      /\ Before(start, x) = {} => last = s
      /\ Before(start, x) # {} => \E q \in Before(start, x) :
           last = recs[q].i /\ \A r \in Before(start, x) : r <= q
  BY <1>2, EndIs
<1>4. es = [n \in 1..(last - s) |-> EntryAt(start, s + n)]
  BY ReadAllIs
<1>5. \A g \in Gaps(start) : g >= x
  <2>1. Stops(start) \in SUBSET (1..Len(recs))
    BY AtIs DEF Stops, Gaps, Mismatches, Matches, LaterIn
  <2>2. Stops(start) # {} => \A y \in Stops(start) : Min(Stops(start)) <= y
    <3>1. Stops(start) \in SUBSET Nat
      BY <2>1
    <3>2. QED
      BY <3>1, MinIsLeast
  <2>3. \A g \in Stops(start) : g \in Nat /\ x <= g
    BY <2>1, <2>2 DEF StopAt
  <2>4. QED
    BY <1>2, <2>3 DEF Stops
<1>6. ErrOf(start) = "ErrSliceOutOfRange" => x \in LaterIn(start) /\ recs[x].i > last + 1
  BY DEF ErrOf, Gaps
<1>7. ErrOf(start) # "ErrSliceOutOfRange" => x = Len(recs) + 1
  BY <1>1 DEF ErrOf
<1>8. ASSUME NEW n \in 1..(last - s)
      PROVE  \E p \in Before(start, x) :
               /\ EntryAt(start, s + n) = recs[p] /\ recs[p].i = s + n
               /\ \A q \in Before(start, x) : recs[q].i <= s + n => q <= p
  <2> DEFINE same == {p \in Before(start, x) : recs[p].i = s + n}
  <2>0. s + n \in Nat /\ s < s + n /\ s + n <= last
    BY <1>3
  <2>1. same # {}
    <3>1. \E p \in Before(start, x) : 0 < p /\ recs[p].i = s + n
      <4>1. s + n <= EndAt(start, x)
        BY <2>0
      <4>2. ASSUME NEW a \in Before(start, x) \cup {0}, a = 0
            PROVE  \E p \in Before(start, x) : a < p /\ recs[p].i = s + n
        <5>1. (a = 0 /\ start.i < s + n) \/ (a # 0 /\ Recs(start)[a].i < s + n)
          BY <2>0, <4>2
        <5>2. QED
          BY <1>2, <1>5, <2>0, <4>1, <5>1, Climbs, Zenon
      <4>3. QED
        BY <4>2
    <3>2. QED
      BY <3>1
  <2>2. same \in SUBSET (0..Len(recs))
    BY <1>3 DEF Before
  <2>3. EntryAt(start, s + n) = recs[Max(same)]
    BY DEF EntryAt
  <2>4. Max(same) \in same /\ \A q \in same : q <= Max(same)
    <3> HIDE DEF same
    <3>1. QED
      BY <1>2, <2>1, <2>2, MaxIsGreatest
  <2> DEFINE p == Max(same)
  <2>5. p \in same /\ EntryAt(start, s + n) = recs[p] /\ \A q \in same : q <= p
    BY <2>3, <2>4
  <2> HIDE DEF p
  <2>6. p \in Before(start, x) /\ recs[p].i = s + n /\ p \in Nat
    BY <1>3, <2>5
  <2>7. ASSUME NEW q \in Before(start, x), recs[q].i <= s + n
        PROVE  q <= p
    <3>0. q \in LaterIn(start) /\ q \in Nat /\ recs[q].i \in Nat /\ q >= 1
      BY <1>3 DEF Before
    <3>1. CASE recs[q].i = s + n
      BY <2>5, <3>1
    <3>2. CASE recs[q].i < s + n
      <4>1. PICK r \in Before(start, x) : q < r /\ recs[r].i = s + n
        <5>1. q \in Before(start, x) \cup {0} /\ q # 0 /\ Recs(start)[q].i < s + n
          BY <3>0, <3>2
        <5>2. s + n <= EndAt(start, x)
          BY <2>0
        <5>3. QED
          BY <1>2, <1>5, <2>0, <5>1, <5>2, Climbs, Zenon
      <4>2. r <= p /\ r \in Nat
        BY <1>3, <2>5, <4>1
      <4>3. QED
        BY <2>6, <3>0, <4>1, <4>2
    <3>3. QED
      BY <2>0, <2>7, <3>0, <3>1, <3>2
  <2>8. QED
    BY <2>5, <2>6, <2>7
<1>9. ASSUME NEW q \in Before(start, x), \A r \in Before(start, x) : r <= q
      PROVE  recs[q].i = last
  <2>1. PICK y \in Before(start, x) : last = recs[y].i /\ \A r \in Before(start, x) : r <= y
    BY <1>3
  <2>2. y = q
    BY <1>3, <1>9, <2>1
  <2>3. QED
    BY <2>1, <2>2
<1> HIDE DEF last, x, recs, s
<1>10. es = [n \in 1..(last - s) |-> es[n]] /\ \A n \in 1..(last - s) : es[n] = EntryAt(start, s + n)
  BY <1>4
<1> HIDE DEF es
<1>11. \A n \in 1..(last - s) : \E p \in Before(start, x) :
         /\ es[n] = recs[p] /\ recs[p].i = s + n
         /\ \A q \in Before(start, x) : recs[q].i <= s + n => q <= p
  <2>1. TAKE n \in 1..(last - s)
  <2>2. es[n] = EntryAt(start, s + n)
    BY <1>10
  <2>3. QED
    BY <1>8, <2>2
<1>12. /\ x \in 1..(Len(recs) + 1) /\ last \in Nat /\ last >= s
       /\ es = [n \in 1..(last - s) |-> es[n]]
       /\ ErrOf(start) = "ErrSliceOutOfRange" => x \in LaterIn(start) /\ recs[x].i > last + 1
       /\ ErrOf(start) # "ErrSliceOutOfRange" => x = Len(recs) + 1
       /\ \A q \in Before(start, x) :
            (\A r \in Before(start, x) : r <= q) => recs[q].i = last
  BY <1>1, <1>3, <1>6, <1>7, <1>9, <1>10
<1>13. QED
  BY <1>11, <1>12 DEF last, x, recs, s, es

\* Entries es up to index last are what is read after s from the segment at m to
\* position x.
ReadsTo(m, s, x, last, es) ==
  /\ x \in (m + 1)..(Len(wal) + 1) /\ last \in Nat /\ last >= s
  /\ es = [n \in 1..(last - s) |-> es[n]]
  /\ \A n \in 1..(last - s) : \E p \in DOMAIN wal :
       /\ Later(p, wal, m, s) /\ p < x /\ es[n] = wal[p] /\ wal[p].i = s + n
       /\ \A q : Later(q, wal, m, s) /\ q < x /\ wal[q].i <= s + n => q <= p
  /\ \A q : Later(q, wal, m, s) /\ q < x /\ (\A r : Later(r, wal, m, s) /\ r < x => r <= q)
       => wal[q].i = last

\* PrefixRead in terms of the whole WAL.
LEMMA ReadUpTo ==
  ASSUME NEW start, Readable(start), ReadAll(start).err # "ErrSnapshotMismatch"
  PROVE  LET m == SegmentOf(start)
             err == ReadAll(start).err
         IN  \E x, last \in Nat :
               /\ ReadsTo(m, start.i, x, last, ReadAll(start).ents)
               /\ err # "ErrSliceOutOfRange" => x = Len(wal) + 1
               /\ err = "ErrSliceOutOfRange" =>
                    Later(x, wal, m, start.i) /\ wal[x].i > last + 1
<1> DEFINE m == SegmentOf(start)
<1> DEFINE recs == Recs(start)
<1> DEFINE s == start.i
<1> DEFINE es == ReadAll(start).ents
<1> DEFINE xr == StopAt(start)
<1> DEFINE last == EndAt(start, xr)
<1> DEFINE x == xr + m - 1
<1>0. s \in Nat /\ start.i \in Index /\ DOMAIN wal = 1..Len(wal)
  BY LenProperties DEF Readable, Index
<1>1. /\ m \in 1..Len(wal) /\ recs \in Seq(Rec) /\ Len(wal) \in Nat
      /\ Len(recs) = Len(wal) - m + 1
      /\ \A p \in 1..Len(recs) : p + m - 1 \in 1..Len(wal) /\ recs[p] = wal[p + m - 1]
      /\ \A p \in m..Len(wal) : p - m + 1 \in 1..Len(recs) /\ recs[p - m + 1] = wal[p]
      /\ \A p \in LaterIn(start) : Later(p + m - 1, wal, m, s)
      /\ \A p : Later(p, wal, m, s) => p \in m..Len(wal) /\ p - m + 1 \in LaterIn(start)
  BY PositionsAre
<1>2. ErrOf(start) = ReadAll(start).err
  BY ReadAllIs
<1>3. /\ xr \in 1..(Len(recs) + 1)
      /\ last \in Nat /\ last >= s
      /\ es = [n \in 1..(last - s) |-> es[n]]
      /\ ErrOf(start) = "ErrSliceOutOfRange" => xr \in LaterIn(start) /\ recs[xr].i > last + 1
      /\ ErrOf(start) # "ErrSliceOutOfRange" => xr = Len(recs) + 1
      /\ \A n \in 1..(last - s) : \E p \in Before(start, xr) :
           /\ es[n] = recs[p] /\ recs[p].i = s + n
           /\ \A q \in Before(start, xr) : recs[q].i <= s + n => q <= p
      /\ \A q \in Before(start, xr) :
           (\A r \in Before(start, xr) : r <= q) => recs[q].i = last
  BY <1>0, <1>1, <1>2, PrefixRead
<1>4. LaterIn(start) \in SUBSET (1..Len(recs)) /\ Len(recs) \in Nat
  BY <1>1, EndAtIs, LenProperties
<1>5. \A p : p \in Before(start, xr) <=> p \in LaterIn(start) /\ p < xr
  BY DEF Before
<1> HIDE DEF m, recs, s, es, xr, last
<1>6. x \in Nat /\ x \in m..(Len(wal) + 1) /\ xr \in Nat
  <2>1. m \in 1..Len(wal) /\ Len(wal) \in Nat /\ Len(recs) = Len(wal) - m + 1
    BY <1>1
  <2>2. xr \in 1..(Len(recs) + 1)
    BY <1>3
  <2>3. QED
    BY <2>1, <2>2
<1>7. ASSUME NEW p, Later(p, wal, m, s), p < x
      PROVE  /\ p \in Nat /\ p \in DOMAIN wal /\ p - m + 1 \in Before(start, xr)
             /\ recs[p - m + 1] = wal[p]
  <2>1. p \in m..Len(wal) /\ p - m + 1 \in LaterIn(start) /\ recs[p - m + 1] = wal[p]
    BY <1>1, <1>7
  <2>2. p - m + 1 < xr
    BY <1>1, <1>6, <1>7, <2>1
  <2>3. QED
    BY <1>0, <1>1, <1>5, <2>1, <2>2
<1>8. ASSUME NEW p \in Before(start, xr)
      PROVE  /\ p + m - 1 \in DOMAIN wal /\ recs[p] = wal[p + m - 1] /\ p \in Nat
             /\ Later(p + m - 1, wal, m, s) /\ p + m - 1 < x
  <2>1. p \in 1..Len(recs) /\ p < xr /\ p \in LaterIn(start)
    BY <1>4, <1>5
  <2>2. p + m - 1 \in 1..Len(wal) /\ recs[p] = wal[p + m - 1] /\ Later(p + m - 1, wal, m, s)
    BY <1>1, <2>1
  <2>3. QED
    BY <1>0, <1>1, <1>4, <1>6, <2>1, <2>2
<1>9. ASSUME NEW n \in 1..(last - s)
      PROVE  \E p \in DOMAIN wal :
               /\ Later(p, wal, m, s) /\ p < x /\ es[n] = wal[p] /\ wal[p].i = s + n
               /\ \A q : Later(q, wal, m, s) /\ q < x /\ wal[q].i <= s + n => q <= p
  <2>1. PICK p \in Before(start, xr) :
          /\ es[n] = recs[p] /\ recs[p].i = s + n
          /\ \A q \in Before(start, xr) : recs[q].i <= s + n => q <= p
    BY <1>3
  <2>2. /\ p + m - 1 \in DOMAIN wal /\ recs[p] = wal[p + m - 1] /\ p \in Nat
        /\ Later(p + m - 1, wal, m, s) /\ p + m - 1 < x
    BY <1>8
  <2>3. ASSUME NEW q, Later(q, wal, m, s), q < x, wal[q].i <= s + n
        PROVE  q <= p + m - 1
    <3>1. q \in Nat /\ q - m + 1 \in Before(start, xr) /\ recs[q - m + 1] = wal[q]
      BY <1>7, <2>3
    <3>2. q - m + 1 <= p
      BY <2>1, <2>3, <3>1
    <3>3. QED
      BY <1>1, <2>2, <3>1, <3>2
  <2>4. QED
    BY <2>1, <2>2, <2>3
<1>10. ASSUME NEW q, Later(q, wal, m, s), q < x,
              \A r : Later(r, wal, m, s) /\ r < x => r <= q
       PROVE  wal[q].i = last
  <2>1. q \in Nat /\ q - m + 1 \in Before(start, xr) /\ recs[q - m + 1] = wal[q]
    BY <1>7, <1>10
  <2>2. \A r \in Before(start, xr) : r <= q - m + 1
    <3>1. TAKE r \in Before(start, xr)
    <3>2. r \in Nat /\ Later(r + m - 1, wal, m, s) /\ r + m - 1 < x
      BY <1>8
    <3>3. r + m - 1 <= q
      BY <1>10, <3>2
    <3>4. QED
      BY <1>1, <2>1, <3>2, <3>3
  <2>3. QED
    BY <1>3, <2>1, <2>2
<1>11. ErrOf(start) = "ErrSliceOutOfRange" => Later(x, wal, m, s) /\ wal[x].i > last + 1
  <2>1. SUFFICES ASSUME ErrOf(start) = "ErrSliceOutOfRange"
                 PROVE  Later(x, wal, m, s) /\ wal[x].i > last + 1
    OBVIOUS
  <2>2. xr \in LaterIn(start) /\ recs[xr].i > last + 1 /\ xr \in 1..Len(recs)
    BY <1>3, <1>4, <2>1
  <2>3. QED
    BY <1>1, <2>2
<1>12. ErrOf(start) # "ErrSliceOutOfRange" => x = Len(wal) + 1
  BY <1>1, <1>3
<1>13. x \in (m + 1)..(Len(wal) + 1)
  <2>1. CASE ErrOf(start) = "ErrSliceOutOfRange"
    BY <1>1, <1>6, <1>11, <2>1 DEF Later
  <2>2. CASE ErrOf(start) # "ErrSliceOutOfRange"
    BY <1>1, <1>6, <1>12, <2>2
  <2>3. QED
    BY <2>1, <2>2
<1> HIDE DEF x
<1>14. ReadsTo(m, s, x, last, es)
  BY <1>3, <1>9, <1>10, <1>13, Zenon DEF ReadsTo
<1>15. QED
  BY <1>2, <1>3, <1>6, <1>11, <1>12, <1>14 DEF m, s, es

-----------------------------------------------------------------------------
(* The inductive invariant: what was written, in which order, by a member  *)
(* that has not restarted.                                                 *)

\* The snapshot from the leader that is coming in is at the end of the WAL.
Arriving(p) ==
  /\ saving.step \in {"record", "state"} /\ wal[p] = Snap(saving.i, saving.t)
  /\ \A q \in DOMAIN wal : q > p => wal[q].k = "state"
  /\ LastState(SubSeq(wal, 1, p)).i <= commit

\* The other ones are committed and survive a crash, but for one that the crash
\* has kept from being installed.
SnapsInv ==
  \A p \in DOMAIN wal : wal[p].k = "snap" /\ wal[p].i > 0 =>
    \/ Arriving(p)
    \/ (Up => wal[p].i <= commit) /\ wal[p] \in Durable(wal, Synced, snaps)
    \/ ~Up /\ Len(log) < wal[p].i

\* Entries are written after what a snapshot stands for,
Above(w) ==
  \A p, q \in DOMAIN w : p < q /\ w[p].k = "snap" /\ w[q].k = "entry" => w[p].i < w[q].i

\* and after the entry before them, or a snapshot.
Stepwise(w) ==
  \A r, x \in DOMAIN w :
    r < x /\ w[r].k = "entry" /\ w[x].k = "entry" /\ w[r].i + 1 < w[x].i =>
      \E y \in DOMAIN w :
        /\ r < y /\ y < x
        /\ \/ w[y].k = "entry" /\ w[y].i = w[x].i - 1
           \/ w[y].k = "snap" /\ w[y].i >= w[x].i - 1

\* What the log l has above an entry came after it.
Continued(w, l) ==
  \A r \in DOMAIN w : w[r].k = "entry" =>
    \A x \in (w[r].i + 1)..Len(l) :
      \E y \in DOMAIN w :
        /\ r < y
        /\ \/ w[y].k = "entry" /\ w[y].i = x
           \/ w[y].k = "snap" /\ x <= w[y].i /\ w[y].i <= Len(l)

\* A snapshot after position p, not beyond the log l, has overtaken index i.
Over(i, p, w, l) ==
  \E q \in DOMAIN w :
    /\ q > p /\ w[q].k = "snap" /\ w[q].i >= i /\ w[q].i <= Len(l)
    /\ LastState(SubSeq(w, 1, q)).i < i

\* An entry which nothing above s has cut off later is the one of the log l.
Current(w, l) ==
  \A p \in DOMAIN w : w[p].k = "entry" =>
    \A s \in 0..(w[p].i - 1) :
      (\A q \in DOMAIN w : q > p /\ w[q].k = "entry" => ~(s < w[q].i /\ w[q].i <= w[p].i)) =>
        \/ w[p].i <= Len(l) /\ w[p].t = l[w[p].i]
        \/ s >= Len(l)
        \/ Over(w[p].i, p, w, l) \/ Over(s + 1, p, w, l)

History(w, l) == Above(w) /\ Stepwise(w) /\ Continued(w, l) /\ Current(w, l)
HistoryInv == restarts = 0 => SnapsInv /\ History(wal, LastLog)

\* A record more or less that is no entry leaves the history as it was.
LEMMA HistoryKept ==
  ASSUME NEW w \in Seq(Rec), NEW v \in Seq(Rec), NEW l,
         \A p \in DOMAIN w : w[p].k \in {"entry", "snap"} => p \in DOMAIN v /\ v[p] = w[p],
         \A p, q \in DOMAIN v : p <= q /\ v[q].k = "entry" => p \in DOMAIN w /\ w[p] = v[p],
         \A q \in DOMAIN w : w[q].k = "snap" => SubSeq(v, 1, q) = SubSeq(w, 1, q),
         History(w, l)
  PROVE  History(v, l)
<1>0. DOMAIN w = 1..Len(w) /\ Len(w) \in Nat /\ DOMAIN v = 1..Len(v) /\ Len(v) \in Nat
  BY SeqFacts
<1>1. \A p \in DOMAIN v : v[p].k = "entry" => p \in DOMAIN w /\ w[p] = v[p]
  BY <1>0
<1>2. Above(v)
  <2>1. SUFFICES ASSUME NEW p \in DOMAIN v, NEW q \in DOMAIN v,
                        p < q, v[p].k = "snap", v[q].k = "entry"
                 PROVE  v[p].i < v[q].i
    BY DEF Above
  <2>2. p \in DOMAIN w /\ w[p] = v[p] /\ q \in DOMAIN w /\ w[q] = v[q]
    BY <1>0, <1>1, <2>1
  <2>3. QED
    BY <2>1, <2>2 DEF History, Above
<1>3. Stepwise(v)
  <2>1. SUFFICES ASSUME NEW r \in DOMAIN v, NEW x \in DOMAIN v, r < x,
                        v[r].k = "entry", v[x].k = "entry", v[r].i + 1 < v[x].i
                 PROVE  \E y \in DOMAIN v :
                          /\ r < y /\ y < x
                          /\ \/ v[y].k = "entry" /\ v[y].i = v[x].i - 1
                             \/ v[y].k = "snap" /\ v[y].i >= v[x].i - 1
    BY DEF Stepwise
  <2>2. r \in DOMAIN w /\ w[r] = v[r] /\ x \in DOMAIN w /\ w[x] = v[x]
    BY <1>1, <2>1
  <2>3. PICK y \in DOMAIN w :
          /\ r < y /\ y < x
          /\ \/ w[y].k = "entry" /\ w[y].i = w[x].i - 1
             \/ w[y].k = "snap" /\ w[y].i >= w[x].i - 1
    BY <2>1, <2>2 DEF History, Stepwise
  <2>4. y \in DOMAIN v /\ v[y] = w[y]
    BY <2>3
  <2>5. QED
    BY <2>2, <2>3, <2>4
<1>4. Continued(v, l)
  <2>1. SUFFICES ASSUME NEW r \in DOMAIN v, v[r].k = "entry", NEW x \in (v[r].i + 1)..Len(l)
                 PROVE  \E y \in DOMAIN v :
                          /\ r < y
                          /\ \/ v[y].k = "entry" /\ v[y].i = x
                             \/ v[y].k = "snap" /\ x <= v[y].i /\ v[y].i <= Len(l)
    BY DEF Continued
  <2>2. r \in DOMAIN w /\ w[r] = v[r]
    BY <1>1, <2>1
  <2>3. PICK y \in DOMAIN w :
          /\ r < y
          /\ \/ w[y].k = "entry" /\ w[y].i = x
             \/ w[y].k = "snap" /\ x <= w[y].i /\ w[y].i <= Len(l)
    BY <2>1, <2>2 DEF History, Continued
  <2>4. y \in DOMAIN v /\ v[y] = w[y]
    BY <2>3
  <2>5. QED
    BY <2>3, <2>4
<1>5. \A i, p : Over(i, p, w, l) => Over(i, p, v, l)
  BY DEF Over
<1>6. Current(v, l)
  <2>1. SUFFICES ASSUME NEW p \in DOMAIN v, v[p].k = "entry", NEW s \in 0..(v[p].i - 1),
                        \A q \in DOMAIN v : q > p /\ v[q].k = "entry" =>
                          ~(s < v[q].i /\ v[q].i <= v[p].i)
                 PROVE  \/ v[p].i <= Len(l) /\ v[p].t = l[v[p].i]
                        \/ s >= Len(l)
                        \/ Over(v[p].i, p, v, l) \/ Over(s + 1, p, v, l)
    BY DEF Current
  <2>2. p \in DOMAIN w /\ w[p] = v[p]
    BY <1>1, <2>1
  <2>3. \A q \in DOMAIN w : q > p /\ w[q].k = "entry" => ~(s < w[q].i /\ w[q].i <= w[p].i)
    BY <2>1, <2>2
  <2>4. \/ w[p].i <= Len(l) /\ w[p].t = l[w[p].i]
        \/ s >= Len(l)
        \/ Over(w[p].i, p, w, l) \/ Over(s + 1, p, w, l)
    BY <2>1, <2>2, <2>3 DEF History, Current
  <2>5. QED
    BY <1>5, <2>2, <2>4
<1>7. QED
  BY <1>2, <1>3, <1>4, <1>6 DEF History

\* The first records of a WAL to which one is appended.
LEMMA PrefixAppend ==
  ASSUME NEW w \in Seq(Rec), NEW x \in Rec
  PROVE  /\ SubSeq(Append(w, x), 1, Len(w)) = w
         /\ \A q \in DOMAIN w : SubSeq(Append(w, x), 1, q) = SubSeq(w, 1, q)
<1> DEFINE v == Append(w, x)
<1>1. /\ v \in Seq(Rec) /\ Len(v) = Len(w) + 1 /\ \A p \in 1..Len(w) : v[p] = w[p]
      /\ Len(w) \in Nat /\ DOMAIN w = 1..Len(w)
  BY AppendIs, SeqFacts
<1> HIDE DEF v
<1>2. ASSUME NEW q \in 0..Len(w)
      PROVE  SubSeq(v, 1, q) = SubSeq(w, 1, q)
  <2>1. q \in 0..Len(v)
    BY <1>1
  <2>2. /\ SubSeq(v, 1, q) \in Seq(Rec) /\ Len(SubSeq(v, 1, q)) = q
        /\ \A p \in 1..q : SubSeq(v, 1, q)[p] = v[p]
    BY <1>1, <2>1, PrefixIs
  <2>3. /\ SubSeq(w, 1, q) \in Seq(Rec) /\ Len(SubSeq(w, 1, q)) = q
        /\ \A p \in 1..q : SubSeq(w, 1, q)[p] = w[p]
    BY PrefixIs
  <2>4. \A p \in 1..q : SubSeq(v, 1, q)[p] = SubSeq(w, 1, q)[p]
    BY <1>1, <2>2, <2>3
  <2>5. QED
    BY <2>2, <2>3, <2>4, SeqEqual
<1>3. SubSeq(w, 1, Len(w)) = w
  BY SubSeqFull
<1>4. QED
  BY <1>1, <1>2, <1>3 DEF v

\* So the history is kept if a record that is no entry is appended,
LEMMA HistoryAppend ==
  ASSUME NEW w \in Seq(Rec), NEW x \in Rec, x.k # "entry", NEW l, History(w, l)
  PROVE  History(Append(w, x), l)
<1> DEFINE v == Append(w, x)
<1>1. /\ v \in Seq(Rec) /\ Len(v) = Len(w) + 1 /\ v[Len(w) + 1] = x
      /\ \A p \in 1..Len(w) : v[p] = w[p]
      /\ \A q \in DOMAIN w : SubSeq(v, 1, q) = SubSeq(w, 1, q)
  BY AppendIs, PrefixAppend
<1> HIDE DEF v
<1>2. DOMAIN w = 1..Len(w) /\ DOMAIN v = 1..(Len(w) + 1) /\ Len(w) \in Nat
  BY <1>1, SeqFacts
<1>3. \A p \in DOMAIN w : p \in DOMAIN v /\ v[p] = w[p]
  BY <1>1, <1>2
<1>4. \A p, q \in DOMAIN v : p <= q /\ v[q].k = "entry" => p \in DOMAIN w /\ w[p] = v[p]
  <2>1. SUFFICES ASSUME NEW p \in DOMAIN v, NEW q \in DOMAIN v, p <= q, v[q].k = "entry"
                 PROVE  p \in DOMAIN w /\ w[p] = v[p]
    OBVIOUS
  <2>2. q # Len(w) + 1
    BY <1>1, <2>1
  <2>3. p \in 1..Len(w)
    BY <1>2, <2>1, <2>2
  <2>4. QED
    BY <1>1, <1>2, <2>3
<1>5. QED
  BY <1>1, <1>3, <1>4, HistoryKept DEF v

\* or the last HardStates are lost.
LEMMA HistoryLost ==
  ASSUME NEW w \in Seq(Rec), NEW n \in 0..Len(w), NEW l, History(w, l),
         \A p \in DOMAIN w : p > n => w[p].k = "state"
  PROVE  History(SubSeq(w, 1, n), l)
<1> DEFINE v == SubSeq(w, 1, n)
<1>1. /\ v \in Seq(Rec) /\ Len(v) = n /\ \A p \in 1..n : v[p] = w[p]
  BY PrefixIs
<1>2. DOMAIN w = 1..Len(w) /\ DOMAIN v = 1..n /\ Len(w) \in Nat /\ n \in Nat
  BY <1>1, SeqFacts
<1>3. \A q \in DOMAIN w : w[q].k = "snap" => SubSeq(v, 1, q) = SubSeq(w, 1, q)
  <2>1. SUFFICES ASSUME NEW q \in DOMAIN w, w[q].k = "snap"
                 PROVE  SubSeq(v, 1, q) = SubSeq(w, 1, q)
    OBVIOUS
  <2>2. q \in 1..n /\ q \in 0..Len(w) /\ q \in 0..Len(v)
    BY <1>1, <1>2, <2>1
  <2> HIDE DEF v
  <2>3. /\ SubSeq(v, 1, q) \in Seq(Rec) /\ Len(SubSeq(v, 1, q)) = q
        /\ \A p \in 1..q : SubSeq(v, 1, q)[p] = v[p]
    BY <1>1, <2>2, PrefixIs
  <2>4. /\ SubSeq(w, 1, q) \in Seq(Rec) /\ Len(SubSeq(w, 1, q)) = q
        /\ \A p \in 1..q : SubSeq(w, 1, q)[p] = w[p]
    BY <2>2, PrefixIs
  <2>5. \A p \in 1..q : SubSeq(v, 1, q)[p] = SubSeq(w, 1, q)[p]
    BY <1>1, <1>2, <2>2, <2>3, <2>4
  <2>6. QED
    BY <2>3, <2>4, <2>5, SeqEqual
<1> HIDE DEF v
<1>4. \A p \in DOMAIN w : w[p].k \in {"entry", "snap"} => p \in DOMAIN v /\ v[p] = w[p]
  BY <1>1, <1>2
<1>5. \A p, q \in DOMAIN v : p <= q /\ v[q].k = "entry" => p \in DOMAIN w /\ w[p] = v[p]
  BY <1>1, <1>2
<1>6. QED
  BY <1>1, <1>3, <1>4, <1>5, HistoryKept DEF v

\* It is kept if the oldest segments are removed,
LEMMA HistoryPurge ==
  ASSUME NEW w \in Seq(Rec), NEW l, History(w, l),
         NEW m \in DOMAIN w, m + 1 \in DOMAIN w, w[m].k = "file", w[m + 1].k = "state"
  PROVE  /\ History(SubSeq(w, m, Len(w)), l)
         /\ \A p \in (m + 1)..Len(w) :
              LastState(SubSeq(SubSeq(w, m, Len(w)), 1, p - m + 1)) = LastState(SubSeq(w, 1, p))
<1> DEFINE v == SubSeq(w, m, Len(w))
<1>0. DOMAIN w = 1..Len(w) /\ Len(w) \in Nat /\ m \in 1..Len(w)
  BY SeqFacts
<1>1. /\ v \in Seq(Rec) /\ Len(v) = Len(w) - m + 1
      /\ \A p \in 1..(Len(w) - m + 1) : v[p] = w[m + p - 1]
  BY <1>0, SuffixIs
<1>2. DOMAIN v = 1..Len(v) /\ Len(v) \in Nat
  BY <1>1, SeqFacts
<1>3. ASSUME NEW p \in (m + 1)..Len(w)
      PROVE  LastState(SubSeq(v, 1, p - m + 1)) = LastState(SubSeq(w, 1, p))
  <2> DEFINE u == SubSeq(w, 1, p)
  <2>1. p \in 0..Len(w) /\ p - m + 1 \in 0..Len(v) /\ p \in Nat
    BY <1>0, <1>1
  <2>2. u \in Seq(Rec) /\ Len(u) = p /\ \A q \in 1..p : u[q] = w[q]
    BY <2>1, PrefixIs
  <2>3. /\ SubSeq(v, 1, p - m + 1) \in Seq(Rec) /\ Len(SubSeq(v, 1, p - m + 1)) = p - m + 1
        /\ \A q \in 1..(p - m + 1) : SubSeq(v, 1, p - m + 1)[q] = v[q]
    BY <1>1, <2>1, PrefixIs
  <2> HIDE DEF u, v
  <2>4. m \in 1..Len(u) /\ m \in DOMAIN u /\ m + 1 \in DOMAIN u /\ u[m + 1].k = "state"
    BY <1>0, <2>1, <2>2, SeqFacts
  <2>5. /\ SubSeq(u, m, Len(u)) \in Seq(Rec) /\ Len(SubSeq(u, m, Len(u))) = p - m + 1
        /\ \A q \in 1..(p - m + 1) : SubSeq(u, m, Len(u))[q] = u[m + q - 1]
    BY <2>2, <2>4, SuffixIs
  <2>6. ASSUME NEW q \in 1..(p - m + 1)
        PROVE  SubSeq(u, m, Len(u))[q] = SubSeq(v, 1, p - m + 1)[q]
    <3>0. p \in Nat /\ p <= Len(w) /\ m \in Nat /\ m >= 1 /\ Len(w) \in Nat
      BY <1>0, <2>1
    <3>1. m + q - 1 \in 1..p /\ q \in 1..(Len(w) - m + 1)
      BY <3>0
    <3>2. SubSeq(u, m, Len(u))[q] = w[m + q - 1]
      BY <2>2, <2>5, <3>1
    <3>3. SubSeq(v, 1, p - m + 1)[q] = w[m + q - 1]
      BY <1>1, <2>3, <3>1
    <3>4. QED
      BY <3>2, <3>3
  <2>7. SubSeq(u, m, Len(u)) = SubSeq(v, 1, p - m + 1)
    BY <2>3, <2>5, <2>6, SeqEqual
  <2>8. LastState(SubSeq(u, m, Len(u))) = LastState(u)
    BY <2>2, <2>4, LastStatePurge
  <2>9. QED
    BY <2>7, <2>8 DEF u
<1> HIDE DEF v
<1>4. ASSUME NEW p \in DOMAIN v
      PROVE  p + m - 1 \in DOMAIN w /\ v[p] = w[p + m - 1] /\ p \in Nat
  <2>1. p \in 1..(Len(w) - m + 1) /\ m + p - 1 = p + m - 1
    BY <1>0, <1>1, <1>2
  <2>2. v[p] = w[m + p - 1]
    BY <1>1, <2>1
  <2>3. p + m - 1 \in 1..Len(w)
    BY <1>0, <2>1
  <2>4. QED
    BY <1>0, <2>1, <2>2, <2>3
<1>5. ASSUME NEW p \in DOMAIN w, p >= m
      PROVE  p - m + 1 \in DOMAIN v /\ v[p - m + 1] = w[p]
  <2>1. p - m + 1 \in 1..(Len(w) - m + 1) /\ m + (p - m + 1) - 1 = p
    BY <1>0, <1>5
  <2>2. QED
    BY <1>1, <1>2, <2>1
<1>6. Above(v)
  <2>1. SUFFICES ASSUME NEW p \in DOMAIN v, NEW q \in DOMAIN v,
                        p < q, v[p].k = "snap", v[q].k = "entry"
                 PROVE  v[p].i < v[q].i
    BY DEF Above
  <2>2. /\ p + m - 1 \in DOMAIN w /\ v[p] = w[p + m - 1]
        /\ q + m - 1 \in DOMAIN w /\ v[q] = w[q + m - 1] /\ p + m - 1 < q + m - 1
    BY <1>0, <1>4, <2>1
  <2>3. QED
    BY <2>1, <2>2 DEF History, Above
<1>7. Stepwise(v)
  <2>1. SUFFICES ASSUME NEW r \in DOMAIN v, NEW x \in DOMAIN v, r < x,
                        v[r].k = "entry", v[x].k = "entry", v[r].i + 1 < v[x].i
                 PROVE  \E y \in DOMAIN v :
                          /\ r < y /\ y < x
                          /\ \/ v[y].k = "entry" /\ v[y].i = v[x].i - 1
                             \/ v[y].k = "snap" /\ v[y].i >= v[x].i - 1
    BY DEF Stepwise
  <2>2. /\ r + m - 1 \in DOMAIN w /\ v[r] = w[r + m - 1] /\ r \in Nat /\ r >= 1
        /\ x + m - 1 \in DOMAIN w /\ v[x] = w[x + m - 1] /\ x \in Nat
        /\ r + m - 1 < x + m - 1
    BY <1>0, <1>2, <1>4, <2>1
  <2>3. PICK y \in DOMAIN w :
          /\ r + m - 1 < y /\ y < x + m - 1
          /\ \/ w[y].k = "entry" /\ w[y].i = w[x + m - 1].i - 1
             \/ w[y].k = "snap" /\ w[y].i >= w[x + m - 1].i - 1
    BY <2>1, <2>2 DEF History, Stepwise
  <2>4. y \in Nat /\ y >= m
    BY <1>0, <2>2, <2>3
  <2>5. y - m + 1 \in DOMAIN v /\ v[y - m + 1] = w[y] /\ r < y - m + 1 /\ y - m + 1 < x
    BY <1>0, <1>5, <2>2, <2>3, <2>4
  <2>6. QED
    BY <2>2, <2>3, <2>5
<1>8. Continued(v, l)
  <2>1. SUFFICES ASSUME NEW r \in DOMAIN v, v[r].k = "entry", NEW x \in (v[r].i + 1)..Len(l)
                 PROVE  \E y \in DOMAIN v :
                          /\ r < y
                          /\ \/ v[y].k = "entry" /\ v[y].i = x
                             \/ v[y].k = "snap" /\ x <= v[y].i /\ v[y].i <= Len(l)
    BY DEF Continued
  <2>2. r + m - 1 \in DOMAIN w /\ v[r] = w[r + m - 1] /\ r \in Nat /\ r >= 1
    BY <1>2, <1>4
  <2>3. PICK y \in DOMAIN w :
          /\ r + m - 1 < y
          /\ \/ w[y].k = "entry" /\ w[y].i = x
             \/ w[y].k = "snap" /\ x <= w[y].i /\ w[y].i <= Len(l)
    BY <2>1, <2>2 DEF History, Continued
  <2>4. y \in Nat /\ y >= m
    BY <1>0, <2>2, <2>3
  <2>5. y - m + 1 \in DOMAIN v /\ v[y - m + 1] = w[y] /\ r < y - m + 1
    BY <1>0, <1>5, <2>2, <2>3, <2>4
  <2>6. QED
    BY <2>3, <2>5
<1>9. ASSUME NEW i, NEW p \in DOMAIN v, Over(i, p + m - 1, w, l)
      PROVE  Over(i, p, v, l)
  <2>1. PICK q \in DOMAIN w : /\ q > p + m - 1 /\ w[q].k = "snap" /\ w[q].i >= i /\ w[q].i <= Len(l)
                              /\ LastState(SubSeq(w, 1, q)).i < i
    BY <1>9 DEF Over
  <2>2. q \in Nat /\ p \in Nat /\ p >= 1 /\ q >= m /\ q \in (m + 1)..Len(w)
    BY <1>0, <1>2, <2>1
  <2>3. q - m + 1 \in DOMAIN v /\ v[q - m + 1] = w[q] /\ q - m + 1 > p
    BY <1>0, <1>5, <2>1, <2>2
  <2>4. LastState(SubSeq(v, 1, q - m + 1)) = LastState(SubSeq(w, 1, q))
    BY <1>3, <2>2
  <2>5. QED
    BY <2>1, <2>3, <2>4 DEF Over
<1>10. Current(v, l)
  <2>1. SUFFICES ASSUME NEW p \in DOMAIN v, v[p].k = "entry", NEW s \in 0..(v[p].i - 1),
                        \A q \in DOMAIN v : q > p /\ v[q].k = "entry" =>
                          ~(s < v[q].i /\ v[q].i <= v[p].i)
                 PROVE  \/ v[p].i <= Len(l) /\ v[p].t = l[v[p].i]
                        \/ s >= Len(l)
                        \/ Over(v[p].i, p, v, l) \/ Over(s + 1, p, v, l)
    BY DEF Current
  <2>2. p + m - 1 \in DOMAIN w /\ w[p + m - 1] = v[p] /\ p \in Nat /\ p >= 1
    BY <1>2, <1>4
  <2>3. ASSUME NEW q \in DOMAIN w, q > p + m - 1, w[q].k = "entry"
        PROVE  ~(s < w[q].i /\ w[q].i <= w[p + m - 1].i)
    <3>1. q \in Nat /\ q >= m
      BY <1>0, <2>2, <2>3
    <3>2. q - m + 1 \in DOMAIN v /\ v[q - m + 1] = w[q] /\ q - m + 1 > p
      BY <1>0, <1>5, <2>2, <2>3, <3>1
    <3>3. QED
      BY <2>1, <2>2, <2>3, <3>2
  <2>4. \/ w[p + m - 1].i <= Len(l) /\ w[p + m - 1].t = l[w[p + m - 1].i]
        \/ s >= Len(l)
        \/ Over(w[p + m - 1].i, p + m - 1, w, l) \/ Over(s + 1, p + m - 1, w, l)
    BY <2>1, <2>2, <2>3 DEF History, Current
  <2>5. QED
    BY <1>9, <2>2, <2>4
<1>11. QED
  BY <1>3, <1>6, <1>7, <1>8, <1>10 DEF History, v

\* It is kept by an entry that comes in place of what the log l has from there on,
LEMMA HistoryEntry ==
  ASSUME NEW w \in Seq(Rec), NEW x \in EntryRec, x \in Rec, NEW l \in Seq(Terms),
         NEW l2, Len(l2) = x.i, x.i <= Len(l) + 1, l2[x.i] = x.t,
         \A k \in 1..(x.i - 1) : l2[k] = l[k],
         \A p \in DOMAIN w : w[p].k = "snap" => w[p].i < x.i,
         History(w, l)
  PROVE  History(Append(w, x), l2)
<1> DEFINE v == Append(w, x)
<1>1. /\ v \in Seq(Rec) /\ Len(v) = Len(w) + 1 /\ v[Len(w) + 1] = x
      /\ \A p \in 1..Len(w) : v[p] = w[p]
      /\ \A q \in DOMAIN w : SubSeq(v, 1, q) = SubSeq(w, 1, q)
  BY AppendIs, PrefixAppend
<1> HIDE DEF v
<1>2. /\ DOMAIN w = 1..Len(w) /\ DOMAIN v = 1..(Len(w) + 1) /\ Len(w) \in Nat /\ Len(l) \in Nat
      /\ x.i \in Nat /\ x.i >= 1 /\ x.k = "entry"
      /\ \A p \in DOMAIN w : w[p].i \in Nat
  BY <1>1, SeqFacts, LenProperties DEF EntryRec
<1> DEFINE n == Len(w) + 1
<1>3. /\ n \in DOMAIN v /\ v[n] = x /\ n \in Nat
      /\ \A p \in DOMAIN w : p \in DOMAIN v /\ v[p] = w[p] /\ p \in Nat /\ p < n
      /\ \A p \in DOMAIN v : p \in Nat /\ (p = n \/ p \in DOMAIN w)
  BY <1>1, <1>2
<1> HIDE DEF n
<1>4. Above(v)
  <2>1. SUFFICES ASSUME NEW p \in DOMAIN v, NEW q \in DOMAIN v,
                        p < q, v[p].k = "snap", v[q].k = "entry"
                 PROVE  v[p].i < v[q].i
    BY DEF Above
  <2>2. p \in DOMAIN w /\ v[p] = w[p]
    BY <1>2, <1>3, <2>1
  <2>3. CASE q = n
    BY <1>3, <2>1, <2>2, <2>3
  <2>4. CASE q \in DOMAIN w
    BY <1>3, <2>1, <2>2, <2>4 DEF History, Above
  <2>5. QED
    BY <1>3, <2>3, <2>4
<1>5. Stepwise(v)
  <2>1. SUFFICES ASSUME NEW r \in DOMAIN v, NEW z \in DOMAIN v, r < z,
                        v[r].k = "entry", v[z].k = "entry", v[r].i + 1 < v[z].i
                 PROVE  \E y \in DOMAIN v :
                          /\ r < y /\ y < z
                          /\ \/ v[y].k = "entry" /\ v[y].i = v[z].i - 1
                             \/ v[y].k = "snap" /\ v[y].i >= v[z].i - 1
    BY DEF Stepwise
  <2>2. r \in DOMAIN w /\ v[r] = w[r] /\ r # n
    <3>1. r # n
      BY <1>3, <2>1
    <3>2. QED
      BY <1>3, <3>1
  <2>3. CASE z = n
    <3>1. x.i - 1 \in (w[r].i + 1)..Len(l)
      BY <1>2, <1>3, <2>1, <2>2, <2>3
    <3>2. PICK y \in DOMAIN w :
            /\ r < y
            /\ \/ w[y].k = "entry" /\ w[y].i = x.i - 1
               \/ w[y].k = "snap" /\ x.i - 1 <= w[y].i /\ w[y].i <= Len(l)
      BY <2>1, <2>2, <3>1 DEF History, Continued
    <3>3. y \in DOMAIN v /\ v[y] = w[y] /\ y < z /\ w[y].i \in Nat
      BY <1>2, <1>3, <2>3, <3>2
    <3>4. QED
      BY <1>2, <1>3, <2>3, <3>2, <3>3
  <2>4. CASE z \in DOMAIN w
    <3>1. PICK y \in DOMAIN w :
            /\ r < y /\ y < z
            /\ \/ w[y].k = "entry" /\ w[y].i = w[z].i - 1
               \/ w[y].k = "snap" /\ w[y].i >= w[z].i - 1
      BY <1>3, <2>1, <2>2, <2>4 DEF History, Stepwise
    <3>2. QED
      BY <1>3, <2>4, <3>1
  <2>5. QED
    BY <1>3, <2>3, <2>4
<1>6. Continued(v, l2)
  <2>1. SUFFICES ASSUME NEW r \in DOMAIN v, v[r].k = "entry", NEW z \in (v[r].i + 1)..Len(l2)
                 PROVE  \E y \in DOMAIN v :
                          /\ r < y
                          /\ \/ v[y].k = "entry" /\ v[y].i = z
                             \/ v[y].k = "snap" /\ z <= v[y].i /\ v[y].i <= Len(l2)
    BY DEF Continued
  <2>2. r \in DOMAIN w /\ v[r] = w[r] /\ r < n /\ w[r].i \in Nat
    <3>1. r # n
      BY <1>2, <1>3, <2>1
    <3>2. QED
      BY <1>2, <1>3, <3>1
  <2>3. CASE z = x.i
    BY <1>2, <1>3, <2>2, <2>3
  <2>4. CASE z # x.i
    <3>1. z \in (w[r].i + 1)..Len(l)
      BY <1>2, <2>1, <2>2, <2>4
    <3>2. PICK y \in DOMAIN w :
            /\ r < y
            /\ \/ w[y].k = "entry" /\ w[y].i = z
               \/ w[y].k = "snap" /\ z <= w[y].i /\ w[y].i <= Len(l)
      BY <2>1, <2>2, <3>1 DEF History, Continued
    <3>3. y \in DOMAIN v /\ v[y] = w[y]
      BY <1>3
    <3>4. w[y].k = "snap" => w[y].i <= Len(l2)
      BY <1>2
    <3>5. QED
      BY <3>2, <3>3, <3>4
  <2>5. QED
    BY <2>3, <2>4
<1>7. ASSUME NEW i, NEW p, Over(i, p, w, l) PROVE Over(i, p, v, l2)
  <2>1. PICK q \in DOMAIN w : /\ q > p /\ w[q].k = "snap" /\ w[q].i >= i
                              /\ LastState(SubSeq(w, 1, q)).i < i
    BY <1>7 DEF Over
  <2>2. q \in DOMAIN v /\ v[q] = w[q] /\ SubSeq(v, 1, q) = SubSeq(w, 1, q)
    BY <1>1, <1>3, <2>1
  <2>3. w[q].i <= Len(l2)
    BY <1>2, <2>1
  <2>4. QED
    BY <2>1, <2>2, <2>3 DEF Over
<1>8. Current(v, l2)
  <2>1. SUFFICES ASSUME NEW p \in DOMAIN v, v[p].k = "entry", NEW s \in 0..(v[p].i - 1),
                        \A q \in DOMAIN v : q > p /\ v[q].k = "entry" =>
                          ~(s < v[q].i /\ v[q].i <= v[p].i)
                 PROVE  \/ v[p].i <= Len(l2) /\ v[p].t = l2[v[p].i]
                        \/ s >= Len(l2)
                        \/ Over(v[p].i, p, v, l2) \/ Over(s + 1, p, v, l2)
    BY DEF Current
  <2>2. CASE p = n
    BY <1>2, <1>3, <2>2
  <2>3. CASE p \in DOMAIN w
    <3>1. v[p] = w[p] /\ w[p].i \in Nat /\ p < n
      BY <1>2, <1>3, <2>3
    <3>2. ~(s < x.i /\ x.i <= w[p].i)
      BY <1>2, <1>3, <2>1, <3>1
    <3>3. CASE s >= x.i
      BY <3>3
    <3>4. CASE w[p].i < x.i
      <4>1. \A q \in DOMAIN w : q > p /\ w[q].k = "entry" => ~(s < w[q].i /\ w[q].i <= w[p].i)
        BY <1>3, <2>1, <3>1
      <4>2. \/ w[p].i <= Len(l) /\ w[p].t = l[w[p].i]
            \/ s >= Len(l)
            \/ Over(w[p].i, p, w, l) \/ Over(s + 1, p, w, l)
        BY <2>1, <2>3, <3>1, <4>1 DEF History, Current
      <4>3. s < Len(l)
        BY <1>2, <2>1, <3>1, <3>4
      <4>4. w[p].i \in 1..(x.i - 1)
        BY <1>2, <2>1, <3>1, <3>4
      <4>5. QED
        BY <1>2, <1>7, <2>1, <3>1, <4>2, <4>3, <4>4
    <3>5. QED
      BY <1>2, <2>1, <3>1, <3>2, <3>3, <3>4
  <2>4. QED
    BY <1>3, <2>2, <2>3
<1>9. QED
  BY <1>4, <1>5, <1>6, <1>8 DEF History, v

\* and by a snapshot that takes the place of the log from index c on.
LEMMA HistoryLonger ==
  ASSUME NEW w \in Seq(Rec), NEW l, NEW l2, Len(l) \in Nat, Len(l2) \in Nat, Len(l) < Len(l2),
         NEW c \in 0..Len(l), \A k \in 1..c : l2[k] = l[k],
         NEW q \in DOMAIN w, w[q].k = "snap", w[q].i = Len(l2),
         \A p \in DOMAIN w : p > q => w[p].k = "state",
         LastState(SubSeq(w, 1, q)).i \in Nat, LastState(SubSeq(w, 1, q)).i <= c,
         History(w, l)
  PROVE  History(w, l2)
<1>1. /\ DOMAIN w = 1..Len(w) /\ Len(w) \in Nat /\ q \in Nat
      /\ \A p \in DOMAIN w : p \in Nat /\ w[p].i \in Nat
  BY SeqFacts
<1>2. \A p \in DOMAIN w : w[p].k = "entry" => p < q
  BY <1>1
<1>3. Continued(w, l2)
  BY <1>1, <1>2 DEF Continued
<1>4. \A p, i \in Nat : p < q /\ c < i /\ i <= Len(l2) => Over(i, p, w, l2)
  <2>1. SUFFICES ASSUME NEW p \in Nat, NEW i \in Nat, p < q, c < i, i <= Len(l2)
                 PROVE  Over(i, p, w, l2)
    OBVIOUS
  <2>2. /\ q > p /\ w[q].k = "snap" /\ w[q].i >= i /\ w[q].i <= Len(l2)
        /\ LastState(SubSeq(w, 1, q)).i < i
    BY <1>1, <2>1
  <2>3. QED
    BY <2>2 DEF Over
<1>5. \A p, i : Over(i, p, w, l) => Over(i, p, w, l2)
  BY <1>1 DEF Over
<1>6. Current(w, l2)
  <2>1. SUFFICES ASSUME NEW p \in DOMAIN w, w[p].k = "entry", NEW s \in 0..(w[p].i - 1),
                        \A r \in DOMAIN w : r > p /\ w[r].k = "entry" =>
                          ~(s < w[r].i /\ w[r].i <= w[p].i)
                 PROVE  \/ w[p].i <= Len(l2) /\ w[p].t = l2[w[p].i]
                        \/ s >= Len(l2)
                        \/ Over(w[p].i, p, w, l2) \/ Over(s + 1, p, w, l2)
    BY DEF Current
  <2>2. \/ w[p].i <= Len(l) /\ w[p].t = l[w[p].i]
        \/ s >= Len(l)
        \/ Over(w[p].i, p, w, l) \/ Over(s + 1, p, w, l)
    BY <2>1 DEF History, Current
  <2>3. w[p].i \in Nat /\ p < q /\ p \in Nat /\ w[p].i >= 1 /\ s \in Nat /\ s < w[p].i
    BY <1>1, <1>2, <2>1
  <2>4. CASE s >= Len(l)
    <3>1. s >= Len(l2) \/ (c < s + 1 /\ s + 1 <= Len(l2))
      BY <2>3, <2>4
    <3>2. QED
      BY <1>4, <2>3, <3>1
  <2>5. CASE w[p].i <= Len(l) /\ w[p].t = l[w[p].i]
    <3>1. CASE w[p].i <= c
      BY <2>3, <2>5, <3>1
    <3>2. CASE c < w[p].i
      BY <1>4, <2>3, <2>5, <3>2
    <3>3. QED
      BY <2>3, <3>1, <3>2
  <2>6. QED
    BY <1>5, <2>2, <2>4, <2>5
<1>7. QED
  BY <1>3, <1>6 DEF History

-----------------------------------------------------------------------------
(* What each step does to the WAL.                                         *)

\* An entry comes with a HardState, or without one,
LEMMA AppendEntryIs ==
  ASSUME TypeInv, NEW i \in 1..MaxIndex, NEW e \in 1..MaxTerm, NEW t \in 1..MaxTerm,
         AppendEntry(i, e, t)
  PROVE  /\ Entry(i, e) \in EntryRec /\ Entry(i, e) \in Rec
         /\ Entry(i, e).k = "entry" /\ Entry(i, e).i = i /\ Entry(i, e).t = e
         /\ \/ wal' = Append(wal, Entry(i, e))
            \/ \E y \in Rec : y.k = "state" /\ wal' = Append(Append(wal, Entry(i, e)), y)
<1> DEFINE en == Entry(i, e)
<1> DEFINE st == State(commit, t)
<1>1. wal' = wal \o <<en>> \o (IF st = Saved THEN <<>> ELSE <<st>>)
  BY DEF AppendEntry
<1>2. i \in Index /\ e \in Terms /\ t \in Terms /\ commit \in Index /\ wal \in Seq(Rec)
  BY WalIs, TypeInvIs, IndexIs, BoundsAssumption DEF Terms, MemoryOK
<1>3. en \in Rec /\ en.k = "entry" /\ en.i = i /\ en.t = e /\ st \in Rec /\ st.k = "state"
  BY <1>2, NewRecords
<1>4. en \in EntryRec
  BY DEF Entry, EntryRec
<1> HIDE DEF en, st
<1>5. /\ wal \o <<en>> \o <<>> = Append(wal, en)
      /\ wal \o <<en>> \o <<st>> = Append(Append(wal, en), st)
  BY <1>2, <1>3, ConcatIs
<1>6. wal' = Append(wal, en) \/ wal' = Append(Append(wal, en), st)
  BY <1>1, <1>5
<1>7. QED
  BY <1>3, <1>4, <1>6 DEF en

\* other records alone,
LEMMA AppendOtherIs ==
  ASSUME TypeInv, SaveState \/ SnapRecord \/ ReceiveRecord \/ ReceiveState
  PROVE  \E x \in Rec :
           /\ wal' = Append(wal, x)
           /\ SaveState \/ ReceiveState => x.k = "state"
           /\ SnapRecord \/ ReceiveRecord =>
                x = Snap(saving.i, saving.t) /\ x.k = "snap" /\ x.i = saving.i
<1>1. /\ saving.i \in Index /\ saving.t \in Terms /\ commit \in Index
      /\ Saved.t \in Terms /\ max(Saved.t, saving.t) \in Terms
  BY TypeInvIs, SavedIs DEF MemoryOK, max
<1>2. \A a \in {State(commit, Saved.t), State(saving.i, max(Saved.t, saving.t)),
               Snap(saving.i, saving.t)} : a \in Rec
  BY <1>1, NewRecords
<1>3. Snap(saving.i, saving.t).k = "snap" /\ Snap(saving.i, saving.t).i = saving.i
  BY <1>1, NewRecords
<1>4. CASE SaveState
  <2>1. wal' = Append(wal, State(commit, Saved.t)) /\ saving.step \in {"idle", "local"}
    BY <1>4 DEF SaveState
  <2>2. ~ReceiveRecord
    BY <2>1 DEF ReceiveRecord
  <2>3. ~SnapRecord
    <3>1. SnapRecord => wal' = Append(wal, Snap(saving.i, saving.t))
      BY DEF SnapRecord
    <3>2. Append(wal, State(commit, Saved.t)) # Append(wal, Snap(saving.i, saving.t))
      <4>1. wal \in Seq(Rec)
        BY WalIs
      <4>2. State(commit, Saved.t) # Snap(saving.i, saving.t)
        BY DEF State, Snap
      <4>3. /\ Append(wal, State(commit, Saved.t))[Len(wal) + 1] = State(commit, Saved.t)
            /\ Append(wal, Snap(saving.i, saving.t))[Len(wal) + 1] = Snap(saving.i, saving.t)
        BY <1>2, <4>1, AppendIs
      <4>4. QED
        BY <4>2, <4>3
    <3>3. QED
      BY <2>1, <3>1, <3>2
  <2>4. State(commit, Saved.t).k = "state"
    BY DEF State
  <2>5. QED
    BY <1>2, <2>1, <2>2, <2>3, <2>4
<1>5. CASE ReceiveState
  <2>1. wal' = Append(wal, State(saving.i, max(Saved.t, saving.t))) /\ saving.step = "record"
    BY <1>5 DEF ReceiveState
  <2>2. ~ReceiveRecord /\ ~SnapRecord
    BY <2>1 DEF ReceiveRecord, SnapRecord
  <2>3. State(saving.i, max(Saved.t, saving.t)).k = "state"
    BY DEF State
  <2>4. QED
    BY <1>2, <2>1, <2>2, <2>3
<1>6. CASE (SnapRecord \/ ReceiveRecord) /\ ~SaveState /\ ~ReceiveState
  <2>1. wal' = Append(wal, Snap(saving.i, saving.t))
    BY <1>6 DEF SnapRecord, ReceiveRecord
  <2>2. QED
    BY <1>2, <1>3, <1>6, <2>1
<1>7. QED
  BY <1>4, <1>5, <1>6

\* a segment with a HardState.
LEMMA CutIs ==
  ASSUME TypeInv, Cut
  PROVE  \E f, y \in Rec :
           f.k = "file" /\ y.k = "state" /\ wal' = Append(Append(wal, f), y)
<1> DEFINE f == File(Len(log) + 1)
<1>1. wal' = wal \o <<f, Saved>>
  BY DEF Cut
<1>2. Len(log) + 1 \in 0..(MaxIndex + 1) /\ wal \in Seq(Rec)
  BY TypeInvIs, WalIs, IndexIs, LenProperties DEF MemoryOK
<1>3. Saved.i \in Index /\ Saved.t \in Terms /\ Saved = State(Saved.i, Saved.t)
  BY SavedIs
<1>4. f \in Rec /\ f.k = "file"
  BY <1>2, NewRecords
<1>5. Saved \in Rec /\ Saved.k = "state"
  BY <1>3, NewRecords
<1> HIDE DEF f
<1>6. wal' = Append(Append(wal, f), Saved)
  BY <1>1, <1>2, <1>4, <1>5, ConcatIs
<1>7. QED
  BY <1>4, <1>5, <1>6

\* A crash loses HardStates,
LEMMA CrashIs ==
  ASSUME TypeInv, NEW lost \in 0..soft, Crash(lost)
  PROVE  \E n \in 0..Len(wal) :
           /\ wal' = SubSeq(wal, 1, n) /\ n >= Synced
           /\ soft = 0 => n = Len(wal)
           /\ \A p \in DOMAIN wal : p > n => wal[p].k = "state"
<1> DEFINE n == Len(wal) - lost
<1>1. /\ RecordsOK(wal, Synced, Len(agreed)) /\ soft \in Nat /\ Len(wal) \in Nat
      /\ Synced \in 0..Len(wal) /\ Synced = Len(wal) - soft /\ DOMAIN wal = 1..Len(wal)
      /\ \A p \in DOMAIN wal : p > Synced => wal[p].k = "state"
  BY TypeInvIs, WalIs DEF RecordsOK, MemoryOK, Synced
<1>2. wal' = SubSeq(wal, 1, n)
  BY DEF Crash
<1>3. n \in 0..Len(wal) /\ n >= Synced
  BY <1>1
<1>4. \A p \in DOMAIN wal : p > n => wal[p].k = "state"
  BY <1>1, <1>3
<1>5. soft = 0 => n = Len(wal)
  BY <1>1
<1>6. QED
  BY <1>2, <1>3, <1>4, <1>5

\* and the other steps leave the WAL alone.
LEMMA SameWal ==
  ASSUME ServerNext
  PROVE  \/ \E i \in 1..MaxIndex, e, t \in 1..MaxTerm : AppendEntry(i, e, t)
         \/ SaveState \/ SnapRecord \/ ReceiveRecord \/ ReceiveState \/ Cut \/ Purge
         \/ \E lost \in 0..soft : Crash(lost)
         \/ wal' = wal
  BY DEF ServerNext, Commit, Apply, SnapFile, ReceiveFile, ReceiveDb, Stop, Restart, disk

\* The entries of a WAL are proper ones.
Entries(w) == \A p \in DOMAIN w : w[p].k = "entry" => w[p] \in EntryRec

\* One more record,
LEMMA EntriesMore ==
  ASSUME NEW w \in Seq(Rec), Entries(w), NEW x \in Rec, x.k = "entry" => x \in EntryRec
  PROVE  Append(w, x) \in Seq(Rec) /\ Entries(Append(w, x))
<1> DEFINE v == Append(w, x)
<1>1. /\ v \in Seq(Rec) /\ Len(v) = Len(w) + 1 /\ v[Len(w) + 1] = x
      /\ \A p \in 1..Len(w) : v[p] = w[p]
  BY AppendIs
<1> HIDE DEF v
<1>2. DOMAIN w = 1..Len(w) /\ DOMAIN v = 1..(Len(w) + 1) /\ Len(w) \in Nat
  BY <1>1, SeqFacts
<1>3. \A p \in DOMAIN v : p = Len(w) + 1 \/ (p \in DOMAIN w /\ v[p] = w[p])
  BY <1>1, <1>2
<1>4. QED
  BY <1>1, <1>3 DEF Entries, v

\* and every step of the server leave them so.
LEMMA EntriesStep ==
  ASSUME TypeInv, Entries(wal), ServerNext
  PROVE  Entries(wal')
<1>1. wal \in Seq(Rec) /\ Len(wal) \in Nat /\ DOMAIN wal = 1..Len(wal)
  BY WalIs
<1>2. ASSUME NEW i \in 1..MaxIndex, NEW e \in 1..MaxTerm, NEW t \in 1..MaxTerm,
             AppendEntry(i, e, t)
      PROVE  Entries(wal')
  <2>1. Entry(i, e) \in EntryRec /\ Entry(i, e) \in Rec
    BY <1>2, AppendEntryIs
  <2>2. Append(wal, Entry(i, e)) \in Seq(Rec) /\ Entries(Append(wal, Entry(i, e)))
    BY <1>1, <2>1, EntriesMore
  <2>3. CASE wal' = Append(wal, Entry(i, e))
    BY <2>2, <2>3
  <2>4. CASE \E y \in Rec : y.k = "state" /\ wal' = Append(Append(wal, Entry(i, e)), y)
    BY <2>2, <2>4, EntriesMore
  <2>5. QED
    BY <1>2, <2>3, <2>4, AppendEntryIs
<1>3. CASE SaveState \/ SnapRecord \/ ReceiveRecord \/ ReceiveState
  <2>1. PICK x \in Rec : wal' = Append(wal, x) /\ x.k # "entry"
    BY <1>3, AppendOtherIs
  <2>2. QED
    BY <1>1, <2>1, EntriesMore
<1>4. CASE Cut
  <2>1. PICK f \in Rec, y \in Rec :
          f.k = "file" /\ y.k = "state" /\ wal' = Append(Append(wal, f), y)
    BY <1>4, CutIs
  <2>2. Append(wal, f) \in Seq(Rec) /\ Entries(Append(wal, f))
    BY <1>1, <2>1, EntriesMore
  <2>3. QED
    BY <2>1, <2>2, EntriesMore
<1>5. CASE Purge
  <2>1. PICK c \in DOMAIN wal : wal' = SubSeq(wal, c, Len(wal))
    BY <1>5, PurgeIs
  <2>2. /\ wal' \in Seq(Rec) /\ Len(wal') = Len(wal) - c + 1
        /\ \A q \in 1..(Len(wal) - c + 1) : wal'[q] = wal[c + q - 1]
    BY <1>1, <2>1, SuffixIs
  <2>3. \A q \in DOMAIN wal' : q \in 1..(Len(wal) - c + 1)
    BY <2>2, SeqFacts
  <2>4. \A q \in 1..(Len(wal) - c + 1) : c + q - 1 \in DOMAIN wal
    BY <1>1
  <2>5. QED
    BY <2>2, <2>3, <2>4 DEF Entries
<1>6. ASSUME NEW lost \in 0..soft, Crash(lost)
      PROVE  Entries(wal')
  <2>1. PICK n \in 0..Len(wal) : wal' = SubSeq(wal, 1, n)
    BY <1>6, CrashIs
  <2>2. wal' \in Seq(Rec) /\ Len(wal') = n /\ \A q \in 1..n : wal'[q] = wal[q]
    BY <1>1, <2>1, PrefixIs
  <2>3. \A q \in DOMAIN wal' : q \in 1..n /\ q \in DOMAIN wal
    BY <1>1, <2>2, SeqFacts
  <2>4. QED
    BY <2>2, <2>3 DEF Entries
<1>7. QED
  BY <1>2, <1>3, <1>4, <1>5, <1>6, SameWal

-----------------------------------------------------------------------------
(* The command.                                                            *)

\* What is read are entries with consecutive indexes.
LEMMA ReadIs ==
  ASSUME NEW start, Readable(start), ReadAll(start).err # "ErrSnapshotMismatch", Entries(wal)
  PROVE  LET es == ReadAll(start).ents
         IN  es \in Seq(EntryRec) /\ \A n \in DOMAIN es : es[n].i = start.i + n
<1> DEFINE s == start.i
<1> DEFINE m == SegmentOf(start)
<1> DEFINE es == ReadAll(start).ents
<1>1. PICK x \in Nat : \E last \in Nat : ReadsTo(m, s, x, last, es)
  BY ReadUpTo
<1>2. PICK last \in Nat : ReadsTo(m, s, x, last, es)
  BY <1>1
<1> HIDE DEF m, es
<1>3. /\ last >= s
      /\ es = [n \in 1..(last - s) |-> es[n]]
      /\ \A n \in 1..(last - s) : \E p \in DOMAIN wal :
           Later(p, wal, m, s) /\ es[n] = wal[p] /\ wal[p].i = s + n
  BY <1>2 DEF ReadsTo
<1>4. s \in Nat
  BY IndexIs DEF Readable
<1>5. \A n \in 1..(last - s) : es[n] \in EntryRec /\ es[n].i = s + n
  BY <1>3 DEF Later, Entries
<1>6. last - s \in Nat /\ DOMAIN es = 1..(last - s)
  BY <1>3, <1>4
<1>7. es \in Seq(EntryRec)
  BY <1>3, <1>5, <1>6, SeqDef
<1>8. QED
  BY <1>5, <1>6, <1>7 DEF es

\* The first n of N positions are at their own places.
LEMMA FirstPlaces ==
  ASSUME NEW m \in Nat
  PROVE  Cardinality(1..m) = m /\ Place(1..m) = [n \in 1..m |-> n]
<1>1. \A n \in Nat : Cardinality(1..n) = n
  <2>1. TAKE n \in Nat
  <2>2. Cardinality(1..n) = IF 1 > n THEN 0 ELSE n - 1 + 1
    <3>1. 1 \in Int /\ n \in Int
      OBVIOUS
    <3>2. QED
      BY <3>1, FS_Interval, Zenon
  <2>3. QED
    BY <2>2
<1>2. \A p \in 1..m : Rank(p, 1..m) = p
  <2>1. TAKE p \in 1..m
  <2>2. {q \in 1..m : q <= p} = 1..p /\ p \in Nat
    OBVIOUS
  <2>3. QED
    BY <1>1, <2>2 DEF Rank
<1>3. \A n \in 1..m : (CHOOSE p \in 1..m : Rank(p, 1..m) = n) = n
  BY <1>2
<1>4. QED
  BY <1>1, <1>3 DEF Place

\* Those before the end are the first ones of what is read.
LEMMA BeforeEndIs ==
  ASSUME NEW es \in Seq(EntryRec), NEW s \in Nat, \A n \in DOMAIN es : es[n].i = s + n,
         cmd \in Command
  PROVE  LET b == BeforeEnd(es)
         IN  /\ b \in Seq(EntryRec)
             /\ \A n \in DOMAIN b :
                  n \in DOMAIN es /\ b[n] = es[n] /\ (cmd.end = NoEnd \/ b[n].i < cmd.end)
             /\ \A n \in DOMAIN es : cmd.end = NoEnd \/ es[n].i < cmd.end => n \in DOMAIN b
<1> DEFINE b == BeforeEnd(es)
<1>1. Len(es) \in Nat /\ DOMAIN es = 1..Len(es) /\ \A n \in 1..Len(es) : es[n] \in EntryRec
  BY LenProperties, ElementOfSeq
<1>2. CASE cmd.end = NoEnd
  BY <1>2 DEF BeforeEnd
<1>3. CASE cmd.end # NoEnd
  <2>1. cmd.end \in Nat
    BY <1>3, BoundsAssumption DEF Command
  <2> DEFINE e == cmd.end
  <2> DEFINE P == {n \in DOMAIN es : es[n].i < e}
  <2> DEFINE k == IF e <= s THEN 0 ELSE IF e - 1 - s <= Len(es) THEN e - 1 - s ELSE Len(es)
  <2>2. k \in Nat /\ k <= Len(es) /\ \A n \in 1..Len(es) : s + n < e <=> n <= k
    BY <1>1, <2>1
  <2>3. P = 1..k
    <3> HIDE DEF k
    <3>1. \A n : n \in P <=> n \in 1..Len(es) /\ s + n < e
      BY <1>1
    <3>2. QED
      BY <1>1, <2>2, <3>1
  <2> HIDE DEF k
  <2>4. b = Pick(es, P)
    BY <1>3 DEF BeforeEnd
  <2>5. b = [n \in 1..k |-> es[Place(1..k)[n]]]
    BY <2>2, <2>3, <2>4, PickAt, FirstPlaces
  <2> HIDE DEF b
  <2>6. \A n \in 1..k : Place(1..k)[n] = n
    BY <2>2, FirstPlaces
  <2>7. DOMAIN b = 1..k /\ \A n \in 1..k : b[n] = es[n] /\ n \in 1..Len(es)
    BY <1>1, <2>2, <2>5, <2>6
  <2>8. b \in Seq(EntryRec)
    BY <1>1, <2>2, <2>5, <2>7, SeqDef
  <2>9. \A n \in 1..k : es[n].i < e
    BY <1>1, <2>2, <2>3
  <2>10. \A n \in DOMAIN es : es[n].i < e => n \in 1..k
    BY <2>3
  <2>11. \A n \in DOMAIN b : n \in DOMAIN es /\ b[n] = es[n] /\ b[n].i < cmd.end
    BY <1>1, <2>7, <2>9
  <2>12. \A n \in DOMAIN es : es[n].i < cmd.end => n \in DOMAIN b
    BY <2>7, <2>10
  <2>13. QED
    BY <1>3, <2>8, <2>11, <2>12 DEF b
<1>4. QED
  BY <1>2, <1>3

\* The start to choose, if there is one.
ReadStart ==
  IF cmd.changed THEN StartSnap ELSE IF cmd.snapFile # 0 THEN Newest(Named) ELSE Loaded
StartKnown == cmd.changed \/ cmd.snapFile = 0 \/ Named # {}
Raw == Pick(wal, {n \in DOMAIN wal : PrintsRec(wal[n])})
Dumped == BeforeEnd(ReadAll(walsnap).ents)

\* What the command has read, from the disk as it still is.
DumpInv ==
  /\ pc \in {"idle", "load", "read", "list", "raw", "done", "failed"}
  /\ cmd \in Commands
  /\ walsnap \in [k : {"snap"}, i : Index, t : Terms]
  /\ ents \in Seq(EntryRec)
  /\ pc # "idle" => ~Up
  /\ pc \in {"load", "read", "list"} => ~cmd.raw
  /\ pc = "raw" => cmd.raw
  /\ pc = "read" \/ Listed => walsnap = ReadStart /\ StartKnown
  /\ Listed => WalReads /\ ents = Dumped
  /\ pc = "done" => out = IF cmd.raw THEN Raw ELSE listEntriesType(cmd.types, ents, Data)
  /\ pc # "done" => out = <<>>
  /\ pc = "failed" =>
       \/ FlagsConflict(cmd)
       \/ ~StartKnown
       \/ walsnap = ReadStart /\ StartKnown /\ ~WalReads

\* It holds in the beginning,
LEMMA DumpInit ==
  ASSUME DInit
  PROVE  DumpInv
<1>1. pc = "idle" /\ cmd \in Commands /\ walsnap = Snap(0, 0) /\ ents = <<>> /\ out = <<>>
  BY CommandsAssumption DEF DInit
<1>2. walsnap \in [k : {"snap"}, i : Index, t : Terms]
  BY <1>1, IndexIs, BoundsAssumption DEF Snap, Terms
<1>3. QED
  BY <1>1, <1>2 DEF DumpInv, Listed

\* What is chosen is a place to read from.
LEMMA StartIsTyped ==
  ASSUME TypeInv, ReleaseInv, cmd \in Commands, StartKnown
  PROVE  ReadStart \in [k : {"snap"}, i : Index, t : Terms]
<1>1. cmd.start \in 0..(MaxIndex + 1)
  BY CommandsAssumption DEF Command
<1>2. CASE cmd.changed
  <2>1. (IF cmd.start > 0 THEN cmd.start - 1 ELSE 0) \in Index /\ 0 \in Terms
    BY <1>1, IndexIs, BoundsAssumption DEF Terms
  <2>2. StartSnap \in [k : {"snap"}, i : Index, t : Terms]
    BY <2>1 DEF StartSnap, Snap
  <2>3. QED
    BY <1>2, <2>2 DEF ReadStart
<1>3. CASE ~cmd.changed /\ cmd.snapFile # 0
  <2>1. \A r \in Named : r \in snaps /\ r = Snap(r.i, r.t) /\ r.i \in Index /\ r.t \in Terms
    BY TypeInvIs DEF MemoryOK, Named
  <2>2. Named # {}
    BY <1>3 DEF StartKnown
  <2> HIDE DEF Named
  <2>3. Newest(Named) \in Named
    BY <2>1, <2>2, NewestIs
  <2>4. Newest(Named) \in [k : {"snap"}, i : Index, t : Terms]
    BY <2>1, <2>3 DEF Snap
  <2>5. QED
    BY <1>3, <2>4 DEF ReadStart
<1>4. CASE ~cmd.changed /\ cmd.snapFile = 0
  BY <1>4, LoadedIs DEF ReadStart
<1>5. QED
  BY <1>2, <1>3, <1>4

\* What is read from walsnap.
LEMMA WalsnapRead ==
  /\ ReadAll(walsnap).err = ErrOf(walsnap)
  /\ ErrOf(walsnap) # "ErrSnapshotMismatch" =>
       ReadAll(walsnap).ents =
         [n \in 1..(EndAt(walsnap, StopAt(walsnap)) - walsnap.i) |->
            EntryAt(walsnap, walsnap.i + n)]
  BY ReadAllIs

\* It stays the same as long as the WAL does.
LEMMA SameRead ==
  ASSUME wal' = wal, walsnap' = walsnap
  PROVE  /\ (ErrFileNotFound(walsnap))' = ErrFileNotFound(walsnap)
         /\ (ReadAll(walsnap).err)' = ReadAll(walsnap).err
         /\ ReadAll(walsnap).err # "ErrSnapshotMismatch" =>
              (ReadAll(walsnap).ents)' = ReadAll(walsnap).ents
<1>1. (Segments(walsnap))' = Segments(walsnap)
  BY DEF Segments, At
<1>2. (ErrFileNotFound(walsnap))' = ErrFileNotFound(walsnap)
  BY <1>1 DEF ErrFileNotFound
<1>3. (Recs(walsnap))' = Recs(walsnap)
  BY <1>1 DEF Recs
<1>4. (LaterIn(walsnap))' = LaterIn(walsnap) /\ (Matches(walsnap))' = Matches(walsnap)
  BY <1>3 DEF LaterIn, Matches, At
<1>5. \A p : (Before(walsnap, p))' = Before(walsnap, p)
  BY <1>4 DEF Before
<1>6. \A p : (EndAt(walsnap, p))' = EndAt(walsnap, p)
  BY <1>3, <1>5 DEF EndAt
<1>7. (Gaps(walsnap))' = Gaps(walsnap) /\ (Mismatches(walsnap))' = Mismatches(walsnap)
  BY <1>3, <1>4, <1>6 DEF Gaps, Mismatches
<1>8. (Stops(walsnap))' = Stops(walsnap)
  BY <1>7 DEF Stops
<1>9. (StopAt(walsnap))' = StopAt(walsnap)
  BY <1>3, <1>8 DEF StopAt
<1>11. (ErrOf(walsnap))' = ErrOf(walsnap)
  BY <1>4, <1>7, <1>9 DEF ErrOf
<1> DEFINE e == EndAt(walsnap, StopAt(walsnap))
<1>12. e' = e
  <2>1. (Before(walsnap, StopAt(walsnap)))' = Before(walsnap, StopAt(walsnap))
    BY <1>4, <1>9 DEF Before
  <2>2. QED
    BY <1>3, <2>1 DEF EndAt
<1> HIDE DEF e
<1>13. /\ ReadAll(walsnap).err = ErrOf(walsnap)
       /\ ErrOf(walsnap) # "ErrSnapshotMismatch" =>
            ReadAll(walsnap).ents = [n \in 1..(e - walsnap.i) |-> EntryAt(walsnap, walsnap.i + n)]
  BY WalsnapRead DEF e
<1>14. (/\ ReadAll(walsnap).err = ErrOf(walsnap)
        /\ ErrOf(walsnap) # "ErrSnapshotMismatch" =>
            ReadAll(walsnap).ents =
              [n \in 1..(EndAt(walsnap, StopAt(walsnap)) - walsnap.i) |->
                 EntryAt(walsnap, walsnap.i + n)])'
  BY WalsnapRead, PTL
<1>15. \A n : (EntryAt(walsnap, walsnap.i + n))' = EntryAt(walsnap, walsnap.i + n)
  <2>1. TAKE n
  <2>2. (Before(walsnap, StopAt(walsnap)))' = Before(walsnap, StopAt(walsnap))
    BY <1>4, <1>9 DEF Before
  <2> DEFINE same == {p \in Before(walsnap, StopAt(walsnap)) : Recs(walsnap)[p].i = walsnap.i + n}
  <2>3. same' = same
    BY <1>3, <2>2
  <2>4. (Max(same))' = Max(same)
    BY <2>3
  <2>5. QED
    BY <1>3, <2>4 DEF EntryAt
<1>16. (ReadAll(walsnap).err)' = ReadAll(walsnap).err
  BY <1>11, <1>13, <1>14
<1>17. ASSUME ErrOf(walsnap) # "ErrSnapshotMismatch"
       PROVE  (ReadAll(walsnap).ents)' = ReadAll(walsnap).ents
  <2>1. (ReadAll(walsnap).ents)' =
           [n \in 1..(e' - walsnap.i) |-> (EntryAt(walsnap, walsnap.i + n))']
    BY <1>11, <1>14, <1>17 DEF e
  <2>2. QED
    BY <1>12, <1>13, <1>15, <1>17, <2>1
<1>18. QED
  BY <1>2, <1>13, <1>16, <1>17

\* So do the start, what it is read from, and what is printed.
LEMMA SameDump ==
  ASSUME UNCHANGED walVars, cmd' = cmd, cmd \in Commands
  PROVE  /\ wal' = wal /\ snaps' = snaps /\ (Up' <=> Up)
         /\ ReadStart' = ReadStart /\ (StartKnown' <=> StartKnown) /\ Raw' = Raw
         /\ walsnap' = walsnap =>
              (WalReads' <=> WalReads) /\ (WalReads => Dumped' = Dumped)
<1>1. wal' = wal /\ snaps' = snaps /\ server' = server
  BY DEF walVars, disk
<1>2. (Up' <=> Up) /\ Loaded' = Loaded
  BY <1>1 DEF Up, Loaded
<1>3. Named' = Named /\ StartSnap' = StartSnap
  BY <1>1 DEF Named, StartSnap
<1>4. ReadStart' = ReadStart /\ (StartKnown' <=> StartKnown)
  BY <1>2, <1>3 DEF ReadStart, StartKnown
<1>5. Raw' = Raw
  <2>1. \A n : (PrintsRec(wal[n]))' <=> PrintsRec(wal[n])
    BY <1>1 DEF PrintsRec
  <2> DEFINE shown == {n \in DOMAIN wal : PrintsRec(wal[n])}
  <2>2. shown' = shown
    BY <1>1, <2>1
  <2> HIDE DEF shown
  <2>3. (Pick(wal, shown))' = Pick(wal, shown)
    BY <1>1, <2>2 DEF Pick, Rank
  <2>4. QED
    BY <2>3 DEF Raw, shown
<1>6. ASSUME walsnap' = walsnap
      PROVE  (WalReads' <=> WalReads) /\ (WalReads => Dumped' = Dumped)
  <2>1. /\ (ErrFileNotFound(walsnap))' = ErrFileNotFound(walsnap)
        /\ (ReadAll(walsnap).err)' = ReadAll(walsnap).err
        /\ ReadAll(walsnap).err # "ErrSnapshotMismatch" =>
             (ReadAll(walsnap).ents)' = ReadAll(walsnap).ents
    BY <1>1, <1>6, SameRead
  <2>2. WalReads' <=> WalReads
    BY <2>1 DEF WalReads, Tolerates
  <2>3. ASSUME WalReads
        PROVE  Dumped' = Dumped
    <3>1. (ReadAll(walsnap).ents)' = ReadAll(walsnap).ents
      BY <2>1, <2>3 DEF WalReads, Tolerates
    <3>2. QED
      BY <3>1 DEF Dumped, BeforeEnd, Pick, Rank
  <2>4. QED
    BY <2>2, <2>3
<1>7. QED
  BY <1>1, <1>2, <1>4, <1>5, <1>6

\* and every step of the server and of the command keeps it.
LEMMA DumpStep ==
  ASSUME ServerInv, Entries(wal), DumpInv, [DNext]_dumpVars
  PROVE  DumpInv'
<1>0. /\ TypeInv /\ ReleaseInv /\ wal \in Seq(Rec)
      /\ pc \in {"idle", "load", "read", "list", "raw", "done", "failed"}
      /\ cmd \in Commands /\ cmd \in Command
      /\ walsnap \in [k : {"snap"}, i : Index, t : Terms]
      /\ ents \in Seq(EntryRec)
  BY WalIs, CommandsAssumption DEF ServerInv, DumpInv
<1>1. ASSUME pc = "idle", UNCHANGED dvars
      PROVE  DumpInv'
  BY <1>0, <1>1 DEF DumpInv, dvars, Listed
<1>2. CASE UNCHANGED dumpVars
  <2>1. UNCHANGED walVars /\ UNCHANGED dvars
    BY <1>2 DEF dumpVars
  <2>2. pc' = pc /\ cmd' = cmd /\ walsnap' = walsnap /\ ents' = ents /\ out' = out
    BY <2>1 DEF dvars
  <2>3. QED
    BY <1>0, <2>1, <2>2, SameDump DEF DumpInv, Listed
<1>3. ASSUME NEW c \in Commands, logCommandFunc(c)
      PROVE  DumpInv'
  <2>1. /\ pc = "idle" /\ ~Up /\ UNCHANGED walVars /\ cmd' = c
        /\ walsnap' = walsnap /\ ents' = ents /\ out' = out
        /\ pc' = IF FlagsConflict(c) THEN "failed" ELSE IF c.raw THEN "raw" ELSE "load"
    BY <1>3 DEF logCommandFunc
  <2>2. ~Up'
    BY <2>1 DEF walVars, Up
  <2>3. out = <<>> /\ c.raw \in BOOLEAN
    BY <2>1, CommandsAssumption DEF DumpInv, Command
  <2>4. FlagsConflict(c) => (FlagsConflict(cmd))'
    BY <2>1 DEF FlagsConflict
  <2>5. QED
    BY <1>0, <2>1, <2>2, <2>3, <2>4 DEF DumpInv, Listed
<1>4. CASE LoadStart
  <2>1. /\ pc = "load" /\ UNCHANGED walVars /\ cmd' = cmd /\ ents' = ents /\ out' = out
        /\ ~cmd.raw /\ ~Up /\ out = <<>>
    BY <1>4 DEF LoadStart, DumpInv
  <2>2. /\ ReadStart' = ReadStart /\ (StartKnown' <=> StartKnown) /\ (Up' <=> Up)
    BY <1>0, <2>1, SameDump
  <2>3. cmd.changed \in BOOLEAN
    BY <1>0 DEF Command
  <2>4. CASE StartKnown
    <3>1. pc' = "read" /\ walsnap' = ReadStart
      BY <1>4, <2>3, <2>4 DEF LoadStart, StartKnown, ReadStart
    <3>2. walsnap' \in [k : {"snap"}, i : Index, t : Terms]
      BY <1>0, <2>4, <3>1, StartIsTyped
    <3>3. QED
      BY <1>0, <2>1, <2>2, <2>4, <3>1, <3>2 DEF DumpInv, Listed
  <2>5. CASE ~StartKnown
    <3>1. pc' = "failed" /\ walsnap' = walsnap
      BY <1>4, <2>3, <2>5 DEF LoadStart, StartKnown
    <3>2. QED
      BY <1>0, <2>1, <2>2, <2>5, <3>1 DEF DumpInv, Listed
  <2>6. QED
    BY <2>4, <2>5
<1>5. CASE readUsingReadAll
  <2>1. /\ pc = "read" /\ UNCHANGED walVars /\ cmd' = cmd /\ walsnap' = walsnap /\ out' = out
        /\ ~cmd.raw /\ ~Up /\ out = <<>> /\ walsnap = ReadStart /\ StartKnown
    BY <1>5 DEF readUsingReadAll, DumpInv
  <2>2. /\ ReadStart' = ReadStart /\ (StartKnown' <=> StartKnown) /\ (Up' <=> Up)
        /\ (WalReads' <=> WalReads) /\ (WalReads => Dumped' = Dumped)
    BY <1>0, <2>1, SameDump
  <2>3. CASE WalReads
    <3>1. pc' = "list" /\ ents' = Dumped
      BY <1>5, <2>3 DEF readUsingReadAll, Dumped
    <3>2. Readable(walsnap) /\ ReadAll(walsnap).err # "ErrSnapshotMismatch"
      BY <1>0, <2>3 DEF WalReads, Tolerates, Readable
    <3> DEFINE es == ReadAll(walsnap).ents
    <3>3. es \in Seq(EntryRec) /\ \A n \in DOMAIN es : es[n].i = walsnap.i + n
      BY <3>2, ReadIs
    <3>4. walsnap.i \in Nat
      BY <1>0, IndexIs
    <3> HIDE DEF es
    <3>5. BeforeEnd(es) \in Seq(EntryRec)
      BY <1>0, <3>3, <3>4, BeforeEndIs
    <3>6. ents' \in Seq(EntryRec)
      BY <3>1, <3>5 DEF Dumped, es
    <3>7. QED
      BY <1>0, <2>1, <2>2, <2>3, <3>1, <3>6 DEF DumpInv, Listed
  <2>4. CASE ~WalReads
    <3>1. pc' = "failed" /\ ents' = ents
      BY <1>5, <2>4 DEF readUsingReadAll
    <3>2. QED
      BY <1>0, <2>1, <2>2, <2>4, <3>1 DEF DumpInv, Listed
  <2>5. QED
    BY <2>3, <2>4
<1>6. CASE List
  <2>1. /\ pc = "list" /\ pc' = "done" /\ UNCHANGED walVars /\ cmd' = cmd
        /\ walsnap' = walsnap /\ ents' = ents /\ out' = listEntriesType(cmd.types, ents, Data)
        /\ ~cmd.raw /\ ~Up /\ walsnap = ReadStart /\ StartKnown /\ WalReads /\ ents = Dumped
    BY <1>6 DEF List, DumpInv, Listed
  <2>2. /\ ReadStart' = ReadStart /\ (StartKnown' <=> StartKnown) /\ (Up' <=> Up)
        /\ (WalReads' <=> WalReads) /\ Dumped' = Dumped
    BY <1>0, <2>1, SameDump
  <2>3. out' = (listEntriesType(cmd.types, ents, Data))'
    BY <2>1 DEF listEntriesType, Pick, Rank
  <2>4. QED
    BY <1>0, <2>1, <2>2, <2>3 DEF DumpInv, Listed
<1>7. CASE readRaw
  <2>1. /\ pc = "raw" /\ pc' = "done" /\ UNCHANGED walVars /\ cmd' = cmd
        /\ walsnap' = walsnap /\ ents' = ents /\ out' = Raw /\ cmd.raw /\ ~Up
    BY <1>7 DEF readRaw, DumpInv, Raw
  <2>2. Raw' = Raw /\ (Up' <=> Up)
    BY <1>0, <2>1, SameDump
  <2>3. QED
    BY <1>0, <2>1, <2>2 DEF DumpInv, Listed
<1>8. QED
  BY <1>1, <1>2, <1>3, <1>4, <1>5, <1>6, <1>7 DEF DNext

-----------------------------------------------------------------------------
(* The theorems about whatever is on the disk.                             *)

\* The layers of the server, its entries and the command hold in every state.
THEOREM DInvariant == DSpec => [](ServerInv /\ Entries(wal) /\ DumpInv)
<1>1. DInit => ServerInv /\ Entries(wal) /\ DumpInv
  <2>1. SUFFICES ASSUME DInit
                 PROVE  ServerInv /\ Entries(wal) /\ DumpInv
    OBVIOUS
  <2>2. wal = <<File(0), Snap(0, 0)>> /\ ServerInv
    BY <2>1, ServerInit DEF DInit, WalInit
  <2>3. Entries(wal)
    BY <2>2 DEF Entries, File, Snap
  <2>4. QED
    BY <2>1, <2>2, <2>3, DumpInit
<1>2. ServerInv /\ Entries(wal) /\ DumpInv /\ [DNext]_dumpVars =>
        (ServerInv /\ Entries(wal) /\ DumpInv)'
  <2>1. SUFFICES ASSUME ServerInv, Entries(wal), DumpInv, [DNext]_dumpVars
                 PROVE  ServerInv' /\ Entries(wal)' /\ DumpInv'
    OBVIOUS
  <2>2. ServerNext \/ UNCHANGED walVars
    BY <2>1 DEF DNext, dumpVars, logCommandFunc, LoadStart, readUsingReadAll, List, readRaw
  <2>3. ServerInv'
    BY <2>1, <2>2, ServerStep, ServerUnchanged
  <2>4. CASE ServerNext
    <3>1. Entries(wal')
      BY <2>1, <2>4, EntriesStep DEF ServerInv
    <3>2. QED
      BY <2>1, <2>3, <3>1, DumpStep DEF Entries
  <2>5. CASE UNCHANGED walVars
    <3>1. wal' = wal
      BY <2>5 DEF walVars, disk
    <3>2. Entries(wal)'
      BY <2>1, <3>1 DEF Entries
    <3>3. QED
      BY <2>1, <2>3, <3>2, DumpStep
  <2>6. QED
    BY <2>2, <2>4, <2>5
<1>3. QED
  BY <1>1, <1>2, PTL DEF DSpec

\* What the dump holds.
LEMMA DumpedIs ==
  ASSUME ServerInv, Entries(wal), DumpInv, Listed
  PROVE  LET es == ReadAll(walsnap).ents
         IN  /\ Readable(walsnap) /\ ReadAll(walsnap).err # "ErrSnapshotMismatch"
             /\ walsnap.i \in Nat /\ es \in Seq(EntryRec)
             /\ \A n \in DOMAIN es : es[n].i = walsnap.i + n
             /\ \A n \in DOMAIN ents :
                  n \in DOMAIN es /\ ents[n] = es[n] /\ (cmd.end = NoEnd \/ ents[n].i < cmd.end)
             /\ \A n \in DOMAIN es : cmd.end = NoEnd \/ es[n].i < cmd.end => n \in DOMAIN ents
<1> DEFINE es == ReadAll(walsnap).ents
<1>1. /\ wal \in Seq(Rec) /\ cmd \in Command /\ WalReads /\ ents = BeforeEnd(es)
      /\ walsnap.i \in Index
  BY WalIs, CommandsAssumption DEF ServerInv, DumpInv, Dumped
<1>2. Readable(walsnap) /\ ReadAll(walsnap).err # "ErrSnapshotMismatch"
  BY <1>1 DEF WalReads, Tolerates, Readable
<1>3. es \in Seq(EntryRec) /\ \A n \in DOMAIN es : es[n].i = walsnap.i + n
  BY <1>2, ReadIs
<1>4. walsnap.i \in Nat
  BY <1>1, IndexIs
<1> HIDE DEF es
<1>5. /\ \A n \in DOMAIN ents :
           n \in DOMAIN es /\ ents[n] = es[n] /\ (cmd.end = NoEnd \/ ents[n].i < cmd.end)
      /\ \A n \in DOMAIN es : cmd.end = NoEnd \/ es[n].i < cmd.end => n \in DOMAIN ents
  BY <1>1, <1>3, <1>4, BeforeEndIs
<1>6. QED
  BY <1>2, <1>3, <1>4, <1>5 DEF es

\* The types of the model: the command line, what is read and what is printed.
THEOREM DTypeCorrect == DSpec => []DTypeOK
<1>1. ServerInv /\ Entries(wal) /\ DumpInv => DTypeOK
  <2>1. SUFFICES ASSUME ServerInv, Entries(wal), DumpInv
                 PROVE  DTypeOK
    OBVIOUS
  <2>2. /\ WalTypeOK /\ wal \in Seq(Rec) /\ DOMAIN wal = 1..Len(wal) /\ Len(wal) \in Nat
        /\ pc \in {"idle", "load", "read", "list", "raw", "done", "failed"}
        /\ cmd \in Commands /\ cmd \in Command /\ ents \in Seq(EntryRec)
        /\ walsnap \in [k : {"snap"}, i : Index, t : Terms]
    BY <2>1, WalIs, CommandsAssumption DEF ServerInv, TypeInv, DumpInv
  <2>3. CASE pc # "done"
    <3>1. out = <<>>
      BY <2>1, <2>3 DEF DumpInv
    <3>2. QED
      BY <2>2, <3>1 DEF DTypeOK, Index, EntryRec
  <2>4. CASE pc = "done" /\ ~cmd.raw
    <3>1. out = listEntriesType(cmd.types, ents, Data)
      BY <2>1, <2>4 DEF DumpInv
    <3>2. cmd.types \in Seq({"Normal", "unknown"} \cup DOMAIN validRequest)
      BY <2>2 DEF Command
    <3>3. \A n \in DOMAIN out : out[n] \in RowRec
      BY <2>2, <3>1, <3>2, ListIs
    <3>4. QED
      BY <2>2, <3>3 DEF DTypeOK, Index, EntryRec, RowRec, FilterTypes
  <2>5. CASE pc = "done" /\ cmd.raw
    <3> DEFINE P == {n \in DOMAIN wal : PrintsRec(wal[n])}
    <3>1. out = Pick(wal, P)
      BY <2>1, <2>5 DEF DumpInv, Raw
    <3>2. P \in SUBSET (1..Len(wal))
      BY <2>2
    <3> HIDE DEF P
    <3>3. Place(P) \in [1..Cardinality(P) -> P]
      BY <2>2, <3>2, PlaceIs
    <3>4. out = [n \in 1..Cardinality(P) |-> wal[Place(P)[n]]]
      BY <3>1, PickAt
    <3>5. \A n \in DOMAIN out : out[n] \in {wal[p] : p \in DOMAIN wal}
      BY <2>2, <3>2, <3>3, <3>4
    <3>6. QED
      BY <2>2, <2>5, <3>5 DEF DTypeOK, Index, EntryRec
  <2>6. QED
    BY <2>3, <2>4, <2>5
<1>2. QED
  BY <1>1, DInvariant, PTL

\* Every entry is listed once and in the order of the log, and with the default
\* types none is left out.
THEOREM EntriesOnce == DSpec => []EveryEntryOnce
<1>1. ServerInv /\ Entries(wal) /\ DumpInv => EveryEntryOnce
  <2>1. SUFFICES ASSUME ServerInv, Entries(wal), DumpInv, pc = "done", ~cmd.raw
                 PROVE  /\ \A m, n \in DOMAIN out : m < n => out[m].i < out[n].i
                        /\ cmd.types = defaultEntryTypes => Len(out) = Len(ents)
    BY DEF EveryEntryOnce
  <2>2. Listed
    BY <2>1 DEF Listed
  <2> DEFINE es == ReadAll(walsnap).ents
  <2>3. /\ walsnap.i \in Nat /\ es \in Seq(EntryRec)
        /\ \A n \in DOMAIN es : es[n].i = walsnap.i + n
        /\ \A n \in DOMAIN ents : n \in DOMAIN es /\ ents[n] = es[n]
    BY <2>1, <2>2, DumpedIs
  <2>4. ents \in Seq(EntryRec) /\ cmd \in Command
    BY <2>1, CommandsAssumption DEF DumpInv
  <2>5. \A n \in DOMAIN ents : ents[n].i = walsnap.i + n /\ n \in Nat
    <3>1. DOMAIN ents = 1..Len(ents)
      BY <2>4, LenProperties
    <3>2. QED
      BY <2>3, <3>1
  <2>6. Increasing(ents)
    BY <2>3, <2>5 DEF Increasing
  <2>7. out = listEntriesType(cmd.types, ents, Data)
    BY <2>1 DEF DumpInv
  <2>8. cmd.types \in Seq({"Normal", "unknown"} \cup DOMAIN validRequest)
    BY <2>4 DEF Command
  <2>9. Increasing(out) /\ (cmd.types = defaultEntryTypes => Len(out) = Len(ents))
    BY <2>4, <2>6, <2>7, <2>8, ListIs
  <2>10. QED
    BY <2>9 DEF Increasing
<1>2. QED
  BY <1>1, DInvariant, PTL

\* The command fails for one of the reasons of its own, and never otherwise.
THEOREM FailsForReasons == DSpec => []FailsForAReason
<1>1. ServerInv /\ Entries(wal) /\ DumpInv => FailsForAReason
  <2>1. SUFFICES ASSUME ServerInv, DumpInv, pc = "failed", StartKnown, walsnap = ReadStart,
                        ~WalReads, ~ErrFileNotFound(walsnap),
                        ~(cmd.end = NoEnd /\ ReadAll(walsnap).err = "ErrSliceOutOfRange")
                 PROVE  \/ /\ cmd.changed
                           /\ \E p \in At(wal, "snap") : wal[p].i = cmd.start - 1 /\ wal[p].t > 0
                        \/ ~cmd.changed /\ walsnap \notin {wal[p] : p \in At(wal, "snap")}
    BY DEF FailsForAReason, DumpInv, StartKnown
  <2>2. /\ TypeInv /\ MarksOK /\ SnapsBelow(wal)
        /\ wal \in Seq(Rec) /\ DOMAIN wal = 1..Len(wal) /\ Len(wal) \in Nat
        /\ \A p \in DOMAIN wal : wal[p].i \in Nat /\ wal[p].t \in Terms
        /\ cmd \in Command /\ cmd.changed \in BOOLEAN /\ cmd.start \in Nat
        /\ walsnap.i \in Index /\ walsnap.i \in Nat
    <3>1. TypeInv /\ MarksOK /\ SnapsBelow(wal)
      BY <2>1 DEF ServerInv, ContentInv, OrderInv, Ordered
    <3>2. cmd \in Command /\ walsnap.i \in Index
      BY <2>1, CommandsAssumption DEF DumpInv
    <3>3. cmd.changed \in BOOLEAN /\ cmd.start \in Nat
      BY <3>2, BoundsAssumption DEF Command
    <3>4. QED
      BY <3>1, <3>2, <3>3, WalIs, IndexIs
  <2> DEFINE m == SegmentOf(walsnap)
  <2>3. /\ Readable(walsnap) /\ m \in 1..Len(wal) /\ wal[m].k = "file" /\ wal[m].i <= walsnap.i
    BY <2>1, <2>2, PositionsAre DEF Readable
  <2>4. /\ ReadAll(walsnap).err \in
             {"nil", "ErrSliceOutOfRange", "ErrSnapshotMismatch", "ErrSnapshotNotFound"}
        /\ ReadAll(walsnap).err = "ErrSnapshotMismatch" => \E p \in m..Len(wal) :
             wal[p].k = "snap" /\ wal[p].i = walsnap.i /\ wal[p].t # walsnap.t
        /\ ReadAll(walsnap).err = "ErrSnapshotNotFound" => \A p \in m..Len(wal) :
             ~(wal[p].k = "snap" /\ wal[p].i = walsnap.i)
    BY <2>3, ErrorsAre
  <2> HIDE DEF m
  <2>5. \/ ReadAll(walsnap).err = "ErrSnapshotMismatch"
        \/ ReadAll(walsnap).err = "ErrSnapshotNotFound" /\ ~cmd.changed
    BY <2>1, <2>4 DEF WalReads, Tolerates
  <2>6. CASE ReadAll(walsnap).err = "ErrSnapshotNotFound" /\ ~cmd.changed
    <3>1. SUFFICES ASSUME NEW p \in At(wal, "snap"), walsnap = wal[p]
                   PROVE  FALSE
      BY <2>6
    <3>2. p \in DOMAIN wal /\ wal[p].k = "snap" /\ p \in Nat /\ m \in DOMAIN wal /\ m \in Nat
      BY <2>2, <2>3, <3>1 DEF At
    <3>3. CASE p >= m
      BY <2>2, <2>3, <2>4, <2>6, <3>1, <3>2, <3>3
    <3>4. CASE p < m
      BY <2>2, <2>3, <3>1, <3>2, <3>4 DEF SnapsBelow
    <3>5. QED
      BY <3>2, <3>3, <3>4
  <2>7. CASE ReadAll(walsnap).err = "ErrSnapshotMismatch"
    <3>1. PICK p \in m..Len(wal) : wal[p].k = "snap" /\ wal[p].i = walsnap.i /\ wal[p].t # walsnap.t
      BY <2>4, <2>7
    <3>2. /\ p \in At(wal, "snap") /\ wal[p].i \in Nat /\ wal[p].t \in Nat
          /\ IF wal[p].i = 0 THEN wal[p].t = 0 ELSE wal[p].t = agreed[wal[p].i]
      <4>1. p \in DOMAIN wal
        BY <2>2, <2>3
      <4>2. wal[p].t \in Nat
        BY <2>2, <4>1, BoundsAssumption DEF Terms
      <4>3. QED
        BY <2>2, <3>1, <4>1, <4>2 DEF At, MarksOK
    <3>3. walsnap # Snap(0, 0)
      BY <3>1, <3>2 DEF Snap
    <3>4. walsnap \notin snaps
      <4>1. walsnap \in snaps => walsnap.i >= 1 /\ walsnap.t = agreed[walsnap.i]
        BY <2>2 DEF MarksOK
      <4>2. QED
        BY <3>1, <3>2, <4>1
    <3>5. \A r \in snaps : r.i \in Index /\ r.t \in Terms
      BY <2>2, TypeInvIs DEF MemoryOK
    <3>6. cmd.changed
      <4>1. ASSUME ~cmd.changed, cmd.snapFile # 0 PROVE FALSE
        <5>1. Named # {} /\ walsnap = Newest(Named) /\ \A r \in Named : r \in snaps
          BY <2>1, <4>1 DEF StartKnown, ReadStart, Named
        <5>2. Newest(Named) \in Named
          <6> HIDE DEF Named
          <6>1. QED
            BY <3>5, <5>1, NewestIs
        <5>3. QED
          BY <3>4, <5>1, <5>2
      <4>2. ASSUME ~cmd.changed, cmd.snapFile = 0 PROVE FALSE
        <5>1. walsnap = Loaded
          BY <2>1, <4>2 DEF ReadStart
        <5>2. snaps # {} /\ walsnap = Newest(snaps)
          BY <3>3, <5>1 DEF Loaded
        <5>3. Newest(snaps) \in snaps
          BY <3>5, <5>2, NewestIs
        <5>4. QED
          BY <3>4, <5>2, <5>3
      <4>3. QED
        BY <4>1, <4>2
    <3>7. walsnap = StartSnap
      BY <2>1, <3>6 DEF ReadStart
    <3>8. walsnap.t = 0 /\ walsnap.i = IF cmd.start > 0 THEN cmd.start - 1 ELSE 0
      BY <3>7 DEF StartSnap, Snap
    <3>9. wal[p].t > 0 /\ cmd.start > 0
      BY <2>2, <3>1, <3>2, <3>8
    <3>10. QED
      BY <3>1, <3>2, <3>6, <3>8, <3>9
  <2>8. QED
    BY <2>5, <2>6, <2>7
<1>2. QED
  BY <1>1, DInvariant, PTL

-----------------------------------------------------------------------------
(* Every step keeps the history.                                           *)

\* The log of a running member is the one in memory, until the HardState says
\* that a snapshot has replaced it.
LEMMA LastLogIs ==
  TypeInv /\ OrderInv /\ Up =>
    LastLog = IF saving.step = "state" THEN SubSeq(agreed, 1, saving.i) ELSE log
<1>0. SUFFICES ASSUME TypeInv, OrderInv, Up
               PROVE  LastLog = IF saving.step = "state" THEN SubSeq(agreed, 1, saving.i) ELSE log
  OBVIOUS
<1>1. /\ StartsFrom.i \in Nat /\ StartsFrom.i <= Saved.i /\ Saved.i \in Nat
      /\ \A r \in snaps : In(r, wal) /\ r.i <= Saved.i => r.i <= StartsFrom.i
      /\ commit \in Nat /\ commit <= Len(log) /\ Len(log) \in Nat /\ saving.i \in Nat
      /\ saving.step \in {"idle", "local", "file", "record", "state"}
  BY <1>0, StartsFromIs, SavedIs, TypeInvIs, IndexIs, LenProperties DEF MemoryOK
<1>2. CASE saving.step = "state"
  <2>1. /\ Snap(saving.i, saving.t) \in snaps /\ In(Snap(saving.i, saving.t), wal)
        /\ Saved.i = saving.i /\ Len(log) < saving.i
    BY <1>0, <1>2 DEF OrderInv, Steps, InLast, In
  <2>2. Snap(saving.i, saving.t).i = saving.i
    BY DEF Snap
  <2>3. saving.i <= StartsFrom.i
    BY <1>1, <2>1, <2>2
  <2>4. StartsFrom.i = saving.i
    BY <1>1, <2>1, <2>3
  <2>5. QED
    BY <1>2, <2>1, <2>4 DEF LastLog
<1>3. CASE saving.step # "state"
  <2>1. Saved.i <= commit
    BY <1>0, <1>1, <1>3 DEF OrderInv, Steps
  <2>2. StartsFrom.i \in Nat /\ ~(Len(log) < StartsFrom.i)
    BY <1>1, <2>1
  <2>3. QED
    BY <1>3, <2>2 DEF LastLog
<1>4. QED
  BY <1>2, <1>3

\* A server starts from nothing that is not saved.
LEMMA StartIsSaved ==
  TypeInv => StartsFrom.i \in Nat /\ StartsFrom.i <= Saved.i /\ Saved.i \in Nat
  BY StartsFromIs, SavedIs, IndexIs

\* A crash leaves the log that the member had.
LEMMA LogAfterCrash ==
  ASSUME TypeInv, OrderInv, Up, TypeInv', NEW lost \in 0..soft, Crash(lost)
  PROVE  LastLog' = LastLog
<1>1. PICK n \in 0..Len(wal) : wal' = SubSeq(wal, 1, n) /\ (soft = 0 => n = Len(wal))
  BY CrashIs
<1>2. wal \in Seq(Rec) /\ Monotone(wal) /\ Steps /\ DOMAIN wal = 1..Len(wal) /\ Len(wal) \in Nat
  BY WalIs DEF OrderInv, Ordered
<1>3. snaps' = snaps /\ log' = log /\ agreed' = agreed
  BY DEF Crash
<1>4. CASE saving.step = "state"
  <2>1. wal' = wal
    BY <1>1, <1>2, <1>4, SubSeqFull DEF Steps
  <2>2. LastState(wal)' = LastState(wal)
    BY <2>1 DEF LastState, At
  <2>3. Valid' = Valid
    BY <1>3, <2>1, <2>2 DEF Valid, At
  <2>4. StartsFrom' = StartsFrom
    BY <2>3 DEF StartsFrom
  <2>5. QED
    BY <1>3, <2>4 DEF LastLog
<1>5. CASE saving.step # "state"
  <2>1. LastLog = log
    BY <1>5, LastLogIs
  <2>2. /\ Saved.i <= commit /\ commit <= Len(log) /\ commit \in Nat /\ Len(log) \in Nat
        /\ Saved.i \in Nat
    <3>1. Saved.i <= commit
      BY <1>2, <1>5, TypeInvIs DEF Steps, MemoryOK
    <3>2. QED
      BY <3>1, TypeInvIs, StartIsSaved, IndexIs, LenProperties DEF MemoryOK
  <2>3. Saved'.i <= Saved.i
    <3>1. /\ wal' \in Seq(Rec) /\ Len(wal') = n /\ \A p \in 1..n : wal'[p] = wal[p]
      BY <1>1, <1>2, PrefixIs
    <3>2. CASE At(wal', "state") = {}
      BY <2>2, <3>1, <3>2, LastStateIs DEF Saved, State
    <3>3. CASE At(wal', "state") # {}
      <4>1. PICK p \in At(wal', "state") : LastState(wal') = wal'[p]
        BY <3>1, <3>3, LastStateIs
      <4>2. p \in DOMAIN wal' /\ wal'[p].k = "state"
        BY <4>1 DEF At
      <4>3. p \in 1..n /\ p \in DOMAIN wal
        BY <1>2, <3>1, <4>2, SeqFacts
      <4>4. wal'[p] = wal[p] /\ wal[p].i <= LastState(wal).i
        BY <1>2, <3>1, <4>2, <4>3, LastStateGreatest
      <4>5. QED
        BY <4>1, <4>4 DEF Saved
    <3>4. QED
      BY <3>2, <3>3
  <2>4. (StartsFrom.i \in Nat /\ StartsFrom.i <= Saved.i /\ Saved.i \in Nat)'
    <3>1. (TypeInv => StartsFrom.i \in Nat /\ StartsFrom.i <= Saved.i /\ Saved.i \in Nat)'
      BY StartIsSaved, PTL
    <3>2. QED
      BY <3>1
  <2>5. ~(Len(log') < StartsFrom'.i)
    BY <1>3, <2>2, <2>3, <2>4
  <2>6. QED
    BY <1>3, <2>1, <2>5 DEF LastLog
<1>6. QED
  BY <1>4, <1>5

\* In its first run the log of the member is the same after each other step,
\* but for a new entry and the snapshot that replaces it.
LEMMA LogStep ==
  ASSUME ServerInv, ServerInv', ServerNext, restarts' = 0
  PROVE  /\ Up /\ restarts = 0
         /\ \A i \in 1..MaxIndex, e, t \in 1..MaxTerm :
              AppendEntry(i, e, t) => LastLog = log /\ LastLog' = log'
         /\ ReceiveState => LastLog = log /\ LastLog' = SubSeq(agreed, 1, saving.i)
         /\ \/ \E i \in 1..MaxIndex, e, t \in 1..MaxTerm : AppendEntry(i, e, t)
            \/ ReceiveState
            \/ LastLog' = LastLog
<1>0. TypeInv /\ OrderInv /\ TypeInv' /\ OrderInv'
  BY DEF ServerInv
<1>1. Up /\ restarts = 0
  <2>1. restarts \in Nat
    BY <1>0, TypeInvIs, BoundsAssumption DEF MemoryOK
  <2>2. ~Restart
    BY <2>1 DEF Restart
  <2>3. QED
    BY <2>2 DEF ServerNext, AppendEntry, Commit, Between, SaveState, Apply, SnapFile, SnapRecord,
                ReceiveFile, ReceiveRecord, ReceiveState, ReceiveDb, Cut, Purge, Stop, Crash, past
<1>2. LastLog = IF saving.step = "state" THEN SubSeq(agreed, 1, saving.i) ELSE log
  BY <1>0, <1>1, LastLogIs
<1>3. Up' => LastLog' = IF saving'.step = "state" THEN SubSeq(agreed', 1, saving'.i) ELSE log'
  <2>1. (TypeInv /\ OrderInv /\ Up =>
           LastLog = IF saving.step = "state" THEN SubSeq(agreed, 1, saving.i) ELSE log)'
    BY LastLogIs, PTL
  <2>2. QED
    BY <1>0, <2>1
<1>4. ASSUME NEW lost \in 0..soft, Crash(lost)
      PROVE  LastLog' = LastLog
  BY <1>0, <1>1, <1>4, LogAfterCrash
<1>5. ASSUME Stop PROVE LastLog' = LastLog
  <2>1. wal' = wal /\ snaps' = snaps /\ log' = log /\ agreed' = agreed
    BY <1>5 DEF Stop, memory
  <2>2. LastState(wal)' = LastState(wal)
    BY <2>1 DEF LastState, At
  <2>3. Valid' = Valid
    BY <2>1, <2>2 DEF Valid, At
  <2>4. StartsFrom' = StartsFrom
    BY <2>3 DEF StartsFrom
  <2>5. QED
    BY <1>1, <2>1, <2>4 DEF LastLog
<1>6. ASSUME NEW i \in 1..MaxIndex, NEW e \in 1..MaxTerm, NEW t \in 1..MaxTerm,
             AppendEntry(i, e, t)
      PROVE  LastLog = log /\ LastLog' = log'
  <2>1. saving.step # "state" /\ saving' = saving /\ Up'
    BY <1>1, <1>6 DEF AppendEntry, Up
  <2>2. QED
    BY <1>2, <1>3, <2>1
<1>7. ASSUME ReceiveState PROVE LastLog = log /\ LastLog' = SubSeq(agreed, 1, saving.i)
  <2>1. /\ saving.step = "record" /\ saving' = [saving EXCEPT !.step = "state"]
        /\ agreed' = agreed /\ Up'
    BY <1>1, <1>7 DEF ReceiveState, Up
  <2>2. saving'.step = "state" /\ saving'.i = saving.i
    BY <1>0, <2>1, TypeInvIs DEF MemoryOK
  <2>3. QED
    BY <1>1, <1>2, <1>3, <1>7, <2>1, <2>2
<1>8. ASSUME ReceiveDb PROVE LastLog' = LastLog
  <2>1. saving.step = "state" /\ saving'.step = "idle" /\ log' = SubSeq(agreed, 1, saving.i) /\ Up'
    BY <1>1, <1>8 DEF ReceiveDb, Idle, Up
  <2>2. QED
    BY <1>1, <1>2, <1>3, <2>1
<1>9. ASSUME \/ SaveState \/ SnapRecord \/ ReceiveRecord \/ Cut \/ SnapFile
             \/ \E c \in 1..MaxIndex : Commit(c)
             \/ \E batched \in BOOLEAN : Apply(batched)
             \/ \E i \in 1..MaxIndex, t \in 1..MaxTerm : ReceiveFile(i, t)
      PROVE  LastLog' = LastLog
  <2>1. log' = log /\ Up' /\ saving.step # "state"
    BY <1>1, <1>9 DEF SaveState, SnapRecord, ReceiveRecord, Cut, SnapFile, Commit, Apply,
                      ReceiveFile, Between, memory, Up
  <2>2. saving'.step # "state"
    <3>1. CASE saving' = saving \/ saving' = Idle
      BY <2>1, <3>1 DEF Idle
    <3>2. CASE ReceiveRecord
      BY <1>0, <3>2, TypeInvIs DEF ReceiveRecord, MemoryOK
    <3>3. CASE SnapFile \/ \E i \in 1..MaxIndex, t \in 1..MaxTerm : ReceiveFile(i, t)
      <4>1. SnapFile => saving' = [step |-> "local", i |-> applied, t |-> log[applied]]
        BY DEF SnapFile
      <4>2. \A i \in 1..MaxIndex, t \in 1..MaxTerm :
              ReceiveFile(i, t) => saving' = [step |-> "file", i |-> i, t |-> t]
        BY DEF ReceiveFile
      <4>3. QED
        BY <3>3, <4>1, <4>2
    <3>4. QED
      BY <1>9, <3>1, <3>2, <3>3 DEF SaveState, SnapRecord, Cut, Commit, Apply, memory
  <2>3. QED
    BY <1>1, <1>2, <1>3, <2>1, <2>2
<1>10. ASSUME Purge PROVE LastLog' = LastLog
  <2>1. log' = log /\ Up' /\ saving' = saving /\ agreed' = agreed
    BY <1>1, <1>10 DEF Purge, memory, Up
  <2>2. QED
    BY <1>1, <1>2, <1>3, <2>1
<1>11. ASSUME Restart PROVE FALSE
  BY <1>1, <1>11 DEF Restart
<1>12. QED
  BY <1>1, <1>4, <1>5, <1>6, <1>7, <1>8, <1>9, <1>10, <1>11 DEF ServerNext

\* The records that are not lost or purged stay where they are.
LEMMA SnapStays ==
  ASSUME ServerInv, ServerNext, NEW p \in DOMAIN wal, p \in DOMAIN wal', wal'[p] = wal[p],
         ~Purge, wal[p] \in Durable(wal, Synced, snaps)
  PROVE  wal'[p] \in Durable(wal', Synced', snaps')
<1>1. TypeInv /\ OrderInv
  BY DEF ServerInv
<1>2. /\ snaps \subseteq snaps' /\ Keeps(wal, Synced, wal') /\ Synced <= Synced'
      /\ Synced' \in Nat
  BY <1>1, WalStep
<1>3. /\ Synced \in Nat /\ DOMAIN wal \subseteq Nat
      /\ \A r \in snaps : r.k = "snap"
  <2>1. RecordsOK(wal, Synced, Len(agreed)) /\ MemoryOK
    BY <1>1, TypeInvIs
  <2>2. Synced \in Nat
    BY <2>1, LenProperties DEF RecordsOK
  <2>3. \A r \in snaps : r.k = "snap"
    BY <2>1 DEF MemoryOK, Snap
  <2>4. DOMAIN wal \subseteq Nat
    BY <1>1, WalIs
  <2>5. QED
    BY <2>2, <2>3, <2>4
<1>4. Durable(wal, Synced, snaps) \subseteq Durable(wal', Synced', snaps')
  BY <1>2, <1>3, DurableKept
<1>5. QED
  BY <1>4

\* A snapshot taken here is committed.
LEMMA TakenIsDurable ==
  ASSUME ServerInv, ServerInv', SnapRecord, saving.i > 0
  PROVE  /\ saving.i <= commit
         /\ Snap(saving.i, saving.t) \in Durable(wal', Synced', snaps')
<1>1. /\ TypeInv /\ Steps /\ wal \in Seq(Rec) /\ Len(wal) \in Nat /\ DOMAIN wal = 1..Len(wal)
      /\ saving.i \in Index /\ saving.i \in Nat /\ saving.t \in Terms
      /\ commit \in Nat /\ Saved.i \in Nat
  BY TypeInvIs, WalIs, StartIsSaved, IndexIs DEF ServerInv, OrderInv, MemoryOK
<1>2. /\ wal' = Append(wal, Snap(saving.i, saving.t)) /\ soft' = 0 /\ saving.step = "local"
      /\ snaps' = snaps /\ Up
  BY DEF SnapRecord
<1>3. saving.i <= Saved.i /\ Saved.i <= commit /\ Snap(saving.i, saving.t) \in snaps'
  BY <1>1, <1>2 DEF Steps
<1>4. Snap(saving.i, saving.t) \in Rec /\ Snap(saving.i, saving.t).i = saving.i
  BY <1>1, NewRecords
<1>5. /\ wal' \in Seq(Rec) /\ Len(wal') = Len(wal) + 1
      /\ wal'[Len(wal) + 1] = Snap(saving.i, saving.t)
      /\ \A p \in 1..Len(wal) : wal'[p] = wal[p]
  BY <1>1, <1>2, <1>4, AppendIs
<1>6. DOMAIN wal' = 1..(Len(wal) + 1) /\ Synced' = Len(wal) + 1
  <2>1. soft' = 0
    BY <1>2
  <2>2. QED
    BY <1>1, <1>5, <2>1, SeqFacts DEF Synced
<1>7. In(Snap(saving.i, saving.t), wal')
  <2>1. Len(wal) + 1 \in DOMAIN wal'
    BY <1>1, <1>6
  <2>2. QED
    BY <1>5, <2>1 DEF In
<1>8. Reached(saving.i, wal', Synced')
  <2>1. PICK x \in DOMAIN wal : wal[x].k = "state" /\ saving.i <= wal[x].i
    BY <1>1, <1>3, SavedIs DEF State
  <2>2. x \in DOMAIN wal' /\ wal'[x] = wal[x] /\ x <= Synced'
    BY <1>1, <1>5, <1>6
  <2>3. QED
    BY <2>1, <2>2 DEF Reached
<1>9. QED
  BY <1>1, <1>3, <1>4, <1>7, <1>8 DEF Durable

\* A snapshot that is coming in is beyond the end of the log.
LEMMA ArrivingIs ==
  ASSUME ServerInv, NEW p, Arriving(p)
  PROVE  /\ wal[p].i = saving.i /\ saving.i \in Nat /\ Len(log) < saving.i
         /\ Len(log) \in Nat /\ commit \in Nat /\ commit <= Len(log)
<1>1. /\ saving.step \in {"record", "state"} /\ wal[p] = Snap(saving.i, saving.t)
      /\ Snap(saving.i, saving.t).i = saving.i
  BY DEF Arriving, Snap
<1>2. QED
  BY <1>1, TypeInvIs, IndexIs, LenProperties DEF ServerInv, OrderInv, Steps, MemoryOK

\* The positions of a WAL to which a record is appended.
LEMMA AppendAt ==
  ASSUME NEW w \in Seq(Rec), NEW x \in Rec
  PROVE  /\ Append(w, x) \in Seq(Rec)
         /\ \A p \in DOMAIN Append(w, x) :
              \/ p \in DOMAIN w /\ Append(w, x)[p] = w[p]
              \/ p = Len(w) + 1 /\ Append(w, x)[p] = x
<1> DEFINE v == Append(w, x)
<1>1. /\ v \in Seq(Rec) /\ Len(v) = Len(w) + 1 /\ v[Len(w) + 1] = x
      /\ \A p \in 1..Len(w) : v[p] = w[p]
  BY AppendIs
<1> HIDE DEF v
<1>2. DOMAIN w = 1..Len(w) /\ DOMAIN v = 1..(Len(w) + 1) /\ Len(w) \in Nat
  BY <1>1, SeqFacts
<1>3. QED
  BY <1>1, <1>2 DEF v

\* A snapshot comes to the WAL when it is recorded.
LEMMA NewSnap ==
  ASSUME TypeInv, ServerNext, ~Purge, NEW p \in DOMAIN wal', wal'[p].k = "snap"
  PROVE  \/ p \in DOMAIN wal /\ wal'[p] = wal[p]
         \/ /\ p = Len(wal) + 1 /\ (SnapRecord \/ ReceiveRecord)
            /\ wal'[p] = Snap(saving.i, saving.t) /\ wal'[p].i = saving.i
<1>1. wal \in Seq(Rec) /\ Len(wal) \in Nat /\ DOMAIN wal = 1..Len(wal)
  BY WalIs
<1>2. ASSUME NEW x \in Rec, NEW y \in Rec, x.k # "snap", y.k # "snap",
             wal' = Append(Append(wal, x), y)
      PROVE  p \in DOMAIN wal /\ wal'[p] = wal[p]
  <2> DEFINE v == Append(wal, x)
  <2>1. /\ v \in Seq(Rec)
        /\ \A q \in DOMAIN v : \/ q \in DOMAIN wal /\ v[q] = wal[q]
                               \/ q = Len(wal) + 1 /\ v[q] = x
    BY <1>1, AppendAt
  <2>2. wal' = Append(v, y)
    BY <1>2
  <2> HIDE DEF v
  <2>3. (p \in DOMAIN v /\ wal'[p] = v[p]) \/ wal'[p] = y
    BY <2>1, <2>2, AppendAt
  <2>4. QED
    BY <1>2, <2>1, <2>3
<1>3. ASSUME NEW x \in Rec, x.k # "snap", wal' = Append(wal, x)
      PROVE  p \in DOMAIN wal /\ wal'[p] = wal[p]
  BY <1>1, <1>3, AppendAt
<1>4. ASSUME NEW i \in 1..MaxIndex, NEW e \in 1..MaxTerm, NEW t \in 1..MaxTerm,
             AppendEntry(i, e, t)
      PROVE  p \in DOMAIN wal /\ wal'[p] = wal[p]
  <2>1. /\ Entry(i, e) \in Rec /\ Entry(i, e).k = "entry"
        /\ \/ wal' = Append(wal, Entry(i, e))
           \/ \E y \in Rec : y.k = "state" /\ wal' = Append(Append(wal, Entry(i, e)), y)
    BY <1>4, AppendEntryIs
  <2>2. CASE wal' = Append(wal, Entry(i, e))
    BY <1>3, <2>1, <2>2
  <2>3. CASE \E y \in Rec : y.k = "state" /\ wal' = Append(Append(wal, Entry(i, e)), y)
    BY <1>2, <2>1, <2>3
  <2>4. QED
    BY <2>1, <2>2, <2>3
<1>5. CASE SaveState \/ ReceiveState
  <2>1. PICK x \in Rec : wal' = Append(wal, x) /\ x.k = "state"
    BY <1>5, AppendOtherIs
  <2>2. QED
    BY <1>3, <2>1
<1>6. CASE SnapRecord \/ ReceiveRecord
  <2>1. PICK x \in Rec : wal' = Append(wal, x) /\ x = Snap(saving.i, saving.t) /\ x.i = saving.i
    BY <1>6, AppendOtherIs
  <2>2. \/ p \in DOMAIN wal /\ wal'[p] = wal[p]
        \/ p = Len(wal) + 1 /\ wal'[p] = x
    BY <1>1, <2>1, AppendAt
  <2>3. QED
    BY <1>6, <2>1, <2>2
<1>7. CASE Cut
  <2>1. PICK f \in Rec, y \in Rec :
          f.k = "file" /\ y.k = "state" /\ wal' = Append(Append(wal, f), y)
    BY <1>7, CutIs
  <2>2. QED
    BY <1>2, <2>1
<1>8. ASSUME NEW lost \in 0..soft, Crash(lost)
      PROVE  p \in DOMAIN wal /\ wal'[p] = wal[p]
  <2>1. PICK n \in 0..Len(wal) : wal' = SubSeq(wal, 1, n)
    BY <1>8, CrashIs
  <2>2. wal' \in Seq(Rec) /\ Len(wal') = n /\ \A q \in 1..n : wal'[q] = wal[q]
    BY <1>1, <2>1, PrefixIs
  <2>3. p \in 1..n /\ p \in DOMAIN wal
    BY <1>1, <2>2, SeqFacts
  <2>4. QED
    BY <2>2, <2>3
<1>9. QED
  BY <1>4, <1>5, <1>6, <1>7, <1>8, SameWal

\* The commit index is a number,
LEMMA CommitIsNat == TypeInv => commit \in Nat
  BY TypeInvIs, IndexIs DEF MemoryOK

\* and that of a running member does not go back.
LEMMA CommitGrows ==
  ASSUME ServerInv, ServerInv', ServerNext, Up, Up'
  PROVE  commit \in Nat /\ commit' \in Nat /\ commit <= commit'
<1>1. commit \in Nat /\ commit' \in Nat
  <2>1. (TypeInv => commit \in Nat)'
    BY CommitIsNat, PTL
  <2>2. QED
    BY <2>1, CommitIsNat DEF ServerInv
<1>2. CASE ReceiveDb
  <2>1. commit <= Len(log) /\ Len(log) \in Nat /\ saving.i \in Nat
    BY TypeInvIs, IndexIs, LenProperties DEF ServerInv, MemoryOK
  <2>2. Len(log) < saving.i /\ commit' = saving.i
    BY <1>2 DEF ReceiveDb, ServerInv, OrderInv, Steps
  <2>3. QED
    BY <1>1, <2>1, <2>2
<1>3. CASE \E c \in 1..MaxIndex : Commit(c)
  BY <1>1, <1>3 DEF Commit
<1>4. CASE Restart
  BY <1>4 DEF Restart
<1>5. ASSUME NEW lost \in 0..soft, Crash(lost) PROVE FALSE
  BY <1>5 DEF Crash, Up
<1>6. CASE commit' = commit
  BY <1>1, <1>6
<1>7. QED
  BY <1>2, <1>3, <1>4, <1>5, <1>6
    DEF ServerNext, AppendEntry, SaveState, Apply, SnapFile, SnapRecord, ReceiveFile,
        ReceiveRecord, ReceiveState, Cut, Purge, Stop, memory

\* A snapshot that is coming in stays on its way until it is installed, or the
\* member crashes.
LEMMA ArrivingStep ==
  ASSUME ServerInv, ServerInv', ServerNext, Up, ~Purge,
         NEW p \in DOMAIN wal, p \in DOMAIN wal', wal'[p] = wal[p], Arriving(p)
  PROVE  \/ Arriving(p)'
         \/ (Up' => wal'[p].i <= commit') /\ wal'[p] \in Durable(wal', Synced', snaps')
         \/ ~Up' /\ Len(log') < wal'[p].i
<1>1. /\ wal[p].i = saving.i /\ saving.i \in Nat /\ Len(log) < saving.i
      /\ wal \in Seq(Rec) /\ Len(wal) \in Nat /\ DOMAIN wal = 1..Len(wal)
  BY ArrivingIs, WalIs DEF ServerInv
<1>2. /\ saving.step \in {"record", "state"} /\ wal[p] = Snap(saving.i, saving.t)
      /\ \A q \in DOMAIN wal : q > p => wal[q].k = "state"
      /\ LastState(SubSeq(wal, 1, p)).i <= commit
  BY DEF Arriving
<1>3. CASE ReceiveState
  <2>1. PICK x \in Rec : wal' = Append(wal, x) /\ x.k = "state"
    BY <1>3, AppendOtherIs DEF ServerInv
  <2>2. saving' = [saving EXCEPT !.step = "state"] /\ commit' = commit
    BY <1>3 DEF ReceiveState
  <2>3. saving'.step = "state" /\ saving'.i = saving.i /\ saving'.t = saving.t
    BY <2>2, TypeInvIs DEF ServerInv, MemoryOK
  <2>4. SubSeq(wal', 1, p) = SubSeq(wal, 1, p)
    BY <1>1, <2>1, PrefixAppend
  <2>5. ASSUME NEW q \in DOMAIN wal', q > p PROVE wal'[q].k = "state"
    <3>1. (q \in DOMAIN wal /\ wal'[q] = wal[q]) \/ wal'[q] = x
      BY <1>1, <2>1, AppendAt
    <3>2. QED
      BY <1>2, <2>1, <2>5, <3>1
  <2>6. wal'[p] = Snap(saving'.i, saving'.t)
    BY <1>2, <2>3
  <2>7. LastState(SubSeq(wal', 1, p)).i <= commit'
    BY <1>2, <2>2, <2>4
  <2>8. QED
    BY <2>3, <2>5, <2>6, <2>7 DEF Arriving
<1>4. CASE ReceiveDb
  <2>1. saving.step = "state" /\ wal' = wal /\ commit' = saving.i
    BY <1>4 DEF ReceiveDb
  <2>2. wal[p] \in Durable(wal, Synced, snaps)
    BY <1>2, <2>1, ReceivedIsDurable DEF ServerInv
  <2>3. wal'[p] \in Durable(wal', Synced', snaps')
    BY <2>2, SnapStays
  <2>4. QED
    BY <1>1, <2>1, <2>3
<1>5. ASSUME NEW lost \in 0..soft, Crash(lost)
      PROVE  ~Up' /\ Len(log') < wal'[p].i
  BY <1>1, <1>5 DEF Crash, Up
<1>6. QED
  BY <1>2, <1>3, <1>4, <1>5
    DEF ServerNext, AppendEntry, Commit, Between, SaveState, Apply, SnapFile, SnapRecord,
        ReceiveFile, ReceiveRecord, Cut, Stop, Restart

\* So is one that has just been recorded.
LEMMA ArrivingNow ==
  ASSUME ServerInv, ReceiveRecord, NEW p, p = Len(wal) + 1
  PROVE  Arriving(p)'
<1>1. /\ wal \in Seq(Rec) /\ Len(wal) \in Nat /\ DOMAIN wal = 1..Len(wal) /\ Up
      /\ saving.step = "file" /\ saving' = [saving EXCEPT !.step = "record"] /\ commit' = commit
  BY WalIs DEF ServerInv, ReceiveRecord
<1>2. PICK x \in Rec : wal' = Append(wal, x) /\ x = Snap(saving.i, saving.t) /\ x.k = "snap"
  BY AppendOtherIs DEF ServerInv
<1>3. saving'.step = "record" /\ saving'.i = saving.i /\ saving'.t = saving.t
  BY <1>1, TypeInvIs DEF ServerInv, MemoryOK
<1>4. /\ wal' \in Seq(Rec) /\ Len(wal') = Len(wal) + 1 /\ wal'[Len(wal) + 1] = x
  BY <1>1, <1>2, AppendIs
<1>5. \A q \in DOMAIN wal' : ~(q > Len(wal) + 1)
  BY <1>1, <1>4, SeqFacts
<1>6. LastState(SubSeq(wal', 1, Len(wal) + 1)) = LastState(wal)
  <2>1. SubSeq(wal', 1, Len(wal) + 1) = wal'
    BY <1>4, SubSeqFull
  <2>2. LastState(wal') = LastState(wal)
    BY <1>1, <1>2, LastStateAppend
  <2>3. QED
    BY <2>1, <2>2
<1>7. LastState(wal).i <= commit
  BY <1>1 DEF ServerInv, OrderInv, Steps, Saved
<1>8. LastState(SubSeq(wal', 1, Len(wal) + 1)).i <= commit'
  BY <1>1, <1>6, <1>7
<1>9. wal'[Len(wal) + 1] = Snap(saving'.i, saving'.t)
  BY <1>2, <1>3, <1>4
<1>10. QED
  BY <1>3, <1>5, <1>8, <1>9 DEF Arriving

\* Each snapshot in the WAL is on its way, durable, or one that a crash has kept
\* from being installed.
LEMMA SnapsStep ==
  ASSUME ServerInv, ServerInv', ServerNext, restarts' = 0, SnapsInv, History(wal, LastLog)
  PROVE  SnapsInv'
<1>0. /\ TypeInv /\ OrderInv /\ Up /\ wal \in Seq(Rec) /\ Len(wal) \in Nat
      /\ DOMAIN wal = 1..Len(wal)
      /\ commit \in Nat /\ saving.i \in Index /\ saving.t \in Terms
  BY LogStep, WalIs, TypeInvIs, IndexIs DEF ServerInv, MemoryOK
<1>1. SUFFICES ASSUME NEW p \in DOMAIN wal', wal'[p].k = "snap", wal'[p].i > 0
               PROVE  \/ Arriving(p)'
                      \/ (Up' => wal'[p].i <= commit') /\ wal'[p] \in Durable(wal', Synced', snaps')
                      \/ ~Up' /\ Len(log') < wal'[p].i
  BY DEF SnapsInv
<1>2. ASSUME NEW q \in DOMAIN wal, wal[q] = wal'[p]
      PROVE  \/ Arriving(q)
             \/ wal[q].i <= commit /\ wal[q] \in Durable(wal, Synced, snaps)
  BY <1>0, <1>1, <1>2 DEF SnapsInv
<1>3. wal'[p].i \in Nat
  <2>1. wal' \in Seq(Rec)
    BY DEF ServerInv, TypeInv, WalTypeOK, Rec
  <2>2. QED
    BY <2>1, SeqFacts
<1>4. Up' => commit' \in Nat /\ commit <= commit'
  BY <1>0, CommitGrows
<1>5. CASE Purge
  <2>1. PICK m \in DOMAIN wal : m > 1 /\ wal[m].k = "file" /\ wal' = SubSeq(wal, m, Len(wal))
    BY <1>0, <1>5, PurgeIs
  <2>2. /\ soft' = soft /\ snaps' = snaps /\ saving' = saving /\ commit' = commit
    BY <1>5 DEF Purge, memory
  <2>3. /\ m \in 1..Len(wal) /\ Len(wal') = Len(wal) - m + 1
        /\ \A k \in 1..(Len(wal) - m + 1) : wal'[k] = wal[m + k - 1]
        /\ DOMAIN wal' = 1..(Len(wal) - m + 1)
    <3>1. m \in 1..Len(wal)
      BY <1>0, <2>1
    <3>2. /\ wal' \in Seq(Rec) /\ Len(wal') = Len(wal) - m + 1
          /\ \A k \in 1..(Len(wal) - m + 1) : wal'[k] = wal[m + k - 1]
      BY <1>0, <2>1, <3>1, SuffixIs
    <3>3. QED
      BY <3>1, <3>2, SeqFacts
  <2>4. PICK q \in DOMAIN wal : q = m + p - 1 /\ wal[q] = wal'[p]
    <3>1. m + p - 1 \in DOMAIN wal
      BY <1>0, <1>1, <2>3
    <3>2. QED
      BY <1>1, <2>3, <3>1
  <2>5. q \in (m + 1)..Len(wal) /\ p = q - m + 1
    BY <1>0, <1>1, <2>1, <2>3, <2>4
  <2>6. /\ Synced \in 0..Len(wal) /\ Ordered(wal, Synced) /\ Headed(wal, Synced)
    BY <1>0, TypeInvIs DEF OrderInv, RecordsOK, Ordered
  <2>7. CASE wal[q].i <= commit /\ wal[q] \in Durable(wal, Synced, snaps)
    <3>1. wal[q] \in snaps /\ Reached(wal[q].i, wal, Synced) /\ wal[q].i \in Nat
      BY <1>3, <2>4, <2>7 DEF Durable
    <3>2. Reached(wal[q].i, wal', Synced - m + 1)
      BY <1>0, <2>1, <2>6, <3>1, ReachedPurge
    <3>3. Synced' = Synced - m + 1
      <4>1. soft \in Nat
        BY <1>0, TypeInvIs DEF MemoryOK
      <4>2. QED
        BY <1>0, <2>2, <2>3, <4>1 DEF Synced
    <3>4. In(wal'[p], wal')
      BY <1>1 DEF In
    <3>5. wal'[p] \in Durable(wal', Synced', snaps')
      BY <2>2, <2>4, <3>1, <3>2, <3>3, <3>4 DEF Durable
    <3>6. QED
      BY <2>2, <2>4, <2>7, <3>5
  <2>8. CASE Arriving(q)
    <3>1. m + 1 \in DOMAIN wal /\ wal[m + 1].k = "state"
      <4>1. m + 1 <= Synced /\ wal[m + 1].k = "state"
        BY <2>1, <2>6 DEF Headed
      <4>2. QED
        BY <1>0, <2>3, <2>6, <4>1
    <3>2. LastState(SubSeq(wal', 1, p)) = LastState(SubSeq(wal, 1, q))
      BY <1>0, <2>1, <2>5, <3>1, HistoryPurge
    <3>3. /\ saving.step \in {"record", "state"} /\ wal[q] = Snap(saving.i, saving.t)
          /\ \A r \in DOMAIN wal : r > q => wal[r].k = "state"
          /\ LastState(SubSeq(wal, 1, q)).i <= commit
      BY <2>8 DEF Arriving
    <3>4. ASSUME NEW r \in DOMAIN wal', r > p PROVE wal'[r].k = "state"
      <4>1. m + r - 1 \in DOMAIN wal /\ m + r - 1 > q /\ wal'[r] = wal[m + r - 1]
        BY <1>0, <2>3, <2>5, <3>4
      <4>2. QED
        BY <3>3, <4>1
    <3>5. QED
      BY <2>2, <2>4, <3>2, <3>3, <3>4 DEF Arriving
  <2>9. QED
    BY <1>2, <2>4, <2>7, <2>8
<1>6. CASE ~Purge /\ p \in DOMAIN wal /\ wal'[p] = wal[p]
  <2>1. CASE Arriving(p)
    BY <1>0, <1>6, <2>1, ArrivingStep
  <2>2. CASE wal[p].i <= commit /\ wal[p] \in Durable(wal, Synced, snaps)
    <3>1. wal'[p] \in Durable(wal', Synced', snaps')
      BY <1>6, <2>2, SnapStays
    <3>2. QED
      BY <1>0, <1>3, <1>4, <1>6, <2>2, <3>1
  <2>3. QED
    BY <1>2, <1>6, <2>1, <2>2
<1>7. CASE p = Len(wal) + 1 /\ (SnapRecord \/ ReceiveRecord)
           /\ wal'[p] = Snap(saving.i, saving.t) /\ wal'[p].i = saving.i
  <2>1. CASE ReceiveRecord
    BY <1>7, <2>1, ArrivingNow
  <2>2. CASE SnapRecord
    <3>1. commit' = commit
      BY <2>2 DEF SnapRecord
    <3>2. saving.i > 0
      BY <1>1, <1>7
    <3>3. QED
      BY <1>7, <2>2, <3>1, <3>2, TakenIsDurable
  <2>3. QED
    BY <1>7, <2>1, <2>2
<1>8. QED
  BY <1>0, <1>1, <1>5, <1>6, <1>7, NewSnap

\* An entry is written after all snapshots that are below it.
LEMMA HistoryAfterEntry ==
  ASSUME ServerInv, Up, SnapsInv, History(wal, log),
         NEW i \in 1..MaxIndex, NEW e \in 1..MaxTerm, NEW t \in 1..MaxTerm, AppendEntry(i, e, t)
  PROVE  History(wal', log')
<1>1. /\ TypeInv /\ wal \in Seq(Rec) /\ DOMAIN wal = 1..Len(wal) /\ log \in Seq(Terms)
      /\ Len(log) \in Nat /\ commit \in Nat
      /\ \A p \in DOMAIN wal : wal[p].i \in Nat
  BY WalIs, TypeInvIs, IndexIs, LenProperties DEF ServerInv, MemoryOK
<1>2. /\ saving.step \in {"idle", "local"} /\ i > commit /\ i <= Len(log) + 1
      /\ log' = Append(SubSeq(log, 1, i - 1), e)
  BY DEF AppendEntry
<1>3. Len(log') = i /\ log'[i] = e /\ \A k \in 1..(i - 1) : log'[k] = log[k]
  <2> DEFINE l == SubSeq(log, 1, i - 1)
  <2>1. i - 1 \in 0..Len(log) /\ e \in Terms
    BY <1>1, <1>2, BoundsAssumption DEF Terms
  <2>2. l \in Seq(Terms) /\ Len(l) = i - 1 /\ \A k \in 1..(i - 1) : l[k] = log[k]
    BY <1>1, <2>1, PrefixIs
  <2> HIDE DEF l
  <2>3. /\ Len(Append(l, e)) = Len(l) + 1 /\ Append(l, e)[Len(l) + 1] = e
        /\ \A k \in 1..Len(l) : Append(l, e)[k] = l[k]
    BY <2>1, <2>2, AppendIs
  <2>4. log' = Append(l, e)
    BY <1>2 DEF l
  <2>5. QED
    BY <2>2, <2>3, <2>4
<1>4. ASSUME NEW p \in DOMAIN wal, wal[p].k = "snap" PROVE wal[p].i < i
  <2>1. ~Arriving(p)
    BY <1>2 DEF Arriving
  <2>2. wal[p].i = 0 \/ wal[p].i <= commit
    BY <1>1, <1>4, <2>1 DEF SnapsInv
  <2>3. QED
    BY <1>1, <1>2, <2>2
<1>5. /\ Entry(i, e) \in EntryRec /\ Entry(i, e) \in Rec
      /\ Entry(i, e).k = "entry" /\ Entry(i, e).i = i /\ Entry(i, e).t = e
      /\ \/ wal' = Append(wal, Entry(i, e))
         \/ \E y \in Rec : y.k = "state" /\ wal' = Append(Append(wal, Entry(i, e)), y)
  BY <1>1, AppendEntryIs
<1> DEFINE v == Append(wal, Entry(i, e))
<1>6. History(v, log')
  BY <1>1, <1>2, <1>3, <1>4, <1>5, HistoryEntry
<1>7. v \in Seq(Rec)
  BY <1>1, <1>5, AppendAt
<1> HIDE DEF v
<1>8. CASE wal' = v
  BY <1>6, <1>8
<1>9. CASE \E y \in Rec : y.k = "state" /\ wal' = Append(v, y)
  BY <1>6, <1>7, <1>9, HistoryAppend
<1>10. QED
  BY <1>5, <1>8, <1>9 DEF v

\* The snapshot that replaces the log is beyond all entries of it.
LEMMA HistoryAfterState ==
  ASSUME ServerInv, Up, SnapsInv, History(wal, log), ReceiveState
  PROVE  History(wal', SubSeq(agreed, 1, saving.i))
<1>1. /\ TypeInv /\ OrderInv /\ wal \in Seq(Rec) /\ DOMAIN wal = 1..Len(wal) /\ Len(wal) \in Nat
      /\ Len(log) \in Nat /\ commit \in Nat /\ commit <= Len(log) /\ commit <= Len(agreed)
      /\ agreed \in Seq(Terms) /\ Len(agreed) \in Nat /\ saving.i <= Len(agreed)
      /\ saving.i \in Nat /\ saving.step = "record"
  BY WalIs, TypeInvIs, IndexIs, LenProperties DEF ServerInv, MemoryOK, ReceiveState
<1>2. Len(log) < saving.i /\ InLast(Snap(saving.i, saving.t), wal)
  BY <1>1 DEF OrderInv, Steps
<1>3. PICK q \in DOMAIN wal : wal[q] = Snap(saving.i, saving.t)
  BY <1>2 DEF InLast
<1>4. wal[q].k = "snap" /\ wal[q].i = saving.i
  BY <1>3 DEF Snap
<1>5. Arriving(q)
  BY <1>1, <1>2, <1>4 DEF SnapsInv
<1>6. /\ \A p \in DOMAIN wal : p > q => wal[p].k = "state"
      /\ LastState(SubSeq(wal, 1, q)).i <= commit
  BY <1>5 DEF Arriving
<1>7. LastState(SubSeq(wal, 1, q)).i \in Nat
  <2> DEFINE u == SubSeq(wal, 1, q)
  <2>1. u \in Seq(Rec)
    BY <1>1, PrefixIs
  <2> HIDE DEF u
  <2>2. LastState(u).i \in Nat
    <3>1. CASE At(u, "state") = {}
      BY <2>1, <3>1, LastStateIs DEF State
    <3>2. CASE At(u, "state") # {}
      <4>1. PICK p \in At(u, "state") : LastState(u) = u[p]
        BY <2>1, <3>2, LastStateIs
      <4>2. p \in DOMAIN u
        BY <4>1 DEF At
      <4>3. QED
        BY <2>1, <4>1, <4>2, SeqFacts
    <3>3. QED
      BY <3>1, <3>2
  <2>3. QED
    BY <2>2 DEF u
<1> DEFINE l2 == SubSeq(agreed, 1, saving.i)
<1>8. Len(l2) = saving.i /\ \A k \in 1..saving.i : l2[k] = agreed[k]
  BY <1>1, PrefixIs
<1>9. \A k \in 1..commit : l2[k] = log[k]
  <2>1. \A k \in 1..commit : log[k] = agreed[k]
    BY DEF ServerInv, ContentInv, CommittedOK
  <2>2. QED
    BY <1>1, <1>2, <1>8, <2>1
<1> HIDE DEF l2
<1>10. History(wal, l2)
  <2>1. /\ Len(l2) \in Nat /\ Len(log) < Len(l2) /\ wal[q].i = Len(l2)
        /\ commit \in 0..Len(log)
    BY <1>1, <1>2, <1>4, <1>8
  <2>2. QED
    BY <1>1, <1>4, <1>6, <1>7, <1>9, <2>1, HistoryLonger
<1>11. PICK x \in Rec : wal' = Append(wal, x) /\ x.k = "state"
  BY <1>1, AppendOtherIs
<1>12. QED
  BY <1>1, <1>10, <1>11, HistoryAppend DEF l2

\* The other steps keep the log.
LEMMA HistoryStep ==
  ASSUME ServerInv, ServerInv', ServerNext, restarts' = 0, SnapsInv, History(wal, LastLog)
  PROVE  History(wal', LastLog')
<1>1. /\ TypeInv /\ OrderInv /\ Up /\ wal \in Seq(Rec) /\ Len(wal) \in Nat
      /\ DOMAIN wal = 1..Len(wal)
  BY LogStep, WalIs DEF ServerInv
<1>2. CASE \E i \in 1..MaxIndex, e, t \in 1..MaxTerm : AppendEntry(i, e, t)
  <2>1. PICK i \in 1..MaxIndex, e, t \in 1..MaxTerm : AppendEntry(i, e, t)
    BY <1>2
  <2>2. LastLog = log /\ LastLog' = log'
    BY <2>1, LogStep
  <2>3. History(wal, log)
    BY <2>2
  <2>4. QED
    BY <1>1, <2>1, <2>2, <2>3, HistoryAfterEntry
<1>3. CASE ReceiveState
  <2>1. LastLog = log /\ LastLog' = SubSeq(agreed, 1, saving.i)
    BY <1>3, LogStep
  <2>2. History(wal, log)
    BY <2>1
  <2>3. QED
    BY <1>1, <1>3, <2>1, <2>2, HistoryAfterState
<1>4. CASE LastLog' = LastLog /\ ~(\E i \in 1..MaxIndex, e, t \in 1..MaxTerm : AppendEntry(i, e, t))
  <2>1. CASE SaveState \/ SnapRecord \/ ReceiveRecord \/ ReceiveState
    <3>1. PICK x \in Rec : wal' = Append(wal, x) /\ x.k # "entry"
      BY <1>1, <2>1, AppendOtherIs
    <3>2. QED
      BY <1>1, <1>4, <3>1, HistoryAppend
  <2>2. CASE Cut
    <3>1. PICK f \in Rec, y \in Rec :
            f.k = "file" /\ y.k = "state" /\ wal' = Append(Append(wal, f), y)
      BY <1>1, <2>2, CutIs
    <3> DEFINE v == Append(wal, f)
    <3>2. v \in Seq(Rec) /\ History(v, LastLog)
      BY <1>1, <3>1, AppendAt, HistoryAppend
    <3> HIDE DEF v
    <3>3. History(Append(v, y), LastLog)
      BY <3>1, <3>2, HistoryAppend
    <3>4. QED
      BY <1>4, <3>1, <3>3 DEF v
  <2>3. CASE Purge
    <3>1. PICK m \in DOMAIN wal : m > 1 /\ wal[m].k = "file" /\ wal' = SubSeq(wal, m, Len(wal))
      BY <1>1, <2>3, PurgeIs
    <3>2. m + 1 \in DOMAIN wal /\ wal[m + 1].k = "state"
      <4>1. m + 1 <= Synced /\ wal[m + 1].k = "state" /\ Synced \in 0..Len(wal)
        BY <1>1, <3>1, TypeInvIs DEF OrderInv, Ordered, Headed, RecordsOK
      <4>2. QED
        BY <1>1, <3>1, <4>1
    <3>3. History(SubSeq(wal, m, Len(wal)), LastLog)
      BY <1>1, <3>1, <3>2, HistoryPurge
    <3>4. QED
      BY <1>4, <3>1, <3>3
  <2>4. CASE \E lost \in 0..soft : Crash(lost)
    <3>1. PICK n \in 0..Len(wal) :
            wal' = SubSeq(wal, 1, n) /\ \A p \in DOMAIN wal : p > n => wal[p].k = "state"
      BY <1>1, <2>4, CrashIs
    <3>2. History(SubSeq(wal, 1, n), LastLog)
      BY <1>1, <3>1, HistoryLost
    <3>3. QED
      BY <1>4, <3>1, <3>2
  <2>5. CASE wal' = wal
    BY <1>4, <2>5
  <2>6. QED
    BY <1>4, <2>1, <2>2, <2>3, <2>4, <2>5, SameWal
<1>5. QED
  BY <1>2, <1>3, <1>4, LogStep

\* The history begins with the empty log.
LEMMA HistoryInit == DInit => HistoryInv
<1>1. SUFFICES ASSUME DInit PROVE SnapsInv /\ History(wal, LastLog)
  BY DEF HistoryInv
<1>2. /\ wal = <<File(0), Snap(0, 0)>> /\ log = <<>> /\ snaps = {}
  BY <1>1 DEF DInit, WalInit
<1>3. /\ DOMAIN wal = {1, 2} /\ wal[1] = File(0) /\ wal[2] = Snap(0, 0)
  BY <1>2
<1>4. \A p \in DOMAIN wal : wal[p].k # "entry" /\ wal[p].i = 0
  BY <1>3 DEF File, Snap
<1>5. SnapsInv
  BY <1>4 DEF SnapsInv
<1>6. History(wal, LastLog)
  BY <1>4 DEF History, Above, Stepwise, Continued, Current
<1>7. QED
  BY <1>5, <1>6

\* The command changes nothing of it.
LEMMA SameHistory ==
  ASSUME UNCHANGED walVars, HistoryInv
  PROVE  HistoryInv'
<1>1. /\ wal' = wal /\ soft' = soft /\ snaps' = snaps /\ server' = server /\ log' = log
      /\ commit' = commit /\ saving' = saving /\ restarts' = restarts /\ agreed' = agreed
  BY DEF walVars, disk, memory, past
<1>2. LastState(wal)' = LastState(wal)
  BY <1>1 DEF LastState, At
<1>3. Valid' = Valid
  BY <1>1, <1>2 DEF Valid, At
<1>4. StartsFrom' = StartsFrom
  BY <1>3 DEF StartsFrom
<1>5. LastLog' = LastLog
  BY <1>1, <1>4 DEF LastLog
<1>6. \A p : Arriving(p)' <=> Arriving(p)
  BY <1>1 DEF Arriving
<1>7. Durable(wal', Synced', snaps') = Durable(wal, Synced, snaps)
  BY <1>1 DEF Synced
<1>8. SnapsInv' <=> SnapsInv
  <2>1. Up' <=> Up
    BY <1>1 DEF Up
  <2>2. QED
    BY <1>1, <1>6, <1>7, <2>1 DEF SnapsInv
<1>9. QED
  BY <1>1, <1>5, <1>8 DEF HistoryInv

\* The history of a member that has not restarted is kept.
THEOREM KeepsHistory == DSpec => []HistoryInv
<1>1. DInit => HistoryInv
  BY HistoryInit
<1>2. ServerInv /\ ServerInv' /\ HistoryInv /\ [DNext]_dumpVars => HistoryInv'
  <2>1. SUFFICES ASSUME ServerInv, ServerInv', HistoryInv, [DNext]_dumpVars PROVE HistoryInv'
    OBVIOUS
  <2>2. CASE ServerNext
    <3>1. SUFFICES ASSUME restarts' = 0 PROVE (SnapsInv /\ History(wal, LastLog))'
      BY DEF HistoryInv
    <3>2. restarts = 0
      BY <2>1, <2>2, <3>1, LogStep
    <3>3. SnapsInv /\ History(wal, LastLog)
      BY <2>1, <3>2 DEF HistoryInv
    <3>4. SnapsInv' /\ History(wal', LastLog')
      BY <2>1, <2>2, <3>1, <3>3, SnapsStep, HistoryStep
    <3>5. QED
      BY <3>4
  <2>3. CASE UNCHANGED walVars
    BY <2>1, <2>3, SameHistory
  <2>4. QED
    BY <2>1, <2>2, <2>3
      DEF DNext, dumpVars, logCommandFunc, LoadStart, readUsingReadAll, List, readRaw
<1>3. QED
  BY <1>1, <1>2, DInvariant, PTL DEF DSpec

-----------------------------------------------------------------------------
(* What a member that has not restarted has left.                          *)

\* Its log reaches the snapshot that a server would start from, and what is
\* beyond that was in memory.
LEMMA EndedIs ==
  ASSUME ServerInv, HistoryInv, restarts = 0, ~Up
  PROVE  /\ wal \in Seq(Rec) /\ Len(wal) \in Nat /\ DOMAIN wal = 1..Len(wal)
         /\ \A p \in DOMAIN wal : wal[p].i \in Nat
         /\ StartsFrom.i \in Index /\ StartsFrom.i \in Nat /\ Len(LastLog) \in Nat
         /\ StartsFrom.i <= Len(LastLog) /\ Len(log) \in Nat
         /\ StartsFrom.i < Len(LastLog) => LastLog = log
         /\ \A p \in DOMAIN wal : wal[p].k = "snap" =>
              wal[p].i <= StartsFrom.i \/ Len(log) < wal[p].i
         /\ ~revived /\ History(wal, LastLog)
<1>1. /\ TypeInv /\ OrderInv /\ wal \in Seq(Rec) /\ Len(wal) \in Nat /\ DOMAIN wal = 1..Len(wal)
      /\ \A p \in DOMAIN wal : wal[p].i \in Nat
      /\ StartsFrom.i \in Index /\ StartsFrom.i \in Nat /\ StartsFrom.i <= Len(agreed)
      /\ Len(log) \in Nat /\ agreed \in Seq(Terms)
  BY WalIs, StartsFromIs, IndexIs, TypeInvIs, LenProperties DEF ServerInv, MemoryOK
<1>2. Len(SubSeq(agreed, 1, StartsFrom.i)) = StartsFrom.i
  <2>1. StartsFrom.i \in 0..Len(agreed)
    BY <1>1, LenProperties
  <2>2. QED
    BY <1>1, <2>1, PrefixIs
<1>3. /\ Len(LastLog) \in Nat /\ StartsFrom.i <= Len(LastLog)
      /\ StartsFrom.i < Len(LastLog) => LastLog = log
  BY <1>1, <1>2 DEF LastLog
<1>4. ASSUME NEW p \in DOMAIN wal, wal[p].k = "snap"
      PROVE  wal[p].i <= StartsFrom.i \/ Len(log) < wal[p].i
  <2>1. ~Arriving(p)
    BY <1>1 DEF Arriving, OrderInv, Steps
  <2>2. Relevant(StartsFrom.i, wal, Synced, snaps)
    BY <1>1, StartIsRelevant
  <2>3. wal[p].i = 0 \/ wal[p] \in Durable(wal, Synced, snaps) \/ Len(log) < wal[p].i
    BY <1>1, <1>4, <2>1 DEF HistoryInv, SnapsInv
  <2>4. QED
    BY <1>1, <2>2, <2>3 DEF Relevant
<1>5. ~revived /\ History(wal, LastLog)
  BY <1>1 DEF OrderInv, Steps, HistoryInv
<1>6. QED
  BY <1>1, <1>3, <1>4, <1>5

\* What overtakes an index in the history is what the properties speak of.
LEMMA OverIsOvertaken ==
  ASSUME NEW i, NEW p, Over(i, p, wal, LastLog)
  PROVE  Overtaken(i)
  BY DEF Over, Overtaken, At

\* The last one of the entries that are read has the greatest index.
LEMMA LastRead ==
  ASSUME wal \in Seq(Rec), NEW m \in Nat, NEW s \in Nat, NEW x \in Nat, NEW last, NEW es,
         ReadsTo(m, s, x, last, es),
         NEW p \in DOMAIN wal, Later(p, wal, m, s), p < x
  PROVE  \E r \in DOMAIN wal :
           /\ Later(r, wal, m, s) /\ r < x /\ wal[r].i = last
           /\ \A y : Later(y, wal, m, s) /\ y < x => y <= r
<1>1. DOMAIN wal = 1..Len(wal) /\ Len(wal) \in Nat
  BY SeqFacts
<1> DEFINE S == {r \in DOMAIN wal : Later(r, wal, m, s) /\ r < x}
<1>2. S # {} /\ S \in SUBSET (0..Len(wal))
  BY <1>1
<1>3. PICK r \in S : \A y \in S : y <= r
  BY <1>1, <1>2, GreatestExists
<1>4. r \in DOMAIN wal /\ Later(r, wal, m, s) /\ r < x
  BY <1>3
<1>5. \A y : Later(y, wal, m, s) /\ y < x => y <= r
  <2>1. \A y : Later(y, wal, m, s) => y \in DOMAIN wal
    BY DEF Later
  <2>2. QED
    BY <1>3, <2>1
<1> HIDE DEF S
<1>6. wal[r].i = last
  BY <1>4, <1>5 DEF ReadsTo
<1>7. QED
  BY <1>4, <1>5, <1>6

\* After a gap there is no entry which belongs before it.
LEMMA AfterGap ==
  ASSUME wal \in Seq(Rec), Above(wal), Stepwise(wal),
         NEW m \in Nat, NEW s \in Nat, NEW x \in DOMAIN wal, NEW last, NEW es,
         ReadsTo(m, s, x, last, es), Later(x, wal, m, s), wal[x].i > last + 1,
         NEW p \in DOMAIN wal, Later(p, wal, m, s), p < x,
         NEW q \in DOMAIN wal, q >= x, wal[q].k = "entry"
  PROVE  wal[q].i > last
<1>1. DOMAIN wal = 1..Len(wal) /\ Len(wal) \in Nat /\ \A y \in DOMAIN wal : wal[y].i \in Nat
  BY SeqFacts
<1>2. last \in Nat
  BY DEF ReadsTo
<1>3. PICK r \in DOMAIN wal :
        /\ Later(r, wal, m, s) /\ r < x /\ wal[r].i = last
        /\ \A y : Later(y, wal, m, s) /\ y < x => y <= r
  BY LastRead
<1>4. wal[r].k = "entry" /\ wal[x].k = "entry" /\ r > m /\ wal[r].i > s
  BY <1>3 DEF Later
<1>5. PICK y \in DOMAIN wal :
        /\ r < y /\ y < x
        /\ \/ wal[y].k = "entry" /\ wal[y].i = wal[x].i - 1
           \/ wal[y].k = "snap" /\ wal[y].i >= wal[x].i - 1
  BY <1>2, <1>3, <1>4 DEF Stepwise
<1>6. CASE wal[y].k = "entry" /\ wal[y].i = wal[x].i - 1
  <2>1. wal[y].i > last /\ last > s
    BY <1>1, <1>2, <1>3, <1>4, <1>6
  <2>2. wal[y].i > s /\ y > m
    <3>1. r \in Nat /\ y \in Nat /\ wal[y].i \in Nat
      BY <1>1, <1>3
    <3>2. QED
      BY <1>2, <1>4, <1>5, <2>1, <3>1
  <2>3. Later(y, wal, m, s)
    BY <1>6, <2>2 DEF Later
  <2>4. QED
    BY <1>1, <1>3, <1>5, <2>3
<1>7. CASE wal[y].k = "snap" /\ wal[y].i >= wal[x].i - 1
  <2>1. y < q
    BY <1>1, <1>5
  <2>2. wal[y].i < wal[q].i
    BY <1>7, <2>1 DEF Above
  <2>3. QED
    BY <1>1, <1>2, <1>7, <2>2
<1>8. QED
  BY <1>5, <1>6, <1>7

\* What is read is the log, if it starts within it.
LEMMA ReadIsLog ==
  ASSUME ServerInv, HistoryInv, restarts = 0, ~Up,
         NEW start, Readable(start), ReadAll(start).err # "ErrSnapshotMismatch",
         start.i < Len(LastLog), ~Overtaken(start.i + 1),
         NEW n \in DOMAIN ReadAll(start).ents
  PROVE  LET e == ReadAll(start).ents[n]
         IN  e.i <= Len(LastLog) /\ (Overtaken(e.i) \/ e.t = LastLog[e.i])
<1> DEFINE m == SegmentOf(start)
           s == start.i
           es == ReadAll(start).ents
<1>1. /\ wal \in Seq(Rec) /\ Len(wal) \in Nat /\ DOMAIN wal = 1..Len(wal)
      /\ \A p \in DOMAIN wal : wal[p].i \in Nat
      /\ Len(LastLog) \in Nat /\ History(wal, LastLog)
  BY EndedIs
<1>2. m \in Nat /\ s \in Nat
  BY PositionsAre, IndexIs DEF Readable
<1>3. PICK x, last \in Nat :
        /\ ReadsTo(m, s, x, last, es)
        /\ ReadAll(start).err # "ErrSliceOutOfRange" => x = Len(wal) + 1
        /\ ReadAll(start).err = "ErrSliceOutOfRange" => Later(x, wal, m, s) /\ wal[x].i > last + 1
  BY ReadUpTo
<1>4. n \in DOMAIN es /\ s < Len(LastLog) /\ ~Overtaken(s + 1)
  OBVIOUS
<1>5. SUFFICES es[n].i <= Len(LastLog) /\ (Overtaken(es[n].i) \/ es[n].t = LastLog[es[n].i])
  OBVIOUS
<1> HIDE DEF m, s, es
<1>6. n \in 1..(last - s) /\ last >= s /\ x \in (m + 1)..(Len(wal) + 1)
  BY <1>3, <1>4 DEF ReadsTo
<1>7. PICK p \in DOMAIN wal :
        /\ Later(p, wal, m, s) /\ p < x /\ es[n] = wal[p] /\ wal[p].i = s + n
        /\ \A q : Later(q, wal, m, s) /\ q < x /\ wal[q].i <= s + n => q <= p
  BY <1>3, <1>6 DEF ReadsTo
<1>8. wal[p].k = "entry" /\ p > m /\ p \in Nat
  BY <1>1, <1>7 DEF Later
<1>9. ASSUME NEW q \in DOMAIN wal, q > p, wal[q].k = "entry", s < wal[q].i, wal[q].i <= wal[p].i
      PROVE  FALSE
  <2>1. Later(q, wal, m, s)
    BY <1>1, <1>2, <1>8, <1>9 DEF Later
  <2>2. q >= x
    BY <1>1, <1>6, <1>7, <1>9, <2>1
  <2>3. ReadAll(start).err = "ErrSliceOutOfRange"
    BY <1>1, <1>3, <1>9, <2>2
  <2>4. x \in DOMAIN wal /\ Later(x, wal, m, s) /\ wal[x].i > last + 1
    BY <1>3, <2>3 DEF Later
  <2>5. Above(wal) /\ Stepwise(wal)
    BY <1>1 DEF History
  <2>6. wal[q].i > last
    BY <1>1, <1>2, <1>3, <1>7, <1>9, <2>2, <2>4, <2>5, AfterGap
  <2>7. QED
    BY <1>1, <1>2, <1>3, <1>6, <1>7, <1>9, <2>6
<1>10. s \in 0..(wal[p].i - 1)
  BY <1>1, <1>2, <1>6, <1>7
<1>11. \/ wal[p].i <= Len(LastLog) /\ wal[p].t = LastLog[wal[p].i]
       \/ s >= Len(LastLog)
       \/ Over(wal[p].i, p, wal, LastLog) \/ Over(s + 1, p, wal, LastLog)
  BY <1>1, <1>8, <1>9, <1>10 DEF History, Current
<1>12. ~Over(s + 1, p, wal, LastLog)
  BY <1>4, OverIsOvertaken
<1>13. CASE Over(wal[p].i, p, wal, LastLog)
  <2>1. Overtaken(wal[p].i)
    BY <1>13, OverIsOvertaken
  <2>2. PICK q \in DOMAIN wal : wal[q].i >= wal[p].i /\ wal[q].i <= Len(LastLog)
    BY <1>13 DEF Over
  <2>3. wal[p].i <= Len(LastLog)
    BY <1>1, <2>2
  <2>4. QED
    BY <1>7, <2>1, <2>3
<1>14. QED
  BY <1>1, <1>2, <1>4, <1>7, <1>11, <1>12, <1>13

\* The dump of a member that has not restarted is the log it had.
THEOREM ShowsLog == DSpec => [](restarts = 0 => DumpIsLog)
<1>1. ServerInv /\ Entries(wal) /\ DumpInv /\ HistoryInv => (restarts = 0 => DumpIsLog)
  <2>1. SUFFICES ASSUME ServerInv, Entries(wal), DumpInv, HistoryInv, restarts = 0,
                        Listed, First <= Len(LastLog), ~Overtaken(First), NEW n \in DOMAIN ents
                 PROVE  /\ ents[n].i = First + n - 1 /\ ents[n].i <= Bound
                        /\ Overtaken(ents[n].i) \/ ents[n].t = LastLog[ents[n].i]
    BY DEF DumpIsLog
  <2> DEFINE es == ReadAll(walsnap).ents
  <2>2. /\ ~Up /\ walsnap = ReadStart /\ cmd \in Command
    BY <2>1, CommandsAssumption DEF DumpInv, Listed
  <2>3. /\ Readable(walsnap) /\ ReadAll(walsnap).err # "ErrSnapshotMismatch"
        /\ walsnap.i \in Nat /\ \A k \in DOMAIN es : es[k].i = walsnap.i + k
        /\ n \in DOMAIN es /\ ents[n] = es[n] /\ (cmd.end = NoEnd \/ ents[n].i < cmd.end)
        /\ es \in Seq(EntryRec)
    BY <2>1, DumpedIs
  <2>4. n \in Nat /\ walsnap.i \in Nat
    BY <2>3
  <2> HIDE DEF es
  <2>5. First = walsnap.i + 1
    <3>1. CASE cmd.changed /\ cmd.start > 0
      <4>1. walsnap.i = cmd.start - 1 /\ cmd.start \in Nat
        BY <2>2, <3>1 DEF ReadStart, StartSnap, Snap, Command
      <4>2. QED
        BY <3>1, <4>1 DEF First
    <3>2. CASE ~(cmd.changed /\ cmd.start > 0)
      BY <3>2 DEF First
    <3>3. QED
      BY <3>1, <3>2
  <2>6. Len(LastLog) \in Nat
    BY <2>1, <2>2, EndedIs
  <2>7. walsnap.i < Len(LastLog) /\ ~Overtaken(walsnap.i + 1)
    BY <2>1, <2>3, <2>5, <2>6
  <2>8. es[n].i <= Len(LastLog) /\ (Overtaken(es[n].i) \/ es[n].t = LastLog[es[n].i])
    BY <2>1, <2>2, <2>3, <2>7, ReadIsLog DEF es
  <2>9. ents[n].i = First + n - 1
    <3>1. ents[n].i = walsnap.i + n
      BY <2>3
    <3>2. walsnap.i + n = (walsnap.i + 1) + n - 1
      BY <2>4
    <3>3. QED
      BY <2>5, <3>1, <3>2
  <2>10. ents[n].i <= Bound
    <3>1. cmd.end \in Nat \/ cmd.end = NoEnd
      BY <2>2 DEF Command
    <3>2. QED
      BY <2>3, <2>4, <2>8, <3>1 DEF Bound
  <2>11. QED
    BY <2>3, <2>8, <2>9, <2>10
<1>2. QED
  BY <1>1, DInvariant, KeepsHistory, PTL

\* All of the log that no snapshot replaces is read, if there is no gap.
LEMMA AllIsRead ==
  ASSUME ServerInv, HistoryInv, restarts = 0, ~Up,
         NEW m \in DOMAIN wal, wal[m].k = "file", NEW s \in Index, wal[m].i <= s,
         NEW last \in Nat, NEW es, ReadsTo(m, s, Len(wal) + 1, last, es),
         s < Len(LastLog), StartsFrom.i < Len(LastLog)
  PROVE  last >= Len(LastLog)
<1>1. /\ wal \in Seq(Rec) /\ Len(wal) \in Nat /\ DOMAIN wal = 1..Len(wal)
      /\ \A p \in DOMAIN wal : wal[p].i \in Nat
      /\ StartsFrom.i \in Index /\ StartsFrom.i \in Nat /\ Len(log) \in Nat /\ LastLog = log
      /\ ~revived /\ History(wal, LastLog)
      /\ \A p \in DOMAIN wal : wal[p].k = "snap" =>
           wal[p].i <= StartsFrom.i \/ Len(log) < wal[p].i
  BY EndedIs
<1>2. s \in Nat /\ m \in Nat
  BY <1>1, IndexIs
<1> DEFINE z == IF s < StartsFrom.i THEN StartsFrom.i ELSE s
<1>3. z \in Index /\ z \in Nat /\ z >= s /\ z >= StartsFrom.i /\ z < Len(log) /\ wal[m].i <= z
  BY <1>1, <1>2
<1> HIDE DEF z
<1>4. Relevant(z, wal, Synced, snaps)
  <2>1. Relevant(StartsFrom.i, wal, Synced, snaps)
    BY StartIsRelevant DEF ServerInv
  <2>2. \A r \in Durable(wal, Synced, snaps) : r.i \in Nat
    BY TypeInvIs, IndexIs DEF ServerInv, MemoryOK, Durable
  <2>3. QED
    BY <1>1, <1>3, <2>1, <2>2 DEF Relevant
<1>5. EndsWith(Len(log), wal, m, z)
  BY <1>1, <1>3, <1>4 DEF ServerInv, SegmentInv
<1>6. PICK q \in DOMAIN wal : Follows(Len(wal) + 1, q, wal, m, z) /\ wal[q].i = Len(log)
  BY <1>5 DEF EndsWith
<1>7. /\ q > m /\ wal[q].k = "entry"
      /\ \A r \in DOMAIN wal : Later(r, wal, m, z) => r <= q
  BY <1>1, <1>6 DEF Follows, Later
<1>8. Later(q, wal, m, s) /\ q < Len(wal) + 1
  BY <1>1, <1>2, <1>3, <1>6, <1>7 DEF Later
<1>9. PICK r \in DOMAIN wal :
        /\ Later(r, wal, m, s) /\ wal[r].i = last
        /\ \A y : Later(y, wal, m, s) /\ y < Len(wal) + 1 => y <= r
  BY <1>1, <1>2, <1>8, LastRead
<1>10. wal[r].k = "entry" /\ r > m /\ q <= r /\ r \in Nat /\ q \in Nat
  BY <1>1, <1>8, <1>9 DEF Later
<1>11. SUFFICES ASSUME last < Len(log) PROVE FALSE
  BY <1>1
<1>12. PICK y \in DOMAIN wal :
         /\ r < y
         /\ \/ wal[y].k = "entry" /\ wal[y].i = Len(log)
            \/ wal[y].k = "snap" /\ Len(log) <= wal[y].i /\ wal[y].i <= Len(log)
  <2>1. Len(log) \in (wal[r].i + 1)..Len(log)
    BY <1>1, <1>9, <1>11
  <2>2. QED
    BY <1>1, <1>10, <2>1 DEF History, Continued
<1>13. ~(wal[y].k = "entry" /\ wal[y].i = Len(log))
  <2>1. SUFFICES ASSUME wal[y].k = "entry", wal[y].i = Len(log) PROVE FALSE
    OBVIOUS
  <2>2. y > m /\ y < Len(wal) + 1 /\ wal[y].i > s
    BY <1>1, <1>2, <1>3, <1>10, <1>12, <2>1
  <2>3. Later(y, wal, m, s)
    BY <2>1, <2>2 DEF Later
  <2>4. y <= r
    BY <1>9, <2>2, <2>3
  <2>5. QED
    BY <1>1, <1>10, <1>12, <2>4
<1>14. QED
  BY <1>1, <1>3, <1>12, <1>13

\* A dump without a gap has all that is asked for, but for what a snapshot
\* replaces.
THEOREM MissesNothing == DSpec => [](restarts = 0 => NothingIsMissing)
<1>1. ServerInv /\ Entries(wal) /\ DumpInv /\ HistoryInv => (restarts = 0 => NothingIsMissing)
  <2>1. SUFFICES ASSUME ServerInv, Entries(wal), DumpInv, HistoryInv, restarts = 0, Listed,
                        cmd.end = NoEnd \/ ReadAll(walsnap).err # "ErrSliceOutOfRange",
                        NEW i \in First..Len(LastLog), StartsFrom.i < i, i <= Bound
                 PROVE  \E n \in DOMAIN ents : ents[n].i = i
    BY DEF NothingIsMissing
  <2> DEFINE es == ReadAll(walsnap).ents
             m == SegmentOf(walsnap)
  <2>2. /\ ~Up /\ walsnap = ReadStart /\ cmd \in Command /\ WalReads
    BY <2>1, CommandsAssumption DEF DumpInv, Listed
  <2>3. /\ Readable(walsnap) /\ ReadAll(walsnap).err # "ErrSnapshotMismatch"
        /\ walsnap.i \in Nat /\ \A k \in DOMAIN es : es[k].i = walsnap.i + k
        /\ \A n \in DOMAIN ents : ents[n] = es[n]
        /\ \A n \in DOMAIN es : cmd.end = NoEnd \/ es[n].i < cmd.end => n \in DOMAIN ents
    BY <2>1, DumpedIs
  <2>4. ReadAll(walsnap).err # "ErrSliceOutOfRange"
    BY <2>1, <2>2 DEF WalReads, Tolerates
  <2>5. /\ m \in 1..Len(wal) /\ wal[m].k = "file" /\ wal[m].i <= walsnap.i
    BY <2>3, PositionsAre
  <2>6. PICK last \in Nat : ReadsTo(m, walsnap.i, Len(wal) + 1, last, es)
    BY <2>3, <2>4, ReadUpTo
  <2> HIDE DEF es, m
  <2>7. First = walsnap.i + 1
    <3>1. CASE cmd.changed /\ cmd.start > 0
      <4>1. walsnap.i = cmd.start - 1 /\ cmd.start \in Nat
        BY <2>2, <3>1 DEF ReadStart, StartSnap, Snap, Command
      <4>2. QED
        BY <3>1, <4>1 DEF First
    <3>2. CASE ~(cmd.changed /\ cmd.start > 0)
      BY <3>2 DEF First
    <3>3. QED
      BY <3>1, <3>2
  <2>8. Len(LastLog) \in Nat /\ StartsFrom.i \in Nat /\ DOMAIN wal = 1..Len(wal)
    BY <2>1, <2>2, EndedIs
  <2>9. i \in Nat /\ walsnap.i < i /\ i <= Len(LastLog)
    BY <2>1, <2>3, <2>7, <2>8
  <2>10. walsnap.i < Len(LastLog) /\ StartsFrom.i < Len(LastLog) /\ walsnap.i \in Index
    BY <2>1, <2>3, <2>8, <2>9 DEF Readable
  <2>11. last >= Len(LastLog)
    BY <2>1, <2>2, <2>5, <2>6, <2>8, <2>10, AllIsRead
  <2>12. i - walsnap.i \in DOMAIN es
    <3>1. DOMAIN es = 1..(last - walsnap.i)
      BY <2>6 DEF ReadsTo
    <3>2. i - walsnap.i \in 1..(last - walsnap.i)
      BY <2>3, <2>8, <2>9, <2>11
    <3>3. QED
      BY <3>1, <3>2
  <2>13. es[i - walsnap.i].i = i
    BY <2>3, <2>9, <2>12
  <2>14. cmd.end = NoEnd \/ i < cmd.end
    <3>1. cmd.end \in Nat \/ cmd.end = NoEnd
      BY <2>2 DEF Command
    <3>2. QED
      BY <2>1, <2>9, <3>1 DEF Bound
  <2>15. i - walsnap.i \in DOMAIN ents /\ ents[i - walsnap.i].i = i
    BY <2>3, <2>12, <2>13, <2>14
  <2>16. QED
    BY <2>15
<1>2. QED
  BY <1>1, DInvariant, KeepsHistory, PTL

\* The WAL has all of the log that no snapshot replaces.
LEMMA AllIsWritten ==
  ASSUME ServerInv, HistoryInv, restarts = 0, ~Up,
         NEW i \in 1..Len(LastLog), StartsFrom.i < i
  PROVE  \E p \in DOMAIN wal : wal[p].k = "entry" /\ wal[p].i = i
<1> DEFINE m == SegmentOf(StartsFrom)
           s == StartsFrom.i
           es == ReadAll(StartsFrom).ents
<1>1. /\ TypeInv /\ OrderInv /\ wal \in Seq(Rec) /\ DOMAIN wal = 1..Len(wal)
      /\ \A p \in DOMAIN wal : wal[p].i \in Nat
      /\ s \in Index /\ s \in Nat /\ Len(LastLog) \in Nat /\ ~revived
  BY EndedIs DEF ServerInv
<1>2. Relevant(s, wal, Synced, snaps)
  BY <1>1, StartIsRelevant
<1>3. Readable(StartsFrom)
  <2>1. wal[1].k = "file" /\ 1 \in DOMAIN wal
    BY <1>1, WalIs DEF TypeInv, WalTypeOK
  <2>2. wal[1].i <= s
    <3>1. CASE wal[1].i = 0
      BY <1>1, <3>1
    <3>2. CASE wal[1].i # 0
      <4>1. PICK r \in Durable(wal, Synced, snaps) : wal[1].i <= r.i
        BY <3>2 DEF ServerInv, ReleaseInv
      <4>2. r.i <= s /\ r.i \in Nat
        BY <1>1, <1>2, <4>1, TypeInvIs, IndexIs DEF Relevant, Durable, MemoryOK
      <4>3. QED
        BY <1>1, <2>1, <4>1, <4>2
    <3>3. QED
      BY <3>1, <3>2
  <2>3. 1 \in Segments(StartsFrom)
    BY <2>1, <2>2 DEF Segments, At
  <2>4. QED
    BY <1>1, <2>3 DEF Readable, ErrFileNotFound
<1>4. m \in DOMAIN wal /\ wal[m].k = "file" /\ wal[m].i <= s
  BY <1>1, <1>3, PositionsAre
<1>5. GapFree(wal, m, s)
  BY <1>1, <1>2, <1>4 DEF ServerInv, SegmentInv
<1>6. ReadAll(StartsFrom).err # "ErrSliceOutOfRange"
  BY <1>3, <1>5, NoGapNoError
<1>7. ReadAll(StartsFrom).err # "ErrSnapshotMismatch"
  <2>1. SUFFICES ASSUME NEW p \in m..Len(wal), wal[p].k = "snap", wal[p].i = s,
                        wal[p].t # StartsFrom.t
                 PROVE  FALSE
    BY <1>3, ErrorsAre
  <2>2. p \in DOMAIN wal
    BY <1>1, <1>4, <2>1
  <2>3. wal[p].t = IF s = 0 THEN 0 ELSE agreed[s]
    BY <2>1, <2>2 DEF ServerInv, ContentInv, MarksOK
  <2>4. CASE StartsFrom = Snap(0, 0)
    BY <2>1, <2>3, <2>4 DEF Snap
  <2>5. CASE StartsFrom \in snaps
    BY <1>1, <2>1, <2>3, <2>5 DEF ServerInv, ContentInv, MarksOK
  <2>6. QED
    BY <1>1, <2>4, <2>5, StartsFromIs
<1>8. PICK last \in Nat : ReadsTo(m, s, Len(wal) + 1, last, es)
  BY <1>3, <1>6, <1>7, ReadUpTo
<1> HIDE DEF m, es
<1>9. last >= Len(LastLog)
  <2>1. s < Len(LastLog)
    BY <1>1
  <2>2. QED
    BY <1>1, <1>4, <1>8, <2>1, AllIsRead
<1>10. i - s \in 1..(last - s)
  BY <1>1, <1>9
<1>11. PICK p \in DOMAIN wal : Later(p, wal, m, s) /\ wal[p].i = s + (i - s)
  BY <1>8, <1>10 DEF ReadsTo
<1>12. QED
  BY <1>1, <1>11 DEF Later

\* The raw form shows the log, too: the last record of each index is the entry
\* of the log, and none is missing that is not in a snapshot.
THEOREM RawIsLog == DSpec => [](restarts = 0 => RawShowsLog)
<1>1. ServerInv /\ Entries(wal) /\ DumpInv /\ HistoryInv => (restarts = 0 => RawShowsLog)
  <2>1. SUFFICES ASSUME ServerInv, DumpInv, HistoryInv, restarts = 0, pc = "done", cmd.raw,
                        NEW i \in DOMAIN LastLog, cmd.start <= i
                 PROVE  LET shown == {n \in DOMAIN out : out[n].k = "entry" /\ out[n].i = i}
                        IN  /\ shown # {} => Overtaken(i) \/ out[Max(shown)].t = LastLog[i]
                            /\ i > StartsFrom.i => shown # {}
    BY DEF RawShowsLog
  <2> DEFINE shown == {n \in DOMAIN out : out[n].k = "entry" /\ out[n].i = i}
             P == {n \in DOMAIN wal : PrintsRec(wal[n])}
             c == Cardinality(P)
             f == Place(P)
  <2>2. /\ ~Up /\ out = Pick(wal, P) /\ cmd \in Command
    BY <2>1, CommandsAssumption DEF DumpInv, Raw
  <2>3. /\ wal \in Seq(Rec) /\ Len(wal) \in Nat /\ DOMAIN wal = 1..Len(wal)
        /\ \A p \in DOMAIN wal : wal[p].i \in Nat
        /\ Len(LastLog) \in Nat /\ History(wal, LastLog) /\ StartsFrom.i \in Nat
    BY <2>1, <2>2, EndedIs
  <2>4. i \in 1..Len(LastLog)
    <3>1. log \in Seq(Terms) /\ agreed \in Seq(Terms) /\ StartsFrom.i \in 0..Len(agreed)
      BY <2>1, <2>3, TypeInvIs, StartsFromIs, LenProperties DEF ServerInv, MemoryOK
    <3>2. LastLog \in Seq(Terms)
      BY <3>1, PrefixIs DEF LastLog
    <3>3. QED
      BY <3>2
  <2>5. P \in SUBSET (1..Len(wal))
    BY <2>3
  <2>6. \A p \in DOMAIN wal : wal[p].k = "entry" /\ wal[p].i = i => p \in P
    BY <2>1 DEF PrintsRec
  <2>7. P \subseteq DOMAIN wal
    OBVIOUS
  <2> HIDE DEF P
  <2>8. /\ c \in Nat /\ f \in [1..c -> P]
        /\ \A a, b \in 1..c : a < b => f[a] < f[b]
        /\ \A p \in P : \E n \in 1..c : f[n] = p
    BY <2>3, <2>5, PlaceIs
  <2>9. out = [n \in 1..c |-> wal[f[n]]]
    BY <2>2, PickAt
  <2> HIDE DEF c, f
  <2>10. DOMAIN out = 1..c /\ \A n \in 1..c : out[n] = wal[f[n]] /\ f[n] \in DOMAIN wal
    BY <2>7, <2>8, <2>9
  <2>11. \A p \in DOMAIN wal :
           wal[p].k = "entry" /\ wal[p].i = i => \E n \in shown : f[n] = p
    BY <2>6, <2>8, <2>10
  <2>12. ASSUME shown # {} PROVE Overtaken(i) \/ out[Max(shown)].t = LastLog[i]
    <3> DEFINE n == Max(shown)
               p == f[n]
    <3>1. shown \in SUBSET (0..c)
      BY <2>8, <2>10
    <3>2. \A k \in shown : k \in 1..c /\ out[k].k = "entry" /\ out[k].i = i
      BY <2>10
    <3> HIDE DEF shown
    <3>3. n \in shown /\ \A k \in shown : k <= n
      BY <2>8, <2>12, <3>1, MaxIsGreatest
    <3> HIDE DEF n
    <3>4. n \in 1..c /\ p \in DOMAIN wal /\ out[n] = wal[p] /\ wal[p].k = "entry" /\ wal[p].i = i
      BY <2>10, <3>2, <3>3
    <3>5. ASSUME NEW q \in DOMAIN wal, q > p, wal[q].k = "entry", wal[q].i = i
          PROVE  FALSE
      <4>1. PICK k \in shown : f[k] = q
        BY <2>11, <3>5
      <4>2. k \in 1..c /\ k <= n
        BY <3>2, <3>3, <4>1
      <4>3. k = n \/ f[k] < f[n]
        BY <2>8, <3>4, <4>2
      <4>4. QED
        BY <2>3, <3>4, <3>5, <4>1, <4>3
    <3> HIDE DEF p
    <3>6. \A q \in DOMAIN wal : q > p /\ wal[q].k = "entry" =>
            ~(i - 1 < wal[q].i /\ wal[q].i <= wal[p].i)
      BY <2>3, <2>4, <3>4, <3>5
    <3>7. i - 1 \in 0..(wal[p].i - 1)
      BY <2>4, <3>4
    <3>8. \/ wal[p].i <= Len(LastLog) /\ wal[p].t = LastLog[wal[p].i]
          \/ i - 1 >= Len(LastLog)
          \/ Over(wal[p].i, p, wal, LastLog) \/ Over((i - 1) + 1, p, wal, LastLog)
      BY <2>3, <3>4, <3>6, <3>7 DEF History, Current
    <3>9. (i - 1) + 1 = i /\ ~(i - 1 >= Len(LastLog))
      BY <2>3, <2>4
    <3>10. Over(i, p, wal, LastLog) => Overtaken(i)
      BY OverIsOvertaken
    <3>11. QED
      BY <3>4, <3>8, <3>9, <3>10 DEF n
  <2>13. ASSUME i > StartsFrom.i PROVE shown # {}
    <3>1. StartsFrom.i < i
      BY <2>3, <2>4, <2>13
    <3>2. PICK p \in DOMAIN wal : wal[p].k = "entry" /\ wal[p].i = i
      BY <2>1, <2>2, <2>4, <3>1, AllIsWritten
    <3>3. QED
      BY <2>11, <3>2
  <2>14. QED
    BY <2>12, <2>13
<1>2. QED
  BY <1>1, DInvariant, KeepsHistory, PTL
=============================================================================
