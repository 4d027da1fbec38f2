------------------------- MODULE CommitIndex_proofs --------------------------
(***************************************************************************)
(* Proofs about the command commit-index on whatever a server that was     *)
(* stopped or has crashed at any point has left on its disk, for every     *)
(* value of the bounds.                                                    *)
(***************************************************************************)
EXTENDS CommitIndex, FiniteSetTheorems, SequenceTheorems, WellFoundedInduction, TLAPS

-----------------------------------------------------------------------------
(* The inductive invariant: five layers about the server, one about the command. *)

Rec == [k : {"file", "entry", "state", "snap"}, i : 0..(MaxIndex + 1), t : Terms]
Synced == Len(wal) - soft

\* Types and bounds: what is saved or committed is agreed on.
TypeInv ==
  /\ WalTypeOK /\ Len(wal) >= 1
  /\ \A p \in DOMAIN wal : wal[p].k # "file" => wal[p].i <= MaxIndex
  /\ \A p \in DOMAIN wal : wal[p].k \in {"state", "snap"} => wal[p].i <= Len(agreed)
  /\ \A p \in DOMAIN wal : p > Synced => wal[p].k = "state"
  /\ \A r \in snaps : r.i <= Len(agreed)
  /\ Len(log) <= MaxIndex /\ Len(agreed) <= MaxIndex
  /\ applied <= commit /\ commit <= Len(log)
  /\ commit <= Len(agreed) /\ db <= Len(agreed) /\ saving.i <= Len(agreed)

\* Record r is in the WAL w.
In(r, w) == \E p \in DOMAIN w : w[p] = r
\* It is in the last segment.
InLast(r, w) ==
  \E p \in DOMAIN w : w[p] = r /\ \A m \in DOMAIN w : w[m].k = "file" => m < p
\* One of the first n records of w says that index i is committed.
Reached(i, w, n) == \E p \in DOMAIN w : p <= n /\ w[p].k = "state" /\ i <= w[p].i

\* The order of the records: HardStates grow,
Monotone(w) ==
  \A p, q \in DOMAIN w :
    p < q /\ w[p].k = "state" /\ w[q].k = "state" => w[p].i <= w[q].i
\* A segment begins with a HardState that is synced.
Headed(w, n) ==
  \A m \in DOMAIN w : w[m].k = "file" /\ (m > 1 \/ w[m].i > 0) =>
    w[m].i >= 1 /\ m + 1 <= n /\ w[m + 1].k = "state"
SnapsBelow(w) ==
  \A p, m \in DOMAIN w : p < m /\ w[p].k = "snap" /\ w[m].k = "file" => w[p].i < w[m].i
FromStart(w) == w[1].i = 0 => Len(w) >= 2 /\ w[2] = Snap(0, 0)
Ordered(w, n) == Monotone(w) /\ Headed(w, n) /\ SnapsBelow(w) /\ FromStart(w)

Steps ==
  /\ Up /\ saving.step \in {"idle", "local", "file", "record"} => Saved.i <= commit
  /\ saving.step # "idle" => Up /\ Snap(saving.i, saving.t) \in snaps
  /\ saving.step = "local" => saving.i <= Saved.i
  /\ saving.step \in {"file", "record", "state"} => Len(log) < saving.i
  /\ saving.step \in {"record", "state"} => InLast(Snap(saving.i, saving.t), wal)
  /\ saving.step = "state" => Saved.i = saving.i /\ soft = 0
  /\ ~Up => soft = 0
  /\ server = "stopped" => commit = Saved.i
  /\ restarts = 0 => ~revived
  /\ restarts = 0 /\ server # "crashed" => db <= commit

\* The order of the records, and what is on disk while a snapshot is saved.
OrderInv == Ordered(wal, Synced) /\ Steps

\* The snapshots that are sure to survive a crash, of a WAL w of which n
\* records are synced.
Durable(w, n, files) == {r \in files : In(r, w) /\ Reached(r.i, w, n)}
\* The server and the command start from the newest of them, or from a later one.
Relevant(s, w, n, files) == s \in Index /\ \A r \in Durable(w, n, files) : r.i <= s

\* Only what a durable snapshot stands for is released and purged.
ReleaseInv ==
  /\ released <= 1 \/ \E r \in Durable(wal, Synced, snaps) : released <= r.i + 1
  /\ wal[1].i = 0 \/ \E r \in Durable(wal, Synced, snaps) : wal[1].i <= r.i

\* Record p is an entry above s that is read from the segment at m on.
Later(p, w, m, s) == p \in DOMAIN w /\ p > m /\ w[p].k = "entry" /\ w[p].i > s
Follows(p, q, w, m, s) ==
  /\ Later(q, w, m, s) /\ q < p
  /\ \A r \in DOMAIN w : Later(r, w, m, s) => r <= q \/ r >= p
GapFree(w, m, s) ==
  \A p \in DOMAIN w : Later(p, w, m, s) /\ w[p].i > s + 1 =>
    \E q \in DOMAIN w : Follows(p, q, w, m, s) /\ w[p].i <= w[q].i + 1
\* What is read from there ends with index n.
EndsWith(n, w, m, s) ==
  \E q \in DOMAIN w : Follows(Len(w) + 1, q, w, m, s) /\ w[q].i = n

\* Wherever the WAL may be read from, it gives the log without a gap.
SegmentInv ==
  ~revived =>
    \A s \in Index, m \in DOMAIN wal :
      wal[m].k = "file" /\ wal[m].i <= s /\ Relevant(s, wal, Synced, snaps) =>
        GapFree(wal, m, s) /\ (Len(log) > s => EndsWith(Len(log), wal, m, s))

\* Record p is the last entry of its index.
Latest(p, w) ==
  /\ w[p].k = "entry"
  /\ \A q \in DOMAIN w : w[q].k = "entry" /\ w[q].i = w[p].i => q <= p

\* The last entries of w above s have the terms of the log l.
LatestAgree(w, l, s) ==
  \A p \in DOMAIN w : Latest(p, w) /\ s < w[p].i /\ w[p].i <= Len(l) => w[p].t = l[w[p].i]

\* The log is agreed on up to the commit index,
CommittedOK == \A k \in 1..commit : log[k] = agreed[k]
\* and so are the snapshots, on the way, saved and recorded.
MarksOK ==
  /\ saving.step # "idle" => saving.i >= 1 /\ saving.t = agreed[saving.i]
  /\ \A r \in snaps : r.i >= 1 /\ r.t = agreed[r.i]
  /\ \A p \in DOMAIN wal : wal[p].k = "snap" =>
       IF wal[p].i = 0 THEN wal[p].t = 0 ELSE wal[p].t = agreed[wal[p].i]
\* Above s the log reaches the saved commit index, is agreed on up to there,
\* and has the terms of the last entries.
LogOK(s) ==
  /\ Saved.i <= s \/ Saved.i <= Len(log)
  /\ \A k \in 1..Len(log) : s < k /\ k <= Saved.i => log[k] = agreed[k]
  /\ LatestAgree(wal, log, s)

\* The terms of the log, of the WAL and of the snapshots are the agreed ones as
\* far as they are committed.
ContentInv ==
  /\ CommittedOK /\ MarksOK
  /\ \A s \in Index : Relevant(s, wal, Synced, snaps) => LogOK(s)

\* The command: what it has read of a server that is not running.
CommandInv ==
  /\ TypeOK
  /\ pc # "idle" => ~Up
  /\ pc = "read" => walsnap = Loaded
  /\ pc \in {"db", "done"} =>
       /\ commitIndex <= Len(agreed)
       /\ ~revived => commitIndex = Saved.i
  /\ pc = "done" => result = Answer
  /\ FailsOnlyOnOrphan

-----------------------------------------------------------------------------
(* ReadAll, part by part. *)

Recs(start) == SubSeq(wal, Max(Segments(start)), Len(wal))
LaterIn(start) == {p \in At(Recs(start), "entry") : Recs(start)[p].i > start.i}
Before(start, p) == {q \in LaterIn(start) : q < p}
EndAt(start, p) ==
  IF Before(start, p) = {} THEN start.i ELSE Recs(start)[Max(Before(start, p))].i
Gaps(start) == {p \in LaterIn(start) : Recs(start)[p].i > EndAt(start, p) + 1}
Matches(start) == {p \in At(Recs(start), "snap") : Recs(start)[p].i = start.i}
Mismatches(start) == {p \in Matches(start) : Recs(start)[p].t # start.t}
Stops(start) == Gaps(start) \cup Mismatches(start)
StopAt(start) == IF Stops(start) = {} THEN Len(Recs(start)) + 1 ELSE Min(Stops(start))
EntryAt(start, i) ==
  Recs(start)[Max({p \in Before(start, StopAt(start)) : Recs(start)[p].i = i})]
ErrOf(start) ==
  IF StopAt(start) \in Gaps(start) THEN "ErrSliceOutOfRange"
  ELSE IF StopAt(start) \in Mismatches(start) THEN "ErrSnapshotMismatch"
  ELSE IF Matches(start) = {} THEN "ErrSnapshotNotFound" ELSE "nil"

\* ReadAll is made of these parts.
LEMMA ReadAllIs ==
  ASSUME NEW start
  PROVE  /\ ReadAll(start).err = ErrOf(start)
         /\ ErrOf(start) # "ErrSnapshotMismatch" =>
              /\ ReadAll(start).state = LastState(SubSeq(Recs(start), 1, StopAt(start) - 1))
              /\ ReadAll(start).ents =
                   [n \in 1..(EndAt(start, StopAt(start)) - start.i) |->
                      EntryAt(start, start.i + n)]
<1>1. ReadAll(start) =
        IF ErrOf(start) = "ErrSnapshotMismatch"
        THEN [err |-> ErrOf(start), state |-> State(0, 0), ents |-> <<>>]
        ELSE [err |-> ErrOf(start),
              state |-> LastState(SubSeq(Recs(start), 1, StopAt(start) - 1)),
              ents |-> [n \in 1..(EndAt(start, StopAt(start)) - start.i) |->
                          EntryAt(start, start.i + n)]]
  BY Zenon DEF ReadAll, ErrOf, EntryAt, StopAt, Stops, Mismatches, Matches, Gaps, EndAt, Before,
               LaterIn, Recs
<1>2. QED
  BY <1>1

-----------------------------------------------------------------------------
(* Numbers, sequences and the reading operators.                           *)

\* A set of natural numbers that is not empty has a least element.
LEMMA MinIsLeast ==
  ASSUME NEW S \in SUBSET Nat, S # {}
  PROVE  Min(S) \in S /\ \A y \in S : Min(S) <= y
<1> DEFINE Less == {ss \in Nat \X Nat : ss[1] < ss[2]}
<1>1. IsWellFoundedOn(Less, Nat)
  BY NatLessThanWellFounded, Zenon DEF OpToRel
<1>2. PICK x \in S : \A y \in S : ~(<<y, x>> \in Less)
  BY <1>1, WFMin, Zenon
<1>3. \A y, z \in Nat : y < z => <<y, z>> \in Less
  OBVIOUS
<1> HIDE DEF Less
<1>4. \A y \in S : ~(y < x)
  BY <1>2, <1>3
<1>5. \A y \in S : x <= y
  BY <1>4
<1>6. QED
  BY <1>5 DEF Min

\* One with an upper bound has a greatest element.
LEMMA MaxIsGreatest ==
  ASSUME NEW n \in Nat, NEW S \in SUBSET (0..n), S # {}
  PROVE  Max(S) \in S /\ \A y \in S : y <= Max(S)
<1> DEFINE Bounds == {b \in Nat : \A y \in S : y <= b}
<1>1. n \in Bounds
  OBVIOUS
<1>2. Min(Bounds) \in Bounds /\ \A b \in Bounds : Min(Bounds) <= b
  BY <1>1, MinIsLeast, Zenon
<1> DEFINE least == Min(Bounds)
<1> HIDE DEF least
<1>2a. least \in Nat /\ (\A y \in S : y <= least) /\ \A b \in Bounds : least <= b
  BY <1>2 DEF least
<1>3. \E x \in S : x >= least
  <2>1. SUFFICES ASSUME \A x \in S : x < least PROVE FALSE
    BY <1>2a
  <2>2. PICK x \in S : TRUE
    OBVIOUS
  <2>3. least - 1 \in Bounds
    BY <1>2a, <2>1, <2>2
  <2>4. QED
    BY <1>2a, <2>3
<1>4. PICK x \in S : x >= least
  BY <1>3
<1>5. \A y \in S : x >= y
  BY <1>2a, <1>4
<1>6. QED
  BY <1>5 DEF Max

\* In other words:
LEMMA GreatestExists ==
  \A n \in Nat : \A S \in SUBSET (0..n) : S # {} => \E x \in S : \A y \in S : y <= x
<1>1. SUFFICES ASSUME NEW n \in Nat, NEW S \in SUBSET (0..n), S # {}
               PROVE  \E x \in S : \A y \in S : y <= x
  OBVIOUS
<1>2. Max(S) \in S /\ \A y \in S : y <= Max(S)
  BY <1>1, MaxIsGreatest
<1>3. QED
  BY <1>2

\* Append, as a function.
LEMMA AppendIs ==
  ASSUME NEW S, NEW w \in Seq(S), NEW x \in S
  PROVE  /\ Append(w, x) \in Seq(S) /\ Len(Append(w, x)) = Len(w) + 1
         /\ \A p \in 1..Len(w) : Append(w, x)[p] = w[p]
         /\ Append(w, x)[Len(w) + 1] = x
  OBVIOUS

\* What is left of a sequence without its beginning.
LEMMA SuffixIs ==
  ASSUME NEW S, NEW w \in Seq(S), NEW m \in 1..Len(w)
  PROVE  /\ SubSeq(w, m, Len(w)) \in Seq(S)
         /\ Len(SubSeq(w, m, Len(w))) = Len(w) - m + 1
         /\ \A p \in 1..(Len(w) - m + 1) : SubSeq(w, m, Len(w))[p] = w[m + p - 1]
  OBVIOUS

\* And without its end.
LEMMA PrefixIs ==
  ASSUME NEW S, NEW w \in Seq(S), NEW n \in 0..Len(w)
  PROVE  /\ SubSeq(w, 1, n) \in Seq(S) /\ Len(SubSeq(w, 1, n)) = n
         /\ \A p \in 1..n : SubSeq(w, 1, n)[p] = w[p]
  OBVIOUS

\* A record of a sequence.
LEMMA RecIs ==
  ASSUME NEW w \in Seq(Rec), NEW p \in 1..Len(w)
  PROVE  /\ w[p] \in Rec /\ w[p].k \in {"file", "entry", "state", "snap"}
         /\ w[p].i \in 0..(MaxIndex + 1) /\ w[p].i \in Nat /\ w[p].t \in Terms
<1>1. w[p] \in Rec
  OBVIOUS
<1>2. MaxIndex \in Nat
  BY BoundsAssumption
<1>3. QED
  BY <1>1, <1>2 DEF Rec

\* The positions of the records of a kind.
LEMMA AtIs ==
  ASSUME NEW w \in Seq(Rec), NEW k
  PROVE  At(w, k) \in SUBSET (1..Len(w)) /\ At(w, k) \in SUBSET (0..Len(w))
  BY DEF At

\* The last HardState of some records: the one at the last position.
LEMMA LastStateIs ==
  ASSUME NEW w \in Seq(Rec)
  PROVE  /\ At(w, "state") = {} => LastState(w) = State(0, 0)
         /\ \A p \in At(w, "state") :
              (\A q \in At(w, "state") : q <= p) => LastState(w) = w[p]
         /\ At(w, "state") # {} => \E p \in At(w, "state") :
              LastState(w) = w[p] /\ \A q \in At(w, "state") : q <= p
<1>1. At(w, "state") # {} =>
        /\ Max(At(w, "state")) \in At(w, "state")
        /\ \A q \in At(w, "state") : q <= Max(At(w, "state"))
  BY AtIs, MaxIsGreatest, LenProperties
<1>2. \A p \in At(w, "state") : (\A q \in At(w, "state") : q <= p) => Max(At(w, "state")) = p
  BY <1>1, AtIs
<1>3. QED
  BY <1>1, <1>2 DEF LastState

\* The newest of some snapshots is one of them, and no other has a greater index.
LEMMA NewestIs ==
  ASSUME NEW files, files # {}, \A r \in files : r.i \in Index /\ r.t \in Terms
  PROVE  Newest(files) \in files /\ \A r \in files : r.i <= Newest(files).i
<1>0. MaxIndex \in Nat /\ MaxTerm \in Nat
  BY BoundsAssumption
<1>1. \A r \in files : r.i \in Index /\ r.t \in Terms
  OBVIOUS
<1>2. \A S \in SUBSET (0..MaxIndex) : S # {} => \E x \in S : \A y \in S : y <= x
  BY <1>0, GreatestExists
<1>3. PICK a \in files : \A r \in files : r.i <= a.i
  <2>1. {r.i : r \in files} \in SUBSET (0..MaxIndex) /\ {r.i : r \in files} # {}
    BY <1>1 DEF Index
  <2>2. PICK x \in {r.i : r \in files} : \A y \in {r.i : r \in files} : y <= x
    BY <1>2, <2>1, Zenon
  <2>3. QED
    BY <2>2
<1>4. \A S \in SUBSET (0..MaxTerm) : S # {} => \E x \in S : \A y \in S : y <= x
  BY <1>0, GreatestExists
<1>5. PICK b \in files : b.i = a.i /\ \A r \in files : r.i = a.i => r.t <= b.t
  <2> DEFINE same == {r \in files : r.i = a.i}
  <2>1. {r.t : r \in same} \in SUBSET (0..MaxTerm) /\ {r.t : r \in same} # {}
    BY <1>1 DEF Terms
  <2>2. PICK x \in {r.t : r \in same} : \A y \in {r.t : r \in same} : y <= x
    BY <1>4, <2>1, Zenon
  <2>3. QED
    BY <2>2
<1>6. \A r \in files : b.i > r.i \/ (b.i = r.i /\ b.t >= r.t)
  BY <1>0, <1>1, <1>3, <1>5 DEF Index, Terms
<1>7. /\ Newest(files) \in files
      /\ \A r \in files : Newest(files).i > r.i \/ (Newest(files).i = r.i /\ Newest(files).t >= r.t)
  <2> DEFINE best(x) == \A r \in files : x.i > r.i \/ (x.i = r.i /\ x.t >= r.t)
  <2>1. \E x \in files : best(x)
    BY <1>6
  <2>2. Newest(files) = CHOOSE x \in files : best(x)
    BY Zenon DEF Newest
  <2> HIDE DEF best
  <2>3. Newest(files) \in files /\ best(Newest(files))
    BY <2>1, <2>2, Zenon
  <2>4. QED
    BY <2>3 DEF best
<1>8. QED
  BY <1>0, <1>1, <1>7 DEF Index

\* What is read begins with the last segment that is not above the start.
LEMMA RecsIs ==
  ASSUME wal \in Seq(Rec), NEW start, start.i \in Index, ~ErrFileNotFound(start)
  PROVE  \E m \in 1..Len(wal) :
           /\ m = Max(Segments(start)) /\ wal[m].k = "file" /\ wal[m].i <= start.i
           /\ Recs(start) = SubSeq(wal, m, Len(wal)) /\ Recs(start) \in Seq(Rec)
           /\ Len(Recs(start)) = Len(wal) - m + 1
           /\ \A p \in 1..(Len(wal) - m + 1) : Recs(start)[p] = wal[m + p - 1]
<1>1. Segments(start) \in SUBSET (0..Len(wal)) /\ Segments(start) \in SUBSET (1..Len(wal))
  BY AtIs DEF Segments
<1>2. Max(Segments(start)) \in Segments(start)
  BY <1>1, MaxIsGreatest, LenProperties DEF ErrFileNotFound
<1> DEFINE m == Max(Segments(start))
<1>3. m \in 1..Len(wal) /\ wal[m].k = "file" /\ wal[m].i <= start.i
  BY <1>1, <1>2 DEF Segments, At
<1>4. Recs(start) = SubSeq(wal, m, Len(wal))
  BY DEF Recs
<1> HIDE DEF m
<1>5. /\ Recs(start) \in Seq(Rec) /\ Len(Recs(start)) = Len(wal) - m + 1
      /\ \A p \in 1..(Len(wal) - m + 1) : Recs(start)[p] = wal[m + p - 1]
  BY <1>3, <1>4, SuffixIs
<1>6. QED
  BY <1>3, <1>4, <1>5 DEF m

\* The entries that are read before a position, and the index of the last one.
LEMMA EndAtIs ==
  ASSUME NEW start, Recs(start) \in Seq(Rec), NEW p \in Nat
  PROVE  /\ LaterIn(start) \in SUBSET (1..Len(Recs(start)))
         /\ Before(start, p) = {} => EndAt(start, p) = start.i
         /\ Before(start, p) # {} => \E q \in Before(start, p) :
              EndAt(start, p) = Recs(start)[q].i /\ \A r \in Before(start, p) : r <= q
<1>1. /\ LaterIn(start) \in SUBSET (1..Len(Recs(start)))
      /\ Before(start, p) \in SUBSET (0..Len(Recs(start)))
  BY AtIs DEF LaterIn, Before
<1>2. Before(start, p) # {} =>
        /\ Max(Before(start, p)) \in Before(start, p)
        /\ \A r \in Before(start, p) : r <= Max(Before(start, p))
  BY <1>1, MaxIsGreatest, LenProperties
<1>3. QED
  BY <1>1, <1>2 DEF EndAt

\* Reading stops at a gap, at a record of another term, or at the end.
LEMMA StopAtIs ==
  ASSUME NEW start, Recs(start) \in Seq(Rec)
  PROVE  /\ StopAt(start) \in 1..(Len(Recs(start)) + 1)
         /\ StopAt(start) \in Stops(start) \/ StopAt(start) = Len(Recs(start)) + 1
         /\ ErrOf(start) \in {"nil", "ErrSnapshotNotFound"} =>
              Stops(start) = {} /\ StopAt(start) = Len(Recs(start)) + 1
         /\ ErrOf(start) = "nil" => Matches(start) # {}
         /\ ErrOf(start) = "ErrSnapshotNotFound" => Matches(start) = {}
         /\ ErrOf(start) = "ErrSliceOutOfRange" => Gaps(start) # {}
         /\ ErrOf(start) = "ErrSnapshotMismatch" => Mismatches(start) # {}
<1>1. Stops(start) \in SUBSET (1..Len(Recs(start)))
  BY AtIs DEF Stops, Gaps, Mismatches, Matches, LaterIn
<1>2. Stops(start) # {} => Min(Stops(start)) \in Stops(start)
  BY <1>1, MinIsLeast
<1>3. /\ StopAt(start) \in 1..(Len(Recs(start)) + 1)
      /\ StopAt(start) \in Stops(start) \/ StopAt(start) = Len(Recs(start)) + 1
      /\ StopAt(start) \in Stops(start) \/ Stops(start) = {}
  BY <1>1, <1>2, LenProperties DEF StopAt
<1>4. QED
  BY <1>1, <1>3 DEF ErrOf, Stops

\* Entries without a gap have every index up to the last one.
LEMMA NoIndexMissing ==
  ASSUME NEW start, start.i \in Index, Recs(start) \in Seq(Rec), Gaps(start) = {},
         NEW x \in Nat, start.i < x, x <= EndAt(start, Len(Recs(start)) + 1)
  PROVE  \E p \in LaterIn(start) : Recs(start)[p].i = x
<1> DEFINE recs == Recs(start)
<1> DEFINE later == LaterIn(start)
<1> DEFINE high == {p \in later : recs[p].i >= x}
<1>1. later \in SUBSET (1..Len(recs)) /\ Len(recs) \in Nat
  BY EndAtIs, LenProperties
<1>1a. \A p \in later : recs[p].i \in Nat
  BY <1>1, RecIs
<1>2. high # {}
  <2>1. Before(start, Len(recs) + 1) # {}
    BY <1>1, EndAtIs DEF Index
  <2>2. PICK q \in Before(start, Len(recs) + 1) :
          EndAt(start, Len(recs) + 1) = recs[q].i
    BY <1>1, <2>1, EndAtIs
  <2>3. QED
    BY <2>2, <1>1a DEF Before
<1>3. Min(high) \in high /\ \A y \in high : Min(high) <= y
  <2>1. high \in SUBSET Nat
    BY <1>1
  <2> HIDE DEF high
  <2>2. QED
    BY <2>1, <1>2, MinIsLeast
<1>4. PICK a \in high : \A y \in high : a <= y
  BY <1>3, Zenon
<1>5. a \in later /\ a \in Nat /\ recs[a].i >= x
  BY <1>1
<1>6. CASE recs[a].i > x
  <2>0. EndAt(start, a) \in Nat
    <3>1. Before(start, a) = {} => EndAt(start, a) = start.i
      BY <1>5, EndAtIs
    <3>2. Before(start, a) # {} => \E q \in Before(start, a) : EndAt(start, a) = recs[q].i
      BY <1>5, EndAtIs
    <3>3. QED
      BY <1>1a, <3>1, <3>2 DEF Before, Index
  <2>1. recs[a].i <= EndAt(start, a) + 1
    BY <1>1a, <1>5, <2>0 DEF Gaps
  <2>2. Before(start, a) # {}
    BY <1>5, <1>6, <1>1a, <2>1, EndAtIs DEF Index
  <2>3. PICK q \in Before(start, a) : EndAt(start, a) = recs[q].i
    BY <1>5, <2>2, EndAtIs
  <2>4. q \in later /\ q < a /\ recs[q].i >= x
    BY <1>1a, <1>5, <1>6, <2>1, <2>3 DEF Before
  <2>5. q \in high /\ q \in Nat
    BY <2>4, <1>1
  <2>6. QED
    BY <1>4, <1>5, <2>4, <2>5
<1>7. CASE recs[a].i = x
  BY <1>5, <1>7
<1>8. QED
  BY <1>1a, <1>5, <1>6, <1>7

\* The entries of a WAL that can be read to its end: all indexes from the start
\* to the last entry, and for each of them the last entry there is.
LEMMA EntriesAre ==
  ASSUME NEW start, start.i \in Index, Recs(start) \in Seq(Rec), ErrOf(start) = "nil"
  PROVE  LET last == EndAt(start, Len(Recs(start)) + 1)
             ents == ReadAll(start).ents
         IN  /\ last \in Nat /\ last >= start.i
             /\ ents = [n \in 1..(last - start.i) |-> ents[n]]
             /\ \A n \in 1..(last - start.i) : \E p \in LaterIn(start) :
                  /\ ents[n] = Recs(start)[p] /\ Recs(start)[p].i = start.i + n
                  /\ \A q \in LaterIn(start) : Recs(start)[q].i = start.i + n => q <= p
<1> DEFINE recs == Recs(start)
<1> DEFINE last == EndAt(start, Len(recs) + 1)
<1>0. Len(recs) \in Nat /\ StopAt(start) = Len(recs) + 1 /\ Gaps(start) = {}
  BY StopAtIs, LenProperties DEF Stops
<1>1. LaterIn(start) \in SUBSET (1..Len(recs))
  BY <1>0, EndAtIs
<1>1a. Before(start, Len(recs) + 1) = LaterIn(start)
  BY <1>0, <1>1 DEF Before
<1>2. last \in Nat /\ last >= start.i
  <2>1. \A q \in LaterIn(start) : recs[q].i > start.i /\ recs[q].i \in Nat
    BY <1>1, RecIs DEF LaterIn
  <2>2. QED
    BY <1>0, <1>1a, <2>1, EndAtIs DEF Index
<1>3. ReadAll(start).ents = [n \in 1..(last - start.i) |-> EntryAt(start, start.i + n)]
  BY <1>0, ReadAllIs
<1>4. ASSUME NEW n \in 1..(last - start.i)
      PROVE  \E p \in LaterIn(start) :
               /\ EntryAt(start, start.i + n) = recs[p] /\ recs[p].i = start.i + n
               /\ \A q \in LaterIn(start) : recs[q].i = start.i + n => q <= p
  <2> DEFINE same == {p \in LaterIn(start) : recs[p].i = start.i + n}
  <2>1. same # {}
    <3>1. start.i + n \in Nat /\ start.i < start.i + n /\ start.i + n <= last
      BY <1>2 DEF Index
    <3>2. QED
      BY <3>1, <1>0, NoIndexMissing
  <2>2. same \in SUBSET (0..Len(recs))
    BY <1>1
  <2>3. EntryAt(start, start.i + n) = recs[Max(same)]
    BY <1>0, <1>1a DEF EntryAt
  <2>4. Max(same) \in same /\ \A q \in same : q <= Max(same)
    <3> HIDE DEF same
    <3>1. QED
      BY <1>0, <2>1, <2>2, MaxIsGreatest
  <2> DEFINE p == Max(same)
  <2>5. p \in same /\ EntryAt(start, start.i + n) = recs[p] /\ \A q \in same : q <= p
    BY <2>3, <2>4
  <2> HIDE DEF p
  <2>6. QED
    BY <2>5
<1> HIDE DEF last
<1>5. \A n \in 1..(last - start.i) : ReadAll(start).ents[n] = EntryAt(start, start.i + n)
  BY <1>3
<1>6. QED
  BY <1>2, <1>3, <1>4, <1>5 DEF last

-----------------------------------------------------------------------------
(* The same in terms of the whole WAL.                                     *)

SegmentOf(start) == Max(Segments(start))
Readable(start) == wal \in Seq(Rec) /\ start.i \in Index /\ ~ErrFileNotFound(start)

\* A position in what is read, and the position in the WAL.
LEMMA PositionsAre ==
  ASSUME NEW start, Readable(start)
  PROVE  LET m == SegmentOf(start)
             recs == Recs(start)
         IN  /\ m \in 1..Len(wal) /\ wal[m].k = "file" /\ wal[m].i <= start.i
             /\ recs = SubSeq(wal, m, Len(wal)) /\ recs \in Seq(Rec) /\ Len(wal) \in Nat
             /\ Len(recs) = Len(wal) - m + 1
             /\ \A p \in 1..Len(recs) : p + m - 1 \in 1..Len(wal) /\ recs[p] = wal[p + m - 1]
             /\ \A p \in m..Len(wal) : p - m + 1 \in 1..Len(recs) /\ recs[p - m + 1] = wal[p]
             /\ \A p \in LaterIn(start) : Later(p + m - 1, wal, m, start.i)
             /\ \A p : Later(p, wal, m, start.i) =>
                  p \in m..Len(wal) /\ p - m + 1 \in LaterIn(start)
<1> DEFINE m == SegmentOf(start)
<1> DEFINE recs == Recs(start)
<1>1. PICK n \in 1..Len(wal) :
        /\ n = m /\ wal[n].k = "file" /\ wal[n].i <= start.i
        /\ recs = SubSeq(wal, n, Len(wal)) /\ recs \in Seq(Rec)
        /\ Len(recs) = Len(wal) - n + 1
        /\ \A p \in 1..(Len(wal) - n + 1) : recs[p] = wal[n + p - 1]
  BY RecsIs DEF Readable, SegmentOf
<1>2. LaterIn(start) = {p \in 1..Len(recs) : recs[p].k = "entry" /\ recs[p].i > start.i}
  BY <1>1 DEF LaterIn, At
<1>3. Len(wal) \in Nat /\ DOMAIN wal = 1..Len(wal)
  BY LenProperties DEF Readable
<1> HIDE DEF m, recs
<1>4a. /\ m \in 1..Len(wal) /\ Len(recs) = Len(wal) - m + 1
       /\ \A p \in 1..(Len(wal) - m + 1) : recs[p] = wal[m + p - 1]
  BY <1>1
<1>4b. \A p \in 1..Len(recs) : p + m - 1 \in 1..Len(wal) /\ recs[p] = wal[p + m - 1]
  <2>1. TAKE p \in 1..Len(recs)
  <2>2. p \in 1..(Len(wal) - m + 1) /\ m + p - 1 = p + m - 1 /\ p + m - 1 \in 1..Len(wal)
    BY <1>3, <1>4a
  <2>3. QED
    BY <1>4a, <2>2
<1>4c. \A p \in m..Len(wal) : p - m + 1 \in 1..Len(recs) /\ recs[p - m + 1] = wal[p]
  <2>1. TAKE p \in m..Len(wal)
  <2>2. p - m + 1 \in 1..(Len(wal) - m + 1) /\ m + (p - m + 1) - 1 = p
    BY <1>3, <1>4a
  <2>3. QED
    BY <1>4a, <2>2
<1>4. /\ \A p \in 1..Len(recs) : p + m - 1 \in 1..Len(wal) /\ recs[p] = wal[p + m - 1]
      /\ \A p \in m..Len(wal) : p - m + 1 \in 1..Len(recs) /\ recs[p - m + 1] = wal[p]
  BY <1>4b, <1>4c
<1>5. \A p \in LaterIn(start) : Later(p + m - 1, wal, m, start.i)
  <2>1. TAKE p \in LaterIn(start)
  <2>2. p \in 1..Len(recs) /\ recs[p].k = "entry" /\ recs[p].i > start.i
    BY <1>2
  <2>3. p # 1
    BY <1>1, <1>3, <2>2
  <2>4. QED
    BY <1>1, <1>3, <1>4, <2>2, <2>3 DEF Later
<1>6. \A p : Later(p, wal, m, start.i) => p \in m..Len(wal) /\ p - m + 1 \in LaterIn(start)
  BY <1>1, <1>2, <1>3, <1>4 DEF Later
<1>7. QED
  BY <1>1, <1>3, <1>4, <1>5, <1>6 DEF m, recs

\* Reading fails with ErrSliceOutOfRange only at a gap.
LEMMA NoGapNoError ==
  ASSUME NEW start, Readable(start), GapFree(wal, SegmentOf(start), start.i)
  PROVE  Gaps(start) = {} /\ ReadAll(start).err # "ErrSliceOutOfRange"
<1> DEFINE m == SegmentOf(start)
<1> DEFINE recs == Recs(start)
<1> DEFINE s == start.i
<1>0. s \in Nat
  BY BoundsAssumption DEF Readable, Index
<1>1. /\ m \in 1..Len(wal) /\ recs \in Seq(Rec) /\ Len(wal) \in Nat
      /\ Len(recs) = Len(wal) - m + 1
      /\ \A p \in 1..Len(recs) : p + m - 1 \in 1..Len(wal) /\ recs[p] = wal[p + m - 1]
      /\ \A p \in m..Len(wal) : p - m + 1 \in 1..Len(recs) /\ recs[p - m + 1] = wal[p]
      /\ \A p \in LaterIn(start) : Later(p + m - 1, wal, m, s)
      /\ \A p : Later(p, wal, m, s) => p \in m..Len(wal) /\ p - m + 1 \in LaterIn(start)
  BY PositionsAre
<1>2. \A p \in LaterIn(start) : /\ p \in 1..Len(recs) /\ p \in Nat
                                /\ recs[p].i \in Nat /\ recs[p].i > s
  <2>1. LaterIn(start) \in SUBSET (1..Len(recs))
    BY <1>1, EndAtIs
  <2>2. \A p \in 1..Len(recs) : recs[p].i \in Nat
    BY <1>1, RecIs
  <2>3. QED
    BY <1>1, <2>1, <2>2 DEF LaterIn
<1>3. ASSUME NEW p \in LaterIn(start)
      PROVE  /\ EndAt(start, p) \in Nat /\ s <= EndAt(start, p)
             /\ Before(start, p) # {} => \E q \in Before(start, p) :
                  EndAt(start, p) = recs[q].i /\ \A r \in Before(start, p) : r <= q
  <2>1. /\ Before(start, p) = {} => EndAt(start, p) = s
        /\ Before(start, p) # {} => \E q \in Before(start, p) :
             EndAt(start, p) = recs[q].i /\ \A r \in Before(start, p) : r <= q
    BY <1>1, <1>2, EndAtIs
  <2>2. \A q \in Before(start, p) : q \in LaterIn(start)
    BY DEF Before
  <2>3. QED
    BY <1>0, <1>2, <2>1, <2>2
<1>3a. GapFree(wal, m, s)
  OBVIOUS
<1> HIDE DEF m, recs, s
<1>4. ASSUME NEW p \in LaterIn(start)
      PROVE  recs[p].i <= EndAt(start, p) + 1
  <2>1. /\ p \in 1..Len(recs) /\ p \in Nat /\ recs[p].i \in Nat
        /\ p + m - 1 \in 1..Len(wal) /\ recs[p] = wal[p + m - 1]
        /\ Later(p + m - 1, wal, m, s)
    BY <1>1, <1>2
  <2>2. CASE recs[p].i <= s + 1
    BY <1>0, <1>3, <2>1, <2>2
  <2>3. CASE recs[p].i > s + 1
    <3>1. PICK q \in DOMAIN wal :
            Follows(p + m - 1, q, wal, m, s) /\ wal[p + m - 1].i <= wal[q].i + 1
      BY <1>3a, <2>1, <2>3 DEF GapFree, Later
    <3>2. q \in m..Len(wal) /\ q - m + 1 \in LaterIn(start) /\ q < p + m - 1
      BY <1>1, <3>1 DEF Follows
    <3>3. q - m + 1 \in Before(start, p)
      BY <1>1, <2>1, <3>2 DEF Before
    <3>4. PICK r \in Before(start, p) :
            EndAt(start, p) = recs[r].i /\ \A x \in Before(start, p) : x <= r
      BY <1>3, <3>3
    <3>5. r \in LaterIn(start) /\ r < p /\ r \in Nat
      BY <1>2, <3>4 DEF Before
    <3>6. Later(r + m - 1, wal, m, s) /\ r + m - 1 \in DOMAIN wal
      BY <1>1, <3>5 DEF Later
    <3>7. r + m - 1 <= q
      BY <1>1, <2>1, <3>1, <3>5, <3>6 DEF Follows
    <3>8. q - m + 1 <= r
      BY <3>3, <3>4
    <3>9. r = q - m + 1
      BY <1>1, <3>2, <3>5, <3>7, <3>8
    <3>10. recs[r] = wal[q]
      BY <1>1, <3>2, <3>9
    <3>11. QED
      BY <2>1, <3>1, <3>4, <3>10
  <2>4. QED
    BY <1>0, <2>1, <2>2, <2>3
<1>5. \A p \in LaterIn(start) : EndAt(start, p) \in Nat /\ recs[p].i <= EndAt(start, p) + 1
  BY <1>3, <1>4
<1>6. Gaps(start) = {}
  BY <1>2, <1>5 DEF Gaps, recs
<1>7. ErrOf(start) # "ErrSliceOutOfRange"
  BY <1>1, <1>6, StopAtIs DEF recs
<1>8. QED
  BY <1>6, <1>7, ReadAllIs

\* The entries of a WAL that can be read to its end end with the last one after
\* the start, and each of them is the last one of its index.
LEMMA EntriesRead ==
  ASSUME NEW start, Readable(start), ReadAll(start).err = "nil"
  PROVE  LET m == SegmentOf(start)
             ents == ReadAll(start).ents
         IN  \E last \in Nat :
               /\ last >= start.i /\ ents = [n \in 1..(last - start.i) |-> ents[n]]
               /\ \A n \in 1..(last - start.i) : \E p \in 1..Len(wal) :
                    /\ Later(p, wal, m, start.i) /\ ents[n] = wal[p]
                    /\ wal[p].i = start.i + n
                    /\ \A q : Later(q, wal, m, start.i) /\ wal[q].i = start.i + n => q <= p
               /\ \A n : EndsWith(n, wal, m, start.i) => last = n
<1> DEFINE m == SegmentOf(start)
<1> DEFINE recs == Recs(start)
<1> DEFINE s == start.i
<1> DEFINE last == EndAt(start, Len(recs) + 1)
<1> DEFINE ents == ReadAll(start).ents
<1>0. s \in Nat /\ s \in Index
  BY BoundsAssumption DEF Readable, Index
<1>1. /\ m \in 1..Len(wal) /\ recs \in Seq(Rec) /\ Len(wal) \in Nat
      /\ Len(recs) = Len(wal) - m + 1
      /\ \A p \in 1..Len(recs) : p + m - 1 \in 1..Len(wal) /\ recs[p] = wal[p + m - 1]
      /\ \A p \in m..Len(wal) : p - m + 1 \in 1..Len(recs) /\ recs[p - m + 1] = wal[p]
      /\ \A p \in LaterIn(start) : Later(p + m - 1, wal, m, s)
      /\ \A p : Later(p, wal, m, s) => p \in m..Len(wal) /\ p - m + 1 \in LaterIn(start)
  BY PositionsAre
<1>2a. Len(recs) \in Nat /\ Len(recs) + 1 \in Nat
  BY <1>1, LenProperties
<1>2. /\ LaterIn(start) \in SUBSET (1..Len(recs)) /\ Len(recs) \in Nat
      /\ Before(start, Len(recs) + 1) = {} => last = s
      /\ Before(start, Len(recs) + 1) # {} => \E q \in Before(start, Len(recs) + 1) :
           last = recs[q].i /\ \A r \in Before(start, Len(recs) + 1) : r <= q
  BY <1>1, <1>2a, EndAtIs, Zenon
<1>3. Before(start, Len(recs) + 1) = LaterIn(start)
  BY <1>2 DEF Before
<1>4. ErrOf(start) = "nil"
  BY ReadAllIs
<1>5. /\ last \in Nat /\ last >= s /\ ents = [n \in 1..(last - s) |-> ents[n]]
      /\ \A n \in 1..(last - s) : \E p \in LaterIn(start) :
           /\ ents[n] = recs[p] /\ recs[p].i = s + n
           /\ \A q \in LaterIn(start) : recs[q].i = s + n => q <= p
  BY <1>0, <1>1, <1>4, EntriesAre
<1> HIDE DEF m, recs, s, last, ents
<1>6. ASSUME NEW n \in 1..(last - s)
      PROVE  \E p \in 1..Len(wal) :
               /\ Later(p, wal, m, s) /\ ents[n] = wal[p] /\ wal[p].i = s + n
               /\ \A q : Later(q, wal, m, s) /\ wal[q].i = s + n => q <= p
  <2>1. PICK p \in LaterIn(start) :
          /\ ents[n] = recs[p] /\ recs[p].i = s + n
          /\ \A q \in LaterIn(start) : recs[q].i = s + n => q <= p
    BY <1>5
  <2>2. /\ p \in 1..Len(recs) /\ p + m - 1 \in 1..Len(wal) /\ recs[p] = wal[p + m - 1]
        /\ Later(p + m - 1, wal, m, s)
    BY <1>1, <1>2
  <2>3. ASSUME NEW q, Later(q, wal, m, s), wal[q].i = s + n
        PROVE  q <= p + m - 1
    <3>1. q \in m..Len(wal) /\ q - m + 1 \in LaterIn(start) /\ recs[q - m + 1] = wal[q]
      BY <1>1, <2>3
    <3>2. q - m + 1 <= p
      BY <2>1, <2>3, <3>1
    <3>3. QED
      BY <1>1, <2>2, <3>1, <3>2
  <2>4. QED
    BY <2>1, <2>2, <2>3
<1>7. ASSUME NEW n, EndsWith(n, wal, m, s)
      PROVE  last = n
  <2>1. PICK q \in DOMAIN wal : Follows(Len(wal) + 1, q, wal, m, s) /\ wal[q].i = n
    BY <1>7 DEF EndsWith
  <2>2. q \in m..Len(wal) /\ q - m + 1 \in LaterIn(start) /\ recs[q - m + 1] = wal[q]
    BY <1>1, <2>1 DEF Follows
  <2>3. PICK r \in LaterIn(start) :
          last = recs[r].i /\ \A x \in LaterIn(start) : x <= r
    BY <1>2, <1>3, <2>2
  <2>4. r \in 1..Len(recs) /\ r + m - 1 \in 1..Len(wal) /\ Later(r + m - 1, wal, m, s)
    BY <1>1, <1>2
  <2>5. r + m - 1 <= q
    <3>1. r + m - 1 <= q \/ r + m - 1 >= Len(wal) + 1
      BY <2>1, <2>4 DEF Follows, Later
    <3>2. QED
      BY <1>1, <2>4, <3>1
  <2>6. q - m + 1 <= r
    BY <2>2, <2>3
  <2>7. r = q - m + 1
    BY <1>1, <2>2, <2>4, <2>5, <2>6
  <2>8. QED
    BY <2>1, <2>2, <2>3, <2>7
<1>8. QED
  BY <1>5, <1>6, <1>7 DEF m, s, ents

\* The errors of reading: at a snapshot record of another term, or without one.
LEMMA ErrorsAre ==
  ASSUME NEW start, Readable(start)
  PROVE  LET m == SegmentOf(start)
             err == ReadAll(start).err
         IN  /\ err \in {"nil", "ErrSliceOutOfRange", "ErrSnapshotMismatch", "ErrSnapshotNotFound"}
             /\ err = "ErrSnapshotMismatch" => \E p \in m..Len(wal) :
                  wal[p].k = "snap" /\ wal[p].i = start.i /\ wal[p].t # start.t
             /\ err = "ErrSnapshotNotFound" => \A p \in m..Len(wal) :
                  ~(wal[p].k = "snap" /\ wal[p].i = start.i)
<1> DEFINE m == SegmentOf(start)
<1> DEFINE recs == Recs(start)
<1>1. /\ m \in 1..Len(wal) /\ recs \in Seq(Rec) /\ Len(wal) \in Nat
      /\ Len(recs) = Len(wal) - m + 1
      /\ \A p \in 1..Len(recs) : p + m - 1 \in 1..Len(wal) /\ recs[p] = wal[p + m - 1]
      /\ \A p \in m..Len(wal) : p - m + 1 \in 1..Len(recs) /\ recs[p - m + 1] = wal[p]
  BY PositionsAre
<1>2. ReadAll(start).err = ErrOf(start)
  BY ReadAllIs
<1>3. /\ ErrOf(start) = "ErrSnapshotNotFound" => Matches(start) = {}
      /\ ErrOf(start) = "ErrSnapshotMismatch" => Mismatches(start) # {}
  BY <1>1, StopAtIs
<1>4. Matches(start) = {p \in 1..Len(recs) : recs[p].k = "snap" /\ recs[p].i = start.i}
  BY <1>1 DEF Matches, At
<1>5. Mismatches(start) = {p \in Matches(start) : recs[p].t # start.t}
  BY DEF Mismatches
<1> HIDE DEF m, recs
<1>6. Mismatches(start) # {} => \E p \in m..Len(wal) :
        wal[p].k = "snap" /\ wal[p].i = start.i /\ wal[p].t # start.t
  <2>1. SUFFICES ASSUME NEW p \in Mismatches(start)
                 PROVE  \E q \in m..Len(wal) :
                          wal[q].k = "snap" /\ wal[q].i = start.i /\ wal[q].t # start.t
    OBVIOUS
  <2>2. p \in 1..Len(recs) /\ p + m - 1 \in m..Len(wal) /\ recs[p] = wal[p + m - 1]
    BY <1>1, <1>4, <1>5
  <2>3. QED
    BY <1>4, <1>5, <2>2
<1>7. Matches(start) = {} => \A p \in m..Len(wal) : ~(wal[p].k = "snap" /\ wal[p].i = start.i)
  BY <1>1, <1>4
<1>8. QED
  BY <1>2, <1>3, <1>6, <1>7 DEF m, ErrOf

\* The HardState that reading returns, and the last one if it gets to the end.
LEMMA StateRead ==
  ASSUME NEW start, Readable(start), ReadAll(start).err \in Tolerated
  PROVE  LET st == ReadAll(start).state
         IN  /\ st = State(0, 0) \/ \E p \in DOMAIN wal : wal[p].k = "state" /\ st = wal[p]
             /\ ReadAll(start).err = "nil" =>
                  \A p \in DOMAIN wal :
                    /\ p >= SegmentOf(start) /\ wal[p].k = "state"
                    /\ \A q \in DOMAIN wal : wal[q].k = "state" => q <= p
                    => st = wal[p]
<1> DEFINE m == SegmentOf(start)
<1> DEFINE recs == Recs(start)
<1> DEFINE n == StopAt(start) - 1
<1> DEFINE read == SubSeq(recs, 1, n)
<1>1. /\ m \in 1..Len(wal) /\ recs \in Seq(Rec) /\ Len(wal) \in Nat
      /\ Len(recs) = Len(wal) - m + 1
      /\ \A p \in 1..Len(recs) : p + m - 1 \in 1..Len(wal) /\ recs[p] = wal[p + m - 1]
      /\ \A p \in m..Len(wal) : p - m + 1 \in 1..Len(recs) /\ recs[p - m + 1] = wal[p]
  BY PositionsAre
<1>2. /\ ReadAll(start).err = ErrOf(start)
      /\ ReadAll(start).state = LastState(read)
  BY ReadAllIs DEF Tolerated
<1>3. n \in 0..Len(recs) /\ (ErrOf(start) = "nil" => n = Len(recs))
  BY <1>1, StopAtIs, LenProperties
<1> HIDE DEF m, recs, n
<1>4. read \in Seq(Rec) /\ Len(read) = n /\ \A p \in 1..n : read[p] = recs[p]
  BY <1>1, <1>3, PrefixIs
<1> HIDE DEF read
<1>5. At(read, "state") = {p \in 1..n : recs[p].k = "state"}
  BY <1>4 DEF At
<1>6. DOMAIN wal = 1..Len(wal)
  BY DEF Readable
<1>7. LastState(read) = State(0, 0)
        \/ \E p \in DOMAIN wal : wal[p].k = "state" /\ LastState(read) = wal[p]
  <2>1. CASE At(read, "state") = {}
    BY <1>4, <2>1, LastStateIs
  <2>2. CASE At(read, "state") # {}
    <3>1. PICK p \in At(read, "state") : LastState(read) = read[p]
      BY <1>4, <2>2, LastStateIs
    <3>2. p \in 1..Len(recs) /\ read[p] = recs[p] /\ recs[p].k = "state"
      BY <1>1, <1>3, <1>4, <1>5
    <3>3. p + m - 1 \in DOMAIN wal /\ recs[p] = wal[p + m - 1]
      BY <1>1, <1>6, <3>2
    <3>4. QED
      BY <3>1, <3>2, <3>3
  <2>3. QED
    BY <2>1, <2>2
<1>8. ASSUME ErrOf(start) = "nil", NEW p \in DOMAIN wal, p >= m, wal[p].k = "state",
             \A q \in DOMAIN wal : wal[q].k = "state" => q <= p
      PROVE  LastState(read) = wal[p]
  <2>1. p - m + 1 \in 1..n /\ recs[p - m + 1] = wal[p]
    BY <1>1, <1>3, <1>6, <1>8
  <2>2. p - m + 1 \in At(read, "state")
    BY <1>5, <1>8, <2>1
  <2>3. \A x \in At(read, "state") : x <= p - m + 1
    <3>1. TAKE x \in At(read, "state")
    <3>2. x \in 1..Len(recs) /\ recs[x].k = "state"
      BY <1>1, <1>3, <1>5
    <3>3. x + m - 1 \in DOMAIN wal /\ wal[x + m - 1].k = "state"
      BY <1>1, <1>6, <3>2
    <3>4. x + m - 1 <= p
      BY <1>8, <3>3
    <3>5. QED
      BY <1>1, <1>6, <3>2, <3>4
  <2>4. LastState(read) = read[p - m + 1]
    BY <1>4, <2>2, <2>3, LastStateIs
  <2>5. QED
    BY <1>4, <2>1, <2>4
<1>9. QED
  BY <1>2, <1>7, <1>8 DEF m

-----------------------------------------------------------------------------
(* What a server starts from.                                              *)

\* Indexes are natural numbers with a bound.
LEMMA IndexIs ==
  /\ MaxIndex \in Nat /\ \A x \in Index : x \in Nat /\ x <= MaxIndex
  /\ \A x \in Nat : x <= MaxIndex => x \in Index
  BY BoundsAssumption DEF Index

\* The types of the snapshots.
LEMMA SnapsAre ==
  ASSUME NEW files
  PROVE  files \subseteq {Snap(i, t) : i \in Index, t \in Terms} <=>
           \A r \in files : r.i \in Index /\ r.t \in Terms /\ r = Snap(r.i, r.t)
<1>1. \A i, t : Snap(i, t).i = i /\ Snap(i, t).t = t
  BY DEF Snap
<1>2. QED
  BY <1>1

\* The types of the records, and their bounds.
LEMMA WalIs ==
  ASSUME TypeInv
  PROVE  /\ wal \in Seq(Rec) /\ Len(wal) \in Nat /\ DOMAIN wal = 1..Len(wal) /\ Len(wal) >= 1
         /\ \A p \in DOMAIN wal : /\ wal[p] \in Rec /\ wal[p].i \in Nat /\ wal[p].t \in Terms
                                  /\ wal[p].k \in {"file", "entry", "state", "snap"}
                                  /\ wal[p].k # "file" => wal[p].i \in Index
<1>1. wal \in Seq(Rec) /\ Len(wal) \in Nat /\ DOMAIN wal = 1..Len(wal) /\ Len(wal) >= 1
  BY LenProperties DEF TypeInv, WalTypeOK, Rec
<1>2. QED
  BY <1>1, RecIs, IndexIs DEF TypeInv

\* The HardState.
LEMMA SavedIs ==
  ASSUME TypeInv
  PROVE  /\ Saved.i \in Index /\ Saved.t \in Terms /\ Saved.i <= Len(agreed)
         /\ Saved = State(Saved.i, Saved.t)
         /\ Saved = State(0, 0) \/ \E p \in DOMAIN wal :
              Saved = wal[p] /\ wal[p].k = "state"
              /\ \A q \in DOMAIN wal : wal[q].k = "state" => q <= p
<1>1. \/ Saved = State(0, 0)
      \/ \E p \in DOMAIN wal : /\ Saved = wal[p] /\ wal[p].k = "state"
                               /\ \A q \in DOMAIN wal : wal[q].k = "state" => q <= p
  BY WalIs, LastStateIs DEF Saved, At
<1>2. State(0, 0).i = 0 /\ State(0, 0).t = 0 /\ 0 \in Index /\ 0 \in Terms
  BY BoundsAssumption DEF State, Index, Terms
<1>3. Len(agreed) \in Nat
  BY LenProperties DEF TypeInv, WalTypeOK
<1>4. \A p \in DOMAIN wal : wal[p].k = "state" => wal[p] = State(wal[p].i, wal[p].t)
  BY WalIs DEF Rec, State
<1>5. QED
  BY <1>1, <1>2, <1>3, <1>4, WalIs DEF TypeInv

\* The snapshot a server starts from.
LEMMA StartsFromIs ==
  ASSUME TypeInv
  PROVE  /\ StartsFrom.i \in Index /\ StartsFrom.t \in Terms
         /\ StartsFrom.i <= Len(agreed) /\ StartsFrom.i <= Saved.i
         /\ StartsFrom = Snap(0, 0) \/ StartsFrom \in snaps
         /\ StartsFrom.i = 0 \/ In(StartsFrom, wal)
         /\ \A r \in snaps : In(r, wal) /\ r.i <= Saved.i => r.i <= StartsFrom.i
<1>1. Valid = {r \in snaps : In(r, wal) /\ r.i <= Saved.i}
  <2>1. \A r \in snaps : r.k = "snap"
    BY SnapsAre DEF TypeInv, WalTypeOK, Snap
  <2>2. \A r \in snaps : r \in {wal[p] : p \in At(wal, "snap")} <=> In(r, wal)
    BY <2>1 DEF In, At
  <2>3. QED
    BY <2>2 DEF Valid, Saved
<1>2. \A r \in snaps : r.i \in Index /\ r.t \in Terms /\ r.i <= Len(agreed)
  BY SnapsAre DEF TypeInv, WalTypeOK
<1>3. /\ 0 \in Index /\ 0 \in Terms /\ Len(agreed) \in Nat /\ Saved.i \in Nat
      /\ Snap(0, 0).i = 0 /\ Snap(0, 0).t = 0
  BY SavedIs, IndexIs, LenProperties, BoundsAssumption DEF TypeInv, WalTypeOK, Terms, Snap
<1>4. CASE Valid = {}
  BY <1>1, <1>3, <1>4 DEF StartsFrom
<1>5. CASE Valid # {}
  <2>1. \A r \in Valid : r.i \in Index /\ r.t \in Terms
    BY <1>1, <1>2
  <2>2. Newest(Valid) \in Valid /\ \A r \in Valid : r.i <= Newest(Valid).i
    BY <1>5, <2>1, NewestIs
  <2>3. StartsFrom = Newest(Valid)
    BY <1>5 DEF StartsFrom
  <2>4. QED
    BY <1>1, <1>2, <2>2, <2>3
<1>6. QED
  BY <1>4, <1>5

\* The log of a restarted server: what is agreed up to the snapshot, and then
\* the last entry of every index after it.
LEMMA RestartLogIs ==
  ASSUME TypeInv, ~ErrFileNotFound(StartsFrom), ReadAll(StartsFrom).err = "nil"
  PROVE  LET m == SegmentOf(StartsFrom)
             s == StartsFrom.i
         IN  /\ m \in DOMAIN wal /\ wal[m].k = "file" /\ wal[m].i <= s
             /\ RestartLog \in Seq(Terms) /\ Len(RestartLog) \in Index /\ s <= Len(RestartLog)
             /\ \A k \in 1..s : RestartLog[k] = agreed[k]
             /\ \A k \in (s + 1)..Len(RestartLog) : \E p \in DOMAIN wal :
                  /\ Later(p, wal, m, s) /\ wal[p].i = k /\ RestartLog[k] = wal[p].t
                  /\ \A q : Later(q, wal, m, s) /\ wal[q].i = k => q <= p
             /\ \A n : EndsWith(n, wal, m, s) => Len(RestartLog) = n
<1> DEFINE m == SegmentOf(StartsFrom)
<1> DEFINE s == StartsFrom.i
<1> DEFINE ents == ReadAll(StartsFrom).ents
<1> DEFINE terms == [n \in DOMAIN ents |-> ents[n].t]
<1> DEFINE base == SubSeq(agreed, 1, s)
<1>0. /\ wal \in Seq(Rec) /\ Len(wal) \in Nat /\ DOMAIN wal = 1..Len(wal)
      /\ \A p \in DOMAIN wal : /\ wal[p].i \in Nat /\ wal[p].t \in Terms
                               /\ wal[p].k = "entry" => wal[p].i \in Index
  BY WalIs
<1>1. s \in Nat /\ s \in Index /\ s <= Len(agreed) /\ agreed \in Seq(Terms) /\ Len(agreed) \in Nat
  BY StartsFromIs, IndexIs, LenProperties DEF TypeInv, WalTypeOK
<1>2. Readable(StartsFrom)
  BY <1>0, StartsFromIs DEF Readable
<1>3. m \in DOMAIN wal /\ wal[m].k = "file" /\ wal[m].i <= s
  BY <1>0, <1>2, PositionsAre
<1>4. PICK last \in Nat :
        /\ last >= s /\ ents = [n \in 1..(last - s) |-> ents[n]]
        /\ \A n \in 1..(last - s) : \E p \in 1..Len(wal) :
             /\ Later(p, wal, m, s) /\ ents[n] = wal[p] /\ wal[p].i = s + n
             /\ \A q : Later(q, wal, m, s) /\ wal[q].i = s + n => q <= p
        /\ \A n : EndsWith(n, wal, m, s) => last = n
  BY <1>2, EntriesRead
<1>5. RestartLog = base \o terms
  BY Zenon DEF RestartLog
<1>6. base \in Seq(Terms) /\ Len(base) = s /\ \A k \in 1..s : base[k] = agreed[k]
  <2>1. s \in 0..Len(agreed)
    BY <1>1
  <2> HIDE DEF s
  <2>2. QED
    BY <1>1, <2>1, PrefixIs
<1> HIDE DEF m, s, ents, base
<1>7. DOMAIN ents = 1..(last - s)
  BY <1>4
<1>8. /\ terms \in Seq(Terms) /\ Len(terms) = last - s
      /\ \A n \in 1..(last - s) : terms[n] = ents[n].t
  <2>1. \A n \in 1..(last - s) : ents[n].t \in Terms
    BY <1>0, <1>4
  <2>2. terms = [n \in 1..(last - s) |-> ents[n].t]
    BY <1>7
  <2>3. last - s \in Nat
    BY <1>1, <1>4
  <2> HIDE DEF terms
  <2>4. QED
    BY <2>1, <2>2, <2>3
<1> HIDE DEF terms
<1>9. /\ RestartLog \in Seq(Terms) /\ Len(RestartLog) = last
      /\ \A k \in 1..s : RestartLog[k] = base[k]
      /\ \A k \in (s + 1)..last : RestartLog[k] = terms[k - s]
  <2>1. /\ RestartLog \in Seq(Terms) /\ Len(RestartLog) = Len(base) + Len(terms)
        /\ \A k \in 1..(Len(base) + Len(terms)) :
             RestartLog[k] = IF k <= Len(base) THEN base[k] ELSE terms[k - Len(base)]
    BY <1>5, <1>6, <1>8, ConcatProperties
  <2>2. QED
    BY <1>1, <1>4, <1>6, <1>8, <2>1
<1>10. ASSUME NEW k \in (s + 1)..last
       PROVE  \E p \in DOMAIN wal :
                /\ Later(p, wal, m, s) /\ wal[p].i = k /\ RestartLog[k] = wal[p].t
                /\ \A q : Later(q, wal, m, s) /\ wal[q].i = k => q <= p
  <2>1. k - s \in 1..(last - s) /\ s + (k - s) = k
    BY <1>1, <1>4
  <2>2. PICK p \in 1..Len(wal) :
          /\ Later(p, wal, m, s) /\ ents[k - s] = wal[p] /\ wal[p].i = k
          /\ \A q : Later(q, wal, m, s) /\ wal[q].i = k => q <= p
    BY <1>4, <2>1
  <2>3. QED
    BY <1>0, <1>8, <1>9, <2>1, <2>2
<1>11. last \in Index
  <2>1. CASE last = s
    BY <1>1, <2>1
  <2>2. CASE last > s
    <3>1. last \in (s + 1)..last
      BY <1>1, <1>4, <2>2
    <3>2. PICK p \in DOMAIN wal : Later(p, wal, m, s) /\ wal[p].i = last
      BY <1>10, <3>1
    <3>3. QED
      BY <1>0, <3>2 DEF Later
  <2>3. QED
    BY <1>1, <1>4, <2>1, <2>2
<1>12. QED
  BY <1>3, <1>4, <1>6, <1>9, <1>10, <1>11 DEF m, s

-----------------------------------------------------------------------------
(* The first layer: types and bounds.                                      *)

\* The invariant of the records: of w, of which n are synced, where c is the
\* greatest agreed index.
RecordsOK(w, n, c) ==
  /\ w \in Seq(Rec) /\ Len(w) >= 1 /\ w[1].k = "file" /\ n \in 0..Len(w)
  /\ \A p \in DOMAIN w : w[p].k # "file" => w[p].i <= MaxIndex
  /\ \A p \in DOMAIN w : w[p].k \in {"state", "snap"} => w[p].i <= c
  /\ \A p \in DOMAIN w : p > n => w[p].k = "state"

\* And of everything else.
MemoryOK ==
  /\ \A r \in snaps : r.i \in Index /\ r.t \in Terms /\ r = Snap(r.i, r.t)
  /\ \A r \in snaps : r.i <= Len(agreed)
  /\ db \in Index /\ commit \in Index /\ applied \in Index /\ released \in 0..(MaxIndex + 1)
  /\ server \in {"up", "stopped", "crashed"}
  /\ log \in Seq(Terms) /\ agreed \in Seq(Terms)
  /\ saving \in [step : {"idle", "local", "file", "record", "state"}, i : Index, t : Terms]
  /\ restarts \in 0..MaxRestarts /\ revived \in BOOLEAN /\ soft \in Nat
  /\ Len(log) <= MaxIndex /\ Len(agreed) <= MaxIndex
  /\ applied <= commit /\ commit <= Len(log)
  /\ commit <= Len(agreed) /\ db <= Len(agreed) /\ saving.i <= Len(agreed)

\* The layer is made of the two.
LEMMA TypeInvIs ==
  TypeInv <=> RecordsOK(wal, Synced, Len(agreed)) /\ MemoryOK
<1>1. snaps \subseteq {Snap(i, t) : i \in Index, t \in Terms} <=>
        \A r \in snaps : r.i \in Index /\ r.t \in Terms /\ r = Snap(r.i, r.t)
  BY SnapsAre
<1>2. ASSUME wal \in Seq(Rec)
      PROVE  soft \in 0..Len(wal) <=> Synced \in 0..Len(wal) /\ soft \in Nat
  BY <1>2, LenProperties DEF Synced
<1>3. QED
  BY <1>1, <1>2 DEF TypeInv, WalTypeOK, RecordsOK, MemoryOK, Rec

\* What is agreed may grow, and records get synced.
LEMMA RecordsMore ==
  ASSUME NEW w, NEW n, NEW c \in Nat, NEW d \in Nat, c <= d, RecordsOK(w, n, c)
  PROVE  RecordsOK(w, n, d) /\ RecordsOK(w, Len(w), d)
<1>1. Len(w) \in Nat /\ DOMAIN w = 1..Len(w)
  BY LenProperties DEF RecordsOK
<1>2. \A p \in DOMAIN w : w[p].i \in Nat
  BY <1>1, RecIs DEF RecordsOK
<1>3. \A p \in DOMAIN w : w[p].k \in {"state", "snap"} => w[p].i <= d
  BY <1>2 DEF RecordsOK
<1>4. QED
  BY <1>1, <1>3 DEF RecordsOK

\* One more record, synced or not.
LEMMA RecordsAppend ==
  ASSUME NEW w, NEW n, NEW c \in Nat, RecordsOK(w, n, c), NEW x \in Rec,
         x.k # "file" => x.i <= MaxIndex, x.k \in {"state", "snap"} => x.i <= c
  PROVE  /\ RecordsOK(Append(w, x), Len(w) + 1, c)
         /\ x.k = "state" => RecordsOK(Append(w, x), n, c)
         /\ Len(Append(w, x)) = Len(w) + 1
<1> DEFINE v == Append(w, x)
<1>1. /\ v \in Seq(Rec) /\ Len(v) = Len(w) + 1 /\ v[Len(w) + 1] = x
      /\ \A p \in 1..Len(w) : v[p] = w[p]
  BY AppendIs DEF RecordsOK
<1>2. Len(w) \in Nat /\ DOMAIN w = 1..Len(w) /\ DOMAIN v = 1..(Len(w) + 1)
  BY <1>1, LenProperties DEF RecordsOK
<1> HIDE DEF v
<1>3. \A p \in DOMAIN v : (p \in DOMAIN w /\ v[p] = w[p]) \/ (p = Len(w) + 1 /\ v[p] = x)
  BY <1>1, <1>2
<1>4. v[1].k = "file"
  BY <1>1, <1>2 DEF RecordsOK
<1>5. /\ \A p \in DOMAIN v : v[p].k # "file" => v[p].i <= MaxIndex
      /\ \A p \in DOMAIN v : v[p].k \in {"state", "snap"} => v[p].i <= c
  BY <1>3 DEF RecordsOK
<1>6. x.k = "state" => \A p \in DOMAIN v : p > n => v[p].k = "state"
  BY <1>3 DEF RecordsOK
<1>7. \A p \in DOMAIN v : ~(p > Len(w) + 1)
  BY <1>2
<1>8. QED
  BY <1>1, <1>2, <1>4, <1>5, <1>6, <1>7 DEF RecordsOK, v

\* Two more records.
LEMMA ConcatIs ==
  ASSUME NEW S, NEW w \in Seq(S), NEW x \in S, NEW y \in S
  PROVE  /\ w \o <<x>> \o <<>> = Append(w, x)
         /\ w \o <<x>> \o <<y>> = Append(Append(w, x), y)
         /\ w \o <<x, y>> = Append(Append(w, x), y)
  OBVIOUS

\* Without the segments before the one at m.
LEMMA RecordsPurge ==
  ASSUME NEW w, NEW n, NEW c \in Nat, RecordsOK(w, n, c), NEW m \in DOMAIN w, w[m].k = "file"
  PROVE  /\ RecordsOK(SubSeq(w, m, Len(w)), n - m + 1, c)
         /\ Len(SubSeq(w, m, Len(w))) = Len(w) - m + 1
<1> DEFINE v == SubSeq(w, m, Len(w))
<1>1. Len(w) \in Nat /\ DOMAIN w = 1..Len(w) /\ w \in Seq(Rec)
  BY LenProperties DEF RecordsOK
<1>2. /\ v \in Seq(Rec) /\ Len(v) = Len(w) - m + 1
      /\ \A p \in 1..(Len(w) - m + 1) : v[p] = w[m + p - 1]
  BY <1>1, SuffixIs
<1> HIDE DEF v
<1>3. \A p \in 1..(Len(w) - m + 1) : m + p - 1 \in DOMAIN w /\ v[p] = w[m + p - 1]
  BY <1>1, <1>2
<1>4. DOMAIN v = 1..(Len(w) - m + 1) /\ n \in Int /\ m <= n
  BY <1>1, <1>2 DEF RecordsOK
<1>5. v[1].k = "file"
  <2>1. m + 1 - 1 = m /\ 1 \in 1..(Len(w) - m + 1)
    BY <1>1
  <2>2. QED
    BY <1>3, <2>1
<1>6. /\ \A p \in DOMAIN v : v[p].k # "file" => v[p].i <= MaxIndex
      /\ \A p \in DOMAIN v : v[p].k \in {"state", "snap"} => v[p].i <= c
  BY <1>3, <1>4 DEF RecordsOK
<1>7. \A p \in DOMAIN v : p > n - m + 1 => v[p].k = "state"
  <2>1. \A p \in DOMAIN v : p > n - m + 1 => m + p - 1 > n
    BY <1>1, <1>4
  <2>2. QED
    BY <1>3, <1>4, <2>1 DEF RecordsOK
<1>8. Len(v) >= 1 /\ n - m + 1 \in 0..Len(v)
  BY <1>1, <1>2, <1>4 DEF RecordsOK
<1>9. QED
  BY <1>2, <1>5, <1>6, <1>7, <1>8 DEF RecordsOK, v

\* Without records that are not synced.
LEMMA RecordsLost ==
  ASSUME NEW w, NEW n, NEW c \in Nat, RecordsOK(w, n, c), NEW l \in n..Len(w)
  PROVE  /\ RecordsOK(SubSeq(w, 1, l), l, c) /\ Len(SubSeq(w, 1, l)) = l /\ 1 <= l
<1> DEFINE v == SubSeq(w, 1, l)
<1>1. Len(w) \in Nat /\ DOMAIN w = 1..Len(w) /\ w \in Seq(Rec) /\ n \in Nat /\ l \in 0..Len(w)
  BY LenProperties DEF RecordsOK
<1>2. v \in Seq(Rec) /\ Len(v) = l /\ \A p \in 1..l : v[p] = w[p]
  BY <1>1, PrefixIs
<1> HIDE DEF v
<1>3. DOMAIN v = 1..l /\ 1 <= l
  BY <1>1, <1>2 DEF RecordsOK
<1>4. \A p \in DOMAIN v : p \in DOMAIN w /\ v[p] = w[p] /\ ~(p > l)
  BY <1>1, <1>2, <1>3
<1>5. QED
  BY <1>1, <1>2, <1>3, <1>4 DEF RecordsOK, v

\* Purging leaves a later segment that begins before what is released.
LEMMA PurgeIs ==
  ASSUME TypeInv, Purge
  PROVE  \E m \in DOMAIN wal : /\ m > 1 /\ wal[m].k = "file" /\ wal[m].i < released
                               /\ wal' = SubSeq(wal, m, Len(wal))
<1> DEFINE files == At(wal, "file")
<1> DEFINE rest == files \ {1}
<1>1. files \in SUBSET (1..Len(wal)) /\ 1 \in files
  BY WalIs, AtIs DEF At, TypeInv, WalTypeOK
<1>2. rest # {}
  <2>1. SUFFICES ASSUME rest = {} PROVE FALSE
    OBVIOUS
  <2>2. files = {1}
    BY <1>1, <2>1
  <2>3. Cardinality(files) = 1
    BY <2>2, FS_Singleton
  <2>4. QED
    BY <2>3, BoundsAssumption DEF Purge
<1>3. Min(rest) \in rest
  <2>1. rest \in SUBSET Nat
    BY <1>1
  <2> HIDE DEF rest
  <2>2. QED
    BY <1>2, <2>1, MinIsLeast
<1>4. wal[Min(rest)].i < released /\ wal' = SubSeq(wal, Min(rest), Len(wal))
  BY DEF Purge
<1> HIDE DEF rest
<1>5. Min(rest) \in DOMAIN wal /\ Min(rest) > 1 /\ wal[Min(rest)].k = "file"
  <2>1. Min(rest) \in files /\ Min(rest) # 1
    BY <1>3 DEF rest
  <2>2. QED
    BY <1>1, <2>1, WalIs DEF At
<1>6. QED
  BY <1>4, <1>5

\* The records the server writes.
LEMMA NewRecords ==
  /\ \A i \in 0..(MaxIndex + 1) : File(i) \in Rec /\ File(i).k = "file" /\ File(i).i = i
  /\ \A i \in Index, t \in Terms :
       /\ Entry(i, t) \in Rec /\ Entry(i, t).k = "entry" /\ Entry(i, t).i = i /\ Entry(i, t).t = t
       /\ State(i, t) \in Rec /\ State(i, t).k = "state" /\ State(i, t).i = i /\ State(i, t).t = t
       /\ Snap(i, t) \in Rec /\ Snap(i, t).k = "snap" /\ Snap(i, t).i = i /\ Snap(i, t).t = t
<1>1. /\ 0 \in Terms /\ \A i \in Index : i \in 0..(MaxIndex + 1)
  BY BoundsAssumption DEF Terms, Index
<1>2. QED
  BY <1>1 DEF File, Entry, State, Snap, Rec

\* The greater of two indexes.
LEMMA maxIs ==
  \A a, b \in Nat : max(a, b) \in {a, b} /\ a <= max(a, b) /\ b <= max(a, b)
  BY DEF max

\* The first layer holds in the beginning,
LEMMA TypeInit ==
  ASSUME WalInit
  PROVE  TypeInv
<1>1. /\ 0 \in Index /\ 0 \in Terms /\ 0 \in 0..(MaxIndex + 1) /\ 0 \in 0..MaxRestarts
      /\ MaxIndex \in Nat /\ Len(<<>>) = 0
  BY BoundsAssumption DEF Index, Terms
<1>2. wal = <<File(0), Snap(0, 0)>> /\ soft = 0
  BY DEF WalInit
<1>3. /\ File(0) \in Rec /\ Snap(0, 0) \in Rec /\ File(0).k = "file" /\ Snap(0, 0).k = "snap"
      /\ File(0).i = 0 /\ Snap(0, 0).i = 0
  BY <1>1, NewRecords
<1>4. /\ wal \in Seq(Rec) /\ Len(wal) = 2 /\ wal[1] = File(0) /\ wal[2] = Snap(0, 0)
      /\ DOMAIN wal = 1..2
  BY <1>2, <1>3
<1>5. \A p \in DOMAIN wal : p \in {1, 2}
  BY <1>4
<1>6. RecordsOK(wal, Synced, Len(agreed))
  BY <1>1, <1>2, <1>3, <1>4, <1>5 DEF RecordsOK, Synced, WalInit
<1>7. /\ saving \in [step : {"idle", "local", "file", "record", "state"}, i : Index, t : Terms]
      /\ saving.i = 0
  BY <1>1 DEF WalInit, Idle
<1>7a. log \in Seq(Terms) /\ agreed \in Seq(Terms) /\ Len(log) = 0 /\ Len(agreed) = 0
  BY <1>1 DEF WalInit
<1>7b. /\ snaps = {} /\ db = 0 /\ commit = 0 /\ applied = 0 /\ released = 0 /\ server = "up"
       /\ restarts = 0 /\ revived \in BOOLEAN /\ soft = 0
  BY DEF WalInit
<1>7c. MemoryOK
  BY <1>1, <1>7, <1>7a, <1>7b DEF MemoryOK
<1>8. QED
  BY <1>6, <1>7c, TypeInvIs

\* and every step of the server keeps it.
LEMMA TypeStep ==
  ASSUME TypeInv, ServerNext
  PROVE  TypeInv'
<1>0. RecordsOK(wal, Synced, Len(agreed)) /\ MemoryOK
  BY TypeInvIs
<1>1. /\ wal \in Seq(Rec) /\ Len(wal) \in Nat /\ Synced \in 0..Len(wal)
      /\ Len(log) \in Nat /\ Len(agreed) \in Nat /\ MaxIndex \in Nat
      /\ \A x \in Index : x \in Nat /\ x <= MaxIndex /\ x \in 0..(MaxIndex + 1)
      /\ \A x \in Nat : x <= MaxIndex => x \in Index
      /\ Saved.i \in Index /\ Saved.t \in Terms /\ Saved.i <= Len(agreed)
      /\ soft \in Nat
  BY <1>0, WalIs, SavedIs, IndexIs, LenProperties DEF RecordsOK, MemoryOK
<1>1a. \A w, n, l : wal' = w /\ soft' = n /\ Len(w) - n = l => Synced' = l
  BY DEF Synced
<1>2. TypeInv' <=> RecordsOK(wal', Synced', Len(agreed')) /\ MemoryOK'
  <2>1. (TypeInv <=> RecordsOK(wal, Synced, Len(agreed)) /\ MemoryOK)'
    BY TypeInvIs, PTL
  <2>2. QED
    BY <2>1
<1>3. ASSUME NEW i \in 1..MaxIndex, NEW e \in 1..MaxTerm, NEW t \in 1..MaxTerm, AppendEntry(i, e, t)
      PROVE  RecordsOK(wal', Synced', Len(agreed')) /\ MemoryOK'
  <2>1. i \in Index /\ e \in Terms /\ t \in Terms /\ commit \in Index
    BY <1>0, <1>1, BoundsAssumption DEF Terms, MemoryOK
  <2>2. Len(wal) + 1 \in Nat
    BY <1>1
  <2>3. /\ RecordsOK(Append(wal, Entry(i, e)), Len(wal) + 1, Len(agreed))
        /\ Len(Append(wal, Entry(i, e))) = Len(wal) + 1
    <3>1. Entry(i, e) \in Rec /\ Entry(i, e).k = "entry" /\ Entry(i, e).i = i /\ i <= MaxIndex
      BY <1>1, <2>1, NewRecords
    <3>2. QED
      BY <1>0, <1>1, <3>1, RecordsAppend
  <2> DEFINE v == Append(wal, Entry(i, e))
  <2> DEFINE st == State(commit, t)
  <2>4. /\ RecordsOK(Append(v, st), Len(wal) + 2, Len(agreed))
        /\ Len(Append(v, st)) = Len(wal) + 2
    <3>1. st \in Rec /\ st.k = "state" /\ st.i = commit
      BY <2>1, NewRecords
    <3>2. commit <= MaxIndex /\ commit <= Len(agreed)
      BY <1>0, <1>1 DEF MemoryOK
    <3>3. RecordsOK(Append(v, st), Len(v) + 1, Len(agreed)) /\ Len(Append(v, st)) = Len(v) + 1
      BY <1>1, <2>3, <3>1, <3>2, RecordsAppend
    <3>4. QED
      BY <1>1, <2>3, <3>3
  <2>5. wal' = v \/ wal' = Append(v, st)
    <3>1. Entry(i, e) \in Rec /\ st \in Rec
      BY <2>1, NewRecords
    <3>2. /\ wal \o <<Entry(i, e)>> \o <<>> = v
          /\ wal \o <<Entry(i, e)>> \o <<st>> = Append(v, st)
      BY <1>1, <3>1, ConcatIs
    <3>3. \/ wal' = wal \o <<Entry(i, e)>> \o <<>>
          \/ wal' = wal \o <<Entry(i, e)>> \o <<st>>
      BY <1>3 DEF AppendEntry
    <3>4. QED
      BY <3>2, <3>3
  <2> HIDE DEF v, st
  <2>6. soft' = 0 /\ agreed' = agreed
    BY <1>3 DEF AppendEntry
  <2>7. RecordsOK(wal', Synced', Len(agreed'))
    <3>1. CASE wal' = v
      <4>1. Synced' = Len(wal) + 1
        BY <1>1, <2>3, <2>6, <3>1 DEF Synced, v
      <4>2. QED
        BY <2>3, <2>6, <3>1, <4>1 DEF v
    <3>2. CASE wal' = Append(v, st)
      <4>1. Synced' = Len(wal) + 2
        BY <1>1, <2>4, <2>6, <3>2 DEF Synced
      <4>2. QED
        BY <2>4, <2>6, <3>2, <4>1
    <3>3. QED
      BY <2>5, <3>1, <3>2
  <2>8. log' \in Seq(Terms) /\ Len(log') = i
    <3>1. i - 1 \in 0..Len(log) /\ log \in Seq(Terms)
      BY <1>0, <1>1, <1>3 DEF AppendEntry, MemoryOK
    <3>2. SubSeq(log, 1, i - 1) \in Seq(Terms) /\ Len(SubSeq(log, 1, i - 1)) = i - 1
      BY <3>1, PrefixIs
    <3>3. log' = Append(SubSeq(log, 1, i - 1), e)
      BY <1>3 DEF AppendEntry
    <3>4. QED
      BY <2>1, <3>2, <3>3, AppendIs
  <2>9. /\ UNCHANGED <<snaps, db, server, commit, applied, saving, released, restarts, revived>>
        /\ i > commit
    BY <1>3 DEF AppendEntry, past
  <2>10. MemoryOK'
    BY <1>0, <1>1, <2>1, <2>6, <2>8, <2>9 DEF MemoryOK
  <2>11. QED
    BY <2>7, <2>10
<1>4. ASSUME NEW c \in 1..MaxIndex, Commit(c)
      PROVE  RecordsOK(wal', Synced', Len(agreed')) /\ MemoryOK'
  <2>1. /\ UNCHANGED <<wal, soft, snaps, db, server, log, applied, saving, released, restarts,
                       revived>>
        /\ commit' = c /\ commit < c /\ c <= Len(log)
        /\ agreed' = IF c > Len(agreed) THEN SubSeq(log, 1, c) ELSE agreed
    BY <1>4 DEF Commit, disk, past
  <2>2. /\ agreed' \in Seq(Terms) /\ Len(agreed') \in Nat /\ Len(agreed') <= MaxIndex
        /\ Len(agreed) <= Len(agreed') /\ c <= Len(agreed')
    <3>1. log \in Seq(Terms) /\ c \in 0..Len(log) /\ agreed \in Seq(Terms)
      BY <1>0, <1>1, <2>1 DEF MemoryOK
    <3>2. SubSeq(log, 1, c) \in Seq(Terms) /\ Len(SubSeq(log, 1, c)) = c
      BY <3>1, PrefixIs
    <3>3. QED
      BY <1>0, <1>1, <2>1, <3>1, <3>2 DEF MemoryOK
  <2>3. Synced' = Synced
    BY <2>1 DEF Synced
  <2>4. RecordsOK(wal', Synced', Len(agreed'))
    BY <1>0, <1>1, <2>1, <2>2, <2>3, RecordsMore
  <2>5. MemoryOK'
    BY <1>0, <1>1, <2>1, <2>2 DEF MemoryOK
  <2>6. QED
    BY <2>4, <2>5
<1>5. ASSUME SaveState
      PROVE  RecordsOK(wal', Synced', Len(agreed')) /\ MemoryOK'
  <2> DEFINE st == State(commit, Saved.t)
  <2>1. /\ wal' = Append(wal, st) /\ soft' = soft + 1
        /\ UNCHANGED <<snaps, db, log, commit, applied, saving, released, server, restarts,
                       revived, agreed>>
    BY <1>5 DEF SaveState, memory, past
  <2>2. /\ st \in Rec /\ st.k = "state" /\ st.i = commit
        /\ commit <= MaxIndex /\ commit <= Len(agreed)
    BY <1>0, <1>1, NewRecords DEF MemoryOK
  <2> HIDE DEF st
  <2>3. RecordsOK(Append(wal, st), Synced, Len(agreed)) /\ Len(Append(wal, st)) = Len(wal) + 1
    BY <1>0, <1>1, <2>2, RecordsAppend
  <2>4. Synced' = Synced
    BY <1>1, <2>1, <2>3 DEF Synced
  <2>5. MemoryOK'
    BY <1>0, <1>1, <2>1 DEF MemoryOK
  <2>6. QED
    BY <2>1, <2>3, <2>4, <2>5
<1>6. ASSUME NEW batched \in BOOLEAN, Apply(batched)
      PROVE  RecordsOK(wal', Synced', Len(agreed')) /\ MemoryOK'
  <2>1. /\ UNCHANGED <<wal, soft, snaps, server, log, commit, saving, released, restarts,
                       revived, agreed>>
        /\ applied' = commit /\ (db' = db \/ db' = max(db, commit))
    BY <1>6 DEF Apply, past
  <2>2. Synced' = Synced /\ db' \in {db, commit}
    BY <1>0, <1>1, <2>1, maxIs DEF Synced, MemoryOK
  <2>3. MemoryOK'
    BY <1>0, <1>1, <2>1, <2>2 DEF MemoryOK
  <2>4. QED
    BY <1>0, <2>1, <2>2, <2>3
<1>7. ASSUME SnapFile
      PROVE  RecordsOK(wal', Synced', Len(agreed')) /\ MemoryOK'
  <2>1. /\ UNCHANGED <<wal, soft, server, log, commit, applied, released, restarts, revived,
                       agreed>>
        /\ db' = max(db, applied) /\ StartsFrom.i < applied
        /\ snaps' = snaps \cup {Snap(applied, log[applied])}
        /\ saving' = [step |-> "local", i |-> applied, t |-> log[applied]]
    BY <1>7 DEF SnapFile, past
  <2>2. applied \in 1..Len(log) /\ log[applied] \in Terms /\ applied \in Index
    <3>1. applied \in 1..Len(log) /\ log \in Seq(Terms)
      BY <1>0, <1>1, <2>1, StartsFromIs DEF MemoryOK
    <3>2. QED
      BY <1>0, <3>1 DEF MemoryOK
  <2>3. Synced' = Synced /\ db' \in {db, applied}
    BY <1>0, <1>1, <2>1, maxIs DEF Synced, MemoryOK
  <2>4. \A r \in snaps' : r \in snaps \/ r = Snap(applied, log[applied])
    BY <2>1
  <2>5. /\ Snap(applied, log[applied]).i = applied
        /\ Snap(applied, log[applied]).t = log[applied]
    BY <2>2, NewRecords
  <2>6. saving' \in [step : {"idle", "local", "file", "record", "state"}, i : Index, t : Terms]
        /\ saving'.i = applied
    BY <2>1, <2>2
  <2>7. /\ \A r \in snaps' : r.i \in Index /\ r.t \in Terms /\ r = Snap(r.i, r.t)
        /\ \A r \in snaps' : r.i <= Len(agreed)
    BY <1>0, <1>1, <2>2, <2>4, <2>5 DEF MemoryOK
  <2>8. MemoryOK'
    BY <1>0, <1>1, <2>1, <2>2, <2>3, <2>6, <2>7 DEF MemoryOK
  <2>9. QED
    BY <1>0, <2>1, <2>3, <2>8
<1>8. ASSUME NEW x \in Rec, x.k \in {"state", "snap"}, x.i \in Index, x.i <= Len(agreed),
             wal' = Append(wal, x), soft' = 0, agreed' = agreed
      PROVE  RecordsOK(wal', Synced', Len(agreed')) /\ soft' \in Nat
  <2>1. /\ RecordsOK(Append(wal, x), Len(wal) + 1, Len(agreed))
        /\ Len(Append(wal, x)) = Len(wal) + 1
    BY <1>0, <1>1, <1>8, RecordsAppend
  <2>2. Synced' = Len(wal) + 1
    BY <1>1, <1>8, <2>1 DEF Synced
  <2>3. QED
    BY <1>8, <2>1, <2>2
<1>9. saving.i \in Index /\ saving.t \in Terms /\ saving.i <= Len(agreed)
  BY <1>0 DEF MemoryOK
<1>10. Idle \in [step : {"idle", "local", "file", "record", "state"}, i : Index, t : Terms]
       /\ Idle.i = 0
  BY BoundsAssumption DEF Idle, Index, Terms
<1>11. ASSUME SnapRecord
       PROVE  RecordsOK(wal', Synced', Len(agreed')) /\ MemoryOK'
  <2>1. /\ wal' = Append(wal, Snap(saving.i, saving.t)) /\ soft' = 0
        /\ released' = saving.i /\ saving' = Idle
        /\ UNCHANGED <<snaps, db, server, log, commit, applied, restarts, revived, agreed>>
    BY <1>11 DEF SnapRecord, past
  <2>2. RecordsOK(wal', Synced', Len(agreed')) /\ soft' \in Nat
    BY <1>8, <1>9, <2>1, NewRecords
  <2>3. MemoryOK'
    BY <1>0, <1>1, <1>9, <1>10, <2>1, <2>2 DEF MemoryOK
  <2>4. QED
    BY <2>2, <2>3
<1>12. ASSUME NEW i \in 1..MaxIndex, NEW t \in 1..MaxTerm, ReceiveFile(i, t)
       PROVE  RecordsOK(wal', Synced', Len(agreed')) /\ MemoryOK'
  <2>1. /\ UNCHANGED <<wal, soft, db, server, log, commit, applied, released, restarts, revived>>
        /\ snaps' = snaps \cup {Snap(i, t)}
        /\ saving' = [step |-> "file", i |-> i, t |-> t]
        /\ agreed' = agreed \o [n \in 1..(i - Len(agreed)) |-> t]
    BY <1>12 DEF ReceiveFile, past
  <2>2. i \in Index /\ t \in Terms /\ i \in Nat
    BY <1>1, BoundsAssumption DEF Terms
  <2>3. /\ agreed' \in Seq(Terms) /\ Len(agreed') \in Nat /\ Len(agreed') <= MaxIndex
        /\ Len(agreed) <= Len(agreed') /\ i <= Len(agreed')
    <3>1. agreed \in Seq(Terms)
      BY <1>0 DEF MemoryOK
    <3>2. CASE i > Len(agreed)
      <4> DEFINE more == [n \in 1..(i - Len(agreed)) |-> t]
      <4>1. more \in Seq(Terms) /\ Len(more) = i - Len(agreed)
        BY <1>1, <2>2, <3>2
      <4> HIDE DEF more
      <4>2. agreed \o more \in Seq(Terms) /\ Len(agreed \o more) = i
        BY <1>1, <2>2, <3>1, <4>1
      <4>3. QED
        BY <1>1, <2>1, <2>2, <3>2, <4>2 DEF more
    <3>3. CASE i <= Len(agreed)
      <4> DEFINE more == [n \in 1..(i - Len(agreed)) |-> t]
      <4>1. more \in Seq(Terms) /\ Len(more) = 0
        <5>1. 1..(i - Len(agreed)) = 1..0
          BY <1>1, <2>2, <3>3
        <5>2. [n \in 1..0 |-> t] \in Seq(Terms) /\ Len([n \in 1..0 |-> t]) = 0
          BY <2>2
        <5>3. QED
          BY <5>1, <5>2, Zenon
      <4> HIDE DEF more
      <4>2. agreed \o more \in Seq(Terms) /\ Len(agreed \o more) = Len(agreed)
        BY <1>1, <2>2, <3>1, <4>1
      <4>3. agreed' = agreed \o more /\ Len(agreed) <= MaxIndex
        BY <1>0, <2>1 DEF more, MemoryOK
      <4>4. QED
        BY <1>1, <2>2, <3>3, <4>2, <4>3
    <3>4. QED
      BY <1>1, <2>2, <3>2, <3>3
  <2>4. Snap(i, t).i = i /\ Snap(i, t).t = t
    BY <2>2, NewRecords
  <2>5. /\ \A r \in snaps' : r.i \in Index /\ r.t \in Terms /\ r = Snap(r.i, r.t)
        /\ \A r \in snaps' : r.i <= Len(agreed')
    <3>1. \A r \in snaps :
            r.i \in Index /\ r.t \in Terms /\ r = Snap(r.i, r.t) /\ r.i <= Len(agreed)
      BY <1>0 DEF MemoryOK
    <3>2. \A r \in snaps : r.i <= Len(agreed')
      BY <1>1, <2>3, <3>1
    <3>3. \A r \in snaps' : r \in snaps \/ r = Snap(i, t)
      BY <2>1
    <3>4. QED
      BY <2>2, <2>3, <2>4, <3>1, <3>2, <3>3
  <2>6. saving' \in [step : {"idle", "local", "file", "record", "state"}, i : Index, t : Terms]
        /\ saving'.i = i
    BY <2>1, <2>2
  <2>7. MemoryOK'
    <3>1. commit \in Nat /\ db \in Nat /\ commit <= Len(agreed) /\ db <= Len(agreed)
      BY <1>0, <1>1 DEF MemoryOK
    <3>2. commit' <= Len(agreed') /\ db' <= Len(agreed')
      <4>1. commit' = commit /\ db' = db
        BY <2>1
      <4>2. QED
        BY <1>1, <2>3, <3>1, <4>1
    <3>3. QED
      BY <1>0, <2>1, <2>3, <2>5, <2>6, <3>2 DEF MemoryOK
  <2>8. Synced' = Synced
    BY <2>1 DEF Synced
  <2>9. RecordsOK(wal', Synced', Len(agreed'))
    BY <1>0, <1>1, <2>1, <2>3, <2>8, RecordsMore
  <2>10. QED
    BY <2>7, <2>9
<1>13. ASSUME ReceiveRecord
       PROVE  RecordsOK(wal', Synced', Len(agreed')) /\ MemoryOK'
  <2>1. /\ wal' = Append(wal, Snap(saving.i, saving.t)) /\ soft' = 0
        /\ saving' = [saving EXCEPT !.step = "record"]
        /\ UNCHANGED <<snaps, db, server, log, commit, applied, released, restarts, revived,
                       agreed>>
    BY <1>13 DEF ReceiveRecord, past
  <2>2. RecordsOK(wal', Synced', Len(agreed')) /\ soft' \in Nat
    BY <1>8, <1>9, <2>1, NewRecords
  <2>3. saving' \in [step : {"idle", "local", "file", "record", "state"}, i : Index, t : Terms]
        /\ saving'.i = saving.i
    BY <1>0, <2>1 DEF MemoryOK
  <2>4. MemoryOK'
    BY <1>0, <1>1, <1>9, <2>1, <2>2, <2>3 DEF MemoryOK
  <2>5. QED
    BY <2>2, <2>4
<1>14. ASSUME ReceiveState
       PROVE  RecordsOK(wal', Synced', Len(agreed')) /\ MemoryOK'
  <2>1. /\ wal' = Append(wal, State(saving.i, max(Saved.t, saving.t))) /\ soft' = 0
        /\ saving' = [saving EXCEPT !.step = "state"]
        /\ UNCHANGED <<snaps, db, server, log, commit, applied, released, restarts, revived,
                       agreed>>
    BY <1>14 DEF ReceiveState, past
  <2>2. max(Saved.t, saving.t) \in Terms
    BY <1>1, <1>9 DEF max
  <2>3. RecordsOK(wal', Synced', Len(agreed')) /\ soft' \in Nat
    BY <1>8, <1>9, <2>1, <2>2, NewRecords
  <2>4. saving' \in [step : {"idle", "local", "file", "record", "state"}, i : Index, t : Terms]
        /\ saving'.i = saving.i
    BY <1>0, <2>1 DEF MemoryOK
  <2>5. MemoryOK'
    BY <1>0, <1>1, <1>9, <2>1, <2>3, <2>4 DEF MemoryOK
  <2>6. QED
    BY <2>3, <2>5
<1>15. ASSUME ReceiveDb
       PROVE  RecordsOK(wal', Synced', Len(agreed')) /\ MemoryOK'
  <2>1. /\ db' = max(db, saving.i) /\ log' = SubSeq(agreed, 1, saving.i)
        /\ commit' = saving.i /\ applied' = saving.i /\ released' = saving.i /\ saving' = Idle
        /\ UNCHANGED <<wal, soft, snaps, server, restarts, revived, agreed>>
    BY <1>15 DEF ReceiveDb, past
  <2>2. log' \in Seq(Terms) /\ Len(log') = saving.i
    <3>1. agreed \in Seq(Terms) /\ saving.i \in 0..Len(agreed)
      BY <1>0, <1>1, <1>9 DEF MemoryOK
    <3>2. QED
      BY <2>1, <3>1, PrefixIs
  <2>3. Synced' = Synced /\ db' \in {db, saving.i}
    BY <1>0, <1>1, <1>9, <2>1, maxIs DEF Synced, MemoryOK
  <2>4. MemoryOK'
    BY <1>0, <1>1, <1>9, <1>10, <2>1, <2>2, <2>3 DEF MemoryOK
  <2>5. QED
    BY <1>0, <2>1, <2>3, <2>4
<1>16. ASSUME Cut
       PROVE  RecordsOK(wal', Synced', Len(agreed')) /\ MemoryOK'
  <2> DEFINE f == File(Len(log) + 1)
  <2> DEFINE v == Append(wal, f)
  <2>1. /\ wal' = wal \o <<f, Saved>> /\ soft' = 0
        /\ UNCHANGED <<snaps, db, log, commit, applied, saving, released, server, restarts,
                       revived, agreed>>
    BY <1>16 DEF Cut, memory, past
  <2>2. f \in Rec /\ f.k = "file"
    BY <1>0, <1>1, NewRecords DEF MemoryOK
  <2>3. Saved \in Rec /\ Saved.k = "state" /\ Saved.i <= MaxIndex
    BY <1>1, SavedIs, NewRecords
  <2> HIDE DEF f
  <2>4. wal' = Append(v, Saved)
    BY <1>1, <2>1, <2>2, <2>3, ConcatIs
  <2>5. RecordsOK(v, Len(wal) + 1, Len(agreed)) /\ Len(v) = Len(wal) + 1
    BY <1>0, <1>1, <2>2, RecordsAppend
  <2> HIDE DEF v
  <2>6. RecordsOK(wal', Len(v) + 1, Len(agreed)) /\ Len(wal') = Len(v) + 1
    BY <1>1, <2>3, <2>4, <2>5, RecordsAppend
  <2>7. Synced' = Len(v) + 1
    BY <1>1, <2>1, <2>5, <2>6 DEF Synced
  <2>8. MemoryOK'
    BY <1>0, <1>1, <2>1 DEF MemoryOK
  <2>9. QED
    BY <2>1, <2>6, <2>7, <2>8
<1>17. ASSUME Purge
       PROVE  RecordsOK(wal', Synced', Len(agreed')) /\ MemoryOK'
  <2>1. UNCHANGED <<soft, snaps, db, log, commit, applied, saving, released, server, restarts,
                    revived, agreed>>
    BY <1>17 DEF Purge, memory, past
  <2>2. PICK m \in DOMAIN wal : wal[m].k = "file" /\ wal' = SubSeq(wal, m, Len(wal))
    BY <1>17, PurgeIs
  <2>3. RecordsOK(wal', Synced - m + 1, Len(agreed)) /\ Len(wal') = Len(wal) - m + 1
    BY <1>0, <1>1, <2>2, RecordsPurge
  <2>4. Synced' = Synced - m + 1
    BY <1>1, <2>1, <2>2, <2>3, WalIs DEF Synced
  <2>5. MemoryOK'
    BY <1>0, <1>1, <2>1 DEF MemoryOK
  <2>6. QED
    BY <2>1, <2>3, <2>4, <2>5
<1>18. ASSUME Stop
       PROVE  RecordsOK(wal', Synced', Len(agreed')) /\ MemoryOK'
  <2>1. /\ UNCHANGED <<wal, snaps, log, commit, applied, saving, released, restarts, revived,
                       agreed>>
        /\ server' = "stopped" /\ soft' = 0 /\ db' = max(db, applied)
    BY <1>18 DEF Stop, memory, past
  <2>2. Synced' = Len(wal) /\ db' \in {db, applied}
    BY <1>0, <1>1, <2>1, maxIs DEF Synced, MemoryOK
  <2>3. RecordsOK(wal', Synced', Len(agreed'))
    BY <1>0, <1>1, <2>1, <2>2, RecordsMore
  <2>4. MemoryOK'
    BY <1>0, <1>1, <2>1, <2>2 DEF MemoryOK
  <2>5. QED
    BY <2>3, <2>4
<1>19. ASSUME NEW lost \in 0..soft, Crash(lost)
       PROVE  RecordsOK(wal', Synced', Len(agreed')) /\ MemoryOK'
  <2>1. /\ UNCHANGED <<snaps, db, log, restarts, revived, agreed>>
        /\ server' = "crashed" /\ soft' = 0 /\ wal' = SubSeq(wal, 1, Len(wal) - lost)
        /\ commit' = 0 /\ applied' = 0 /\ saving' = Idle /\ released' = 0
    BY <1>19 DEF Crash, past
  <2>2. Len(wal) - lost \in Synced..Len(wal)
    BY <1>1 DEF Synced
  <2>3. /\ RecordsOK(wal', Len(wal) - lost, Len(agreed)) /\ Len(wal') = Len(wal) - lost
    BY <1>0, <1>1, <2>1, <2>2, RecordsLost
  <2>4. Synced' = Len(wal) - lost
    BY <1>1, <2>1, <2>3 DEF Synced
  <2>5. 0 \in Index /\ 0 \in 0..(MaxIndex + 1)
    BY <1>1
  <2>6. MemoryOK'
    BY <1>0, <1>1, <1>10, <2>1, <2>5 DEF MemoryOK
  <2>7. QED
    BY <2>1, <2>3, <2>4, <2>6
<1>20. ASSUME Restart
       PROVE  RecordsOK(wal', Synced', Len(agreed')) /\ MemoryOK'
  <2>1. /\ UNCHANGED <<wal, soft, snaps, saving, agreed>>
        /\ restarts < MaxRestarts /\ restarts' = restarts + 1 /\ server' = "up"
        /\ log' = RestartLog /\ commit' = Saved.i /\ applied' = StartsFrom.i
        /\ released' = StartsFrom.i + 1 /\ db' = max(db, StartsFrom.i)
        /\ Saved.i <= Len(RestartLog)
        /\ ~ErrFileNotFound(StartsFrom) /\ ReadAll(StartsFrom).err = "nil"
    BY <1>20 DEF Restart
  <2>2. revived' \in BOOLEAN
    BY <1>20 DEF Restart
  <2>3. RestartLog \in Seq(Terms) /\ Len(RestartLog) \in Index
    BY <2>1, RestartLogIs
  <2>4. StartsFrom.i \in Index /\ StartsFrom.i <= Saved.i /\ StartsFrom.i <= Len(agreed)
    BY StartsFromIs
  <2>5. Synced' = Synced /\ db' \in {db, StartsFrom.i}
    BY <1>0, <1>1, <2>1, <2>4, maxIs DEF Synced, MemoryOK
  <2>6. released' \in 0..(MaxIndex + 1) /\ restarts' \in 0..MaxRestarts
    BY <1>0, <1>1, <2>1, <2>4, BoundsAssumption DEF MemoryOK
  <2>7. MemoryOK'
    BY <1>0, <1>1, <2>1, <2>2, <2>3, <2>4, <2>5, <2>6 DEF MemoryOK
  <2>8. QED
    BY <1>0, <2>1, <2>5, <2>7
<1>21. QED
  BY <1>2, <1>3, <1>4, <1>5, <1>6, <1>7, <1>11, <1>12, <1>13, <1>14, <1>15, <1>16, <1>17, <1>18,
     <1>19, <1>20 DEF ServerNext

-----------------------------------------------------------------------------
(* The second layer: the order of the records.                             *)


-----------------------------------------------------------------------------
(* The second layer: the order of the records.                             *)

\* What all lemmas about sequences of records use.
LEMMA SeqFacts ==
  ASSUME NEW w \in Seq(Rec)
  PROVE  /\ Len(w) \in Nat /\ DOMAIN w = 1..Len(w)
         /\ \A p \in DOMAIN w : w[p].i \in Nat /\ w[p].k \in {"file", "entry", "state", "snap"}
  BY RecIs, LenProperties

\* The last HardState is the greatest.
LEMMA LastStateGreatest ==
  ASSUME NEW w \in Seq(Rec), Monotone(w)
  PROVE  \A p \in DOMAIN w : w[p].k = "state" => w[p].i <= LastState(w).i
<1>1. TAKE p \in DOMAIN w
<1>2. HAVE w[p].k = "state"
<1>3. p \in At(w, "state")
  BY <1>2 DEF At
<1>4. PICK q \in At(w, "state") : LastState(w) = w[q] /\ \A r \in At(w, "state") : r <= q
  BY <1>3, LastStateIs
<1>5. p <= q /\ q \in DOMAIN w /\ w[q].k = "state"
  BY <1>3, <1>4 DEF At
<1>6. p < q \/ p = q
  BY <1>5, SeqFacts
<1>7. QED
  BY <1>2, <1>4, <1>5, <1>6, SeqFacts DEF Monotone

\* One more record is the last HardState, or changes nothing about it.
LEMMA LastStateAppend ==
  ASSUME NEW w \in Seq(Rec), NEW x \in Rec
  PROVE  /\ x.k = "state" => LastState(Append(w, x)) = x
         /\ x.k # "state" => LastState(Append(w, x)) = LastState(w)
<1> DEFINE v == Append(w, x)
<1>1. /\ v \in Seq(Rec) /\ Len(v) = Len(w) + 1 /\ v[Len(w) + 1] = x
      /\ \A p \in 1..Len(w) : v[p] = w[p]
  BY AppendIs
<1>2. Len(w) \in Nat /\ DOMAIN w = 1..Len(w) /\ DOMAIN v = 1..(Len(w) + 1)
  BY <1>1, LenProperties
<1> HIDE DEF v
<1>3. CASE x.k = "state"
  <2>1. Len(w) + 1 \in At(v, "state") /\ \A q \in At(v, "state") : q <= Len(w) + 1
    BY <1>1, <1>2, <1>3 DEF At
  <2>2. LastState(v) = v[Len(w) + 1]
    BY <1>1, <2>1, LastStateIs
  <2>3. QED
    BY <1>1, <1>3, <2>2 DEF v
<1>4. CASE x.k # "state"
  <2>1. At(v, "state") = At(w, "state")
    <3>1. \A p \in DOMAIN v : (p \in DOMAIN w /\ v[p] = w[p]) \/ (p = Len(w) + 1 /\ v[p] = x)
      BY <1>1, <1>2
    <3>2. \A p \in DOMAIN w : p \in DOMAIN v /\ v[p] = w[p]
      BY <1>1, <1>2
    <3>3. QED
      BY <1>4, <3>1, <3>2 DEF At
  <2>2. CASE At(w, "state") = {}
    BY <1>1, <2>1, <2>2, LastStateIs, <1>4 DEF v
  <2>3. CASE At(w, "state") # {}
    <3>1. PICK q \in At(w, "state") : LastState(w) = w[q] /\ \A r \in At(w, "state") : r <= q
      BY <2>3, LastStateIs
    <3>2. LastState(v) = v[q] /\ v[q] = w[q]
      <4>1. LastState(v) = v[q]
        BY <1>1, <2>1, <3>1, LastStateIs
      <4>2. QED
        BY <1>1, <1>2, <3>1, <4>1 DEF At
    <3>3. QED
      BY <1>4, <3>1, <3>2 DEF v
  <2>4. QED
    BY <2>2, <2>3
<1>5. QED
  BY <1>3, <1>4

\* Purging up to a segment that begins with a HardState keeps the last one.
LEMMA LastStatePurge ==
  ASSUME NEW w \in Seq(Rec), NEW m \in DOMAIN w, m + 1 \in DOMAIN w, w[m + 1].k = "state"
  PROVE  LastState(SubSeq(w, m, Len(w))) = LastState(w)
<1> DEFINE v == SubSeq(w, m, Len(w))
<1>1. /\ v \in Seq(Rec) /\ Len(v) = Len(w) - m + 1
      /\ \A p \in 1..(Len(w) - m + 1) : v[p] = w[m + p - 1]
  BY SeqFacts, SuffixIs
<1> HIDE DEF v
<1>2. Len(w) \in Nat /\ DOMAIN w = 1..Len(w) /\ DOMAIN v = 1..(Len(w) - m + 1) /\ m \in Nat
  BY <1>1, SeqFacts
<1>3. PICK q \in At(w, "state") : LastState(w) = w[q] /\ \A r \in At(w, "state") : r <= q
  <2>1. m + 1 \in At(w, "state")
    BY DEF At
  <2>2. QED
    BY <2>1, LastStateIs
<1>4. q \in DOMAIN w /\ w[q].k = "state" /\ q >= m + 1
  BY <1>3 DEF At
<1>5. q - m + 1 \in DOMAIN v /\ v[q - m + 1] = w[q]
  <2>1. q - m + 1 \in 1..(Len(w) - m + 1) /\ m + (q - m + 1) - 1 = q
    BY <1>2, <1>4
  <2>2. QED
    BY <1>1, <1>2, <2>1
<1>6. \A r \in At(v, "state") : r <= q - m + 1
  <2>1. TAKE r \in At(v, "state")
  <2>2. r \in 1..(Len(w) - m + 1) /\ v[r].k = "state"
    BY <1>2 DEF At
  <2>3. m + r - 1 \in At(w, "state")
    <3>1. m + r - 1 \in DOMAIN w /\ v[r] = w[m + r - 1]
      BY <1>1, <1>2, <2>2
    <3>2. QED
      BY <2>2, <3>1 DEF At
  <2>4. m + r - 1 <= q
    BY <1>3, <2>3
  <2>5. QED
    BY <1>2, <1>4, <2>2, <2>4
<1>7. q - m + 1 \in At(v, "state")
  BY <1>4, <1>5 DEF At
<1>8. LastState(v) = v[q - m + 1]
  BY <1>1, <1>6, <1>7, LastStateIs
<1>9. QED
  BY <1>3, <1>5, <1>8 DEF v

\* One more record that begins no segment keeps the order.
LEMMA OrderAppend ==
  ASSUME NEW w \in Seq(Rec), NEW n \in 0..Len(w), Len(w) >= 1, Ordered(w, n), NEW x \in Rec,
         x.k # "file", x.k = "state" => LastState(w).i <= x.i
  PROVE  Ordered(Append(w, x), n) /\ Ordered(Append(w, x), Len(w) + 1)
<1> DEFINE v == Append(w, x)
<1>1. /\ v \in Seq(Rec) /\ Len(v) = Len(w) + 1 /\ v[Len(w) + 1] = x
      /\ \A p \in 1..Len(w) : v[p] = w[p]
  BY AppendIs
<1>2. Len(w) \in Nat /\ DOMAIN w = 1..Len(w) /\ DOMAIN v = 1..(Len(w) + 1)
  BY <1>1, SeqFacts
<1> HIDE DEF v
<1>3. \A p \in DOMAIN v : (p \in DOMAIN w /\ v[p] = w[p]) \/ (p = Len(w) + 1 /\ v[p] = x)
  BY <1>1, <1>2
<1>4. \A p \in DOMAIN w : p < Len(w) + 1 /\ p \in DOMAIN v /\ v[p] = w[p]
  BY <1>1, <1>2
<1>5. \A p \in DOMAIN w : w[p].k = "state" => w[p].i <= LastState(w).i
  BY LastStateGreatest DEF Ordered
<1>6. Monotone(v)
  <2>1. SUFFICES ASSUME NEW p \in DOMAIN v, NEW q \in DOMAIN v,
                        p < q, v[p].k = "state", v[q].k = "state"
                 PROVE  v[p].i <= v[q].i
    BY DEF Monotone
  <2>2. CASE q \in DOMAIN w /\ v[q] = w[q]
    BY <1>2, <1>3, <2>1, <2>2 DEF Ordered, Monotone
  <2>3. CASE q = Len(w) + 1 /\ v[q] = x
    <3>1. p \in DOMAIN w /\ v[p] = w[p]
      BY <1>2, <1>3, <2>1, <2>3
    <3>2. w[p].i \in Nat /\ x.i \in Nat /\ w[p].i <= LastState(w).i /\ LastState(w).i <= x.i
      BY <1>1, <1>3, <1>5, <2>1, <2>3, <3>1, SeqFacts
    <3>3. LastState(w).i \in Nat
      <4>1. At(w, "state") # {}
        BY <2>1, <3>1 DEF At
      <4>2. PICK r \in At(w, "state") : LastState(w) = w[r]
        BY <4>1, LastStateIs
      <4>3. QED
        BY <4>2, SeqFacts DEF At
    <3>4. QED
      BY <2>3, <3>1, <3>2, <3>3
  <2>4. QED
    BY <1>3, <2>2, <2>3
<1>7. ASSUME NEW m \in DOMAIN v, v[m].k = "file", m > 1 \/ v[m].i > 0
      PROVE  /\ v[m].i >= 1 /\ m + 1 <= n /\ v[m + 1].k = "state"
  <2>1. m \in DOMAIN w /\ v[m] = w[m]
    BY <1>3, <1>7
  <2>2. w[m].i >= 1 /\ m + 1 <= n /\ w[m + 1].k = "state"
    BY <1>7, <2>1 DEF Ordered, Headed
  <2>3. m + 1 \in DOMAIN w
    BY <1>2, <2>1, <2>2
  <2>4. QED
    BY <1>4, <2>1, <2>2, <2>3
<1>8. Headed(v, n) /\ Headed(v, Len(w) + 1)
  <2>1. \A m \in DOMAIN v : m + 1 <= n => m + 1 <= Len(w) + 1
    BY <1>2
  <2>2. QED
    BY <1>7, <2>1 DEF Headed
<1>9. SnapsBelow(v)
  <2>1. SUFFICES ASSUME NEW p \in DOMAIN v, NEW m \in DOMAIN v,
                        p < m, v[p].k = "snap", v[m].k = "file"
                 PROVE  v[p].i < v[m].i
    BY DEF SnapsBelow
  <2>2. m \in DOMAIN w /\ v[m] = w[m]
    BY <1>3, <2>1
  <2>3. p \in DOMAIN w /\ v[p] = w[p]
    BY <1>2, <1>3, <2>1, <2>2
  <2>4. QED
    BY <2>1, <2>2, <2>3 DEF Ordered, SnapsBelow
<1>10. FromStart(v)
  <2>1. v[1] = w[1]
    BY <1>2, <1>4
  <2>2. Len(w) >= 2 => v[2] = w[2]
    BY <1>2, <1>4
  <2>3. QED
    BY <1>1, <1>2, <2>1, <2>2 DEF Ordered, FromStart
<1>11. QED
  BY <1>6, <1>8, <1>9, <1>10 DEF Ordered, v

\* So does a new segment that begins with the last HardState.
LEMMA OrderCut ==
  ASSUME NEW w \in Seq(Rec), NEW n \in 0..Len(w), Len(w) >= 1, Ordered(w, n),
         NEW f \in Rec, NEW x \in Rec, f.k = "file", f.i >= 1, x.k = "state",
         LastState(w).i <= x.i, \A p \in DOMAIN w : w[p].k = "snap" => w[p].i < f.i
  PROVE  Ordered(Append(Append(w, f), x), Len(w) + 2)
<1> DEFINE u == Append(w, f)
<1> DEFINE v == Append(u, x)
<1>1. /\ u \in Seq(Rec) /\ Len(u) = Len(w) + 1 /\ u[Len(w) + 1] = f
      /\ \A p \in 1..Len(w) : u[p] = w[p]
  BY AppendIs
<1>2. Len(w) \in Nat /\ DOMAIN w = 1..Len(w)
  BY SeqFacts
<1> HIDE DEF u
<1>3. /\ v \in Seq(Rec) /\ Len(v) = Len(u) + 1 /\ v[Len(u) + 1] = x
      /\ \A p \in 1..Len(u) : v[p] = u[p]
  BY <1>1, AppendIs
<1> HIDE DEF v
<1>4. /\ DOMAIN v = 1..(Len(w) + 2) /\ Len(v) = Len(w) + 2
      /\ v[Len(w) + 1] = f /\ v[Len(w) + 2] = x /\ \A p \in 1..Len(w) : v[p] = w[p]
  <2>1. Len(v) = Len(w) + 2 /\ Len(u) + 1 = Len(w) + 2 /\ Len(w) + 1 \in 1..Len(u)
    BY <1>1, <1>2, <1>3
  <2>2. DOMAIN v = 1..(Len(w) + 2)
    BY <1>3, <2>1
  <2>3. \A p \in 1..Len(w) : p \in 1..Len(u)
    BY <1>1, <1>2
  <2>4. QED
    BY <1>1, <1>3, <2>1, <2>2, <2>3
<1>5. \A p \in DOMAIN v : \/ p \in DOMAIN w /\ v[p] = w[p]
                          \/ p = Len(w) + 1 /\ v[p] = f
                          \/ p = Len(w) + 2 /\ v[p] = x
  BY <1>2, <1>4
<1>6. \A p \in DOMAIN w : p < Len(w) + 1 /\ p \in DOMAIN v /\ v[p] = w[p]
  BY <1>2, <1>4
<1>7. \A p \in DOMAIN w : w[p].k = "state" => w[p].i <= LastState(w).i
  BY LastStateGreatest DEF Ordered
<1>8. Monotone(v)
  <2>1. SUFFICES ASSUME NEW p \in DOMAIN v, NEW q \in DOMAIN v,
                        p < q, v[p].k = "state", v[q].k = "state"
                 PROVE  v[p].i <= v[q].i
    BY DEF Monotone
  <2>2. p \in DOMAIN w /\ v[p] = w[p]
    BY <1>2, <1>5, <2>1
  <2>3. CASE q \in DOMAIN w /\ v[q] = w[q]
    BY <2>1, <2>2, <2>3 DEF Ordered, Monotone
  <2>4. CASE v[q] = x
    <3>1. w[p].i \in Nat /\ x.i \in Nat /\ w[p].i <= LastState(w).i
      BY <1>3, <1>5, <1>7, <2>1, <2>2, <2>4, SeqFacts
    <3>2. LastState(w).i \in Nat
      <4>1. At(w, "state") # {}
        BY <2>1, <2>2 DEF At
      <4>2. PICK r \in At(w, "state") : LastState(w) = w[r]
        BY <4>1, LastStateIs
      <4>3. QED
        BY <4>2, SeqFacts DEF At
    <3>3. QED
      BY <2>2, <2>4, <3>1, <3>2
  <2>5. QED
    BY <1>5, <2>1, <2>3, <2>4
<1>9. Headed(v, Len(w) + 2)
  <2>1. SUFFICES ASSUME NEW m \in DOMAIN v, v[m].k = "file", m > 1 \/ v[m].i > 0
                 PROVE  v[m].i >= 1 /\ m + 1 <= Len(w) + 2 /\ v[m + 1].k = "state"
    BY DEF Headed
  <2>2. CASE m \in DOMAIN w /\ v[m] = w[m]
    <3>1. w[m].i >= 1 /\ m + 1 <= n /\ w[m + 1].k = "state"
      BY <2>1, <2>2 DEF Ordered, Headed
    <3>2. m + 1 \in DOMAIN w /\ m + 1 <= Len(w) + 2
      BY <1>2, <2>2, <3>1
    <3>3. QED
      BY <1>6, <2>2, <3>1, <3>2
  <2>3. CASE m = Len(w) + 1 /\ v[m] = f
    <3>1. m + 1 = Len(w) + 2
      BY <1>2, <2>3
    <3>2. QED
      BY <1>2, <1>4, <2>3, <3>1
  <2>4. QED
    BY <1>5, <2>1, <2>2, <2>3
<1>10. SnapsBelow(v)
  <2>1. SUFFICES ASSUME NEW p \in DOMAIN v, NEW m \in DOMAIN v,
                        p < m, v[p].k = "snap", v[m].k = "file"
                 PROVE  v[p].i < v[m].i
    BY DEF SnapsBelow
  <2>2. p \in DOMAIN w /\ v[p] = w[p]
    BY <1>2, <1>5, <2>1
  <2>3. (m \in DOMAIN w /\ v[m] = w[m]) \/ v[m] = f
    BY <1>5, <2>1
  <2>4. QED
    BY <2>1, <2>2, <2>3 DEF Ordered, SnapsBelow
<1>11. FromStart(v)
  <2>1. v[1] = w[1]
    BY <1>2, <1>6
  <2>2. Len(w) >= 2 => v[2] = w[2]
    BY <1>2, <1>6
  <2>3. QED
    BY <1>2, <1>4, <2>1, <2>2 DEF Ordered, FromStart
<1>12. QED
  BY <1>8, <1>9, <1>10, <1>11 DEF Ordered, u, v

\* Purging up to a segment keeps it,
LEMMA OrderPurge ==
  ASSUME NEW w \in Seq(Rec), NEW n \in 0..Len(w), Ordered(w, n),
         NEW m \in DOMAIN w, w[m].k = "file", m > 1
  PROVE  Ordered(SubSeq(w, m, Len(w)), n - m + 1)
<1> DEFINE v == SubSeq(w, m, Len(w))
<1>1. /\ v \in Seq(Rec) /\ Len(v) = Len(w) - m + 1
      /\ \A p \in 1..(Len(w) - m + 1) : v[p] = w[m + p - 1]
  BY SeqFacts, SuffixIs
<1> HIDE DEF v
<1>2. Len(w) \in Nat /\ DOMAIN w = 1..Len(w) /\ DOMAIN v = 1..(Len(w) - m + 1) /\ m \in Nat
  BY <1>1, SeqFacts
<1>3. \A p \in DOMAIN v : p \in Nat /\ m + p - 1 \in DOMAIN w /\ v[p] = w[m + p - 1]
  BY <1>1, <1>2
<1>4. \A p, q \in DOMAIN v : p < q => m + p - 1 < m + q - 1
  BY <1>2
<1>5. Monotone(v) /\ SnapsBelow(v)
  BY <1>3, <1>4 DEF Ordered, Monotone, SnapsBelow
<1>6. Headed(v, n - m + 1)
  <2>1. SUFFICES ASSUME NEW p \in DOMAIN v, v[p].k = "file"
                 PROVE  v[p].i >= 1 /\ p + 1 <= n - m + 1 /\ v[p + 1].k = "state"
    BY DEF Headed
  <2>2. m + p - 1 > 1 /\ m + p - 1 \in DOMAIN w /\ v[p] = w[m + p - 1]
    BY <1>2, <1>3
  <2>3. w[m + p - 1].i >= 1 /\ (m + p - 1) + 1 <= n /\ w[(m + p - 1) + 1].k = "state"
    BY <2>1, <2>2 DEF Ordered, Headed
  <2>3a. p \in 1..(Len(w) - m + 1) /\ (m + p - 1) + 1 <= n /\ n \in 0..Len(w)
    BY <1>2, <2>3
  <2>3b. p + 1 \in 1..(Len(w) - m + 1) /\ m + (p + 1) - 1 = (m + p - 1) + 1 /\ p + 1 <= n - m + 1
    BY <1>2, <2>3a
  <2>4. p + 1 \in DOMAIN v /\ m + (p + 1) - 1 = (m + p - 1) + 1 /\ p + 1 <= n - m + 1
    BY <1>2, <2>3b
  <2>5. v[p + 1] = w[(m + p - 1) + 1]
    BY <1>3, <2>4
  <2>6. QED
    BY <2>2, <2>3, <2>4, <2>5
<1>7. FromStart(v)
  <2>1. v[1] = w[m] /\ w[m].i >= 1
    <3>1. 1 \in DOMAIN v /\ m + 1 - 1 = m
      BY <1>2
    <3>2. QED
      BY <1>3, <3>1 DEF Ordered, Headed
  <2>2. QED
    BY <2>1, SeqFacts DEF FromStart
<1>8. QED
  BY <1>5, <1>6, <1>7 DEF Ordered, v

\* and losing records that are not synced.
LEMMA OrderLost ==
  ASSUME NEW w \in Seq(Rec), NEW n \in 1..Len(w), Ordered(w, n), NEW l \in n..Len(w),
         \A p \in DOMAIN w : p > n => w[p].k = "state"
  PROVE  Ordered(SubSeq(w, 1, l), l)
<1> DEFINE v == SubSeq(w, 1, l)
<1>1. Len(w) \in Nat /\ DOMAIN w = 1..Len(w) /\ n \in Nat /\ l \in 0..Len(w)
  BY SeqFacts
<1>2. v \in Seq(Rec) /\ Len(v) = l /\ \A p \in 1..l : v[p] = w[p]
  BY <1>1, PrefixIs
<1> HIDE DEF v
<1>3. DOMAIN v = 1..l
  BY <1>1, <1>2
<1>4. \A p \in DOMAIN v : p \in DOMAIN w /\ v[p] = w[p]
  BY <1>1, <1>2, <1>3
<1>5. Monotone(v) /\ SnapsBelow(v)
  BY <1>4 DEF Ordered, Monotone, SnapsBelow
<1>6. Headed(v, l)
  <2>1. SUFFICES ASSUME NEW m \in DOMAIN v, v[m].k = "file", m > 1 \/ v[m].i > 0
                 PROVE  v[m].i >= 1 /\ m + 1 <= l /\ v[m + 1].k = "state"
    BY DEF Headed
  <2>2. w[m].i >= 1 /\ m + 1 <= n /\ w[m + 1].k = "state" /\ v[m] = w[m]
    BY <1>4, <2>1 DEF Ordered, Headed
  <2>3. m + 1 \in DOMAIN v /\ m + 1 <= l
    BY <1>1, <1>3, <2>2
  <2>4. QED
    BY <1>4, <2>2, <2>3
<1>7. FromStart(v)
  <2>1. v[1] = w[1] /\ 1 \in DOMAIN w
    BY <1>1, <1>3, <1>4
  <2>2. ASSUME w[1].i = 0
        PROVE  l >= 2 /\ v[2] = w[2] /\ w[2] = Snap(0, 0)
    <3>1. Len(w) >= 2 /\ w[2] = Snap(0, 0)
      BY <2>2 DEF Ordered, FromStart
    <3>2. w[2].k # "state"
      BY <3>1 DEF Snap
    <3>3. 2 <= n
      BY <1>1, <3>1, <3>2
    <3>4. 2 \in DOMAIN v /\ l >= 2
      BY <1>1, <1>3, <3>3
    <3>5. QED
      BY <1>4, <3>1, <3>4
  <2>3. QED
    BY <1>2, <2>1, <2>2 DEF FromStart
<1>8. QED
  BY <1>5, <1>6, <1>7 DEF Ordered, v

\* What is in the last segment stays there.
LEMMA InLastAppend ==
  ASSUME NEW w \in Seq(Rec), NEW x \in Rec, x.k # "file"
  PROVE  /\ \A r : InLast(r, w) => InLast(r, Append(w, x))
         /\ InLast(x, Append(w, x))
<1> DEFINE v == Append(w, x)
<1>1. /\ v \in Seq(Rec) /\ Len(v) = Len(w) + 1 /\ v[Len(w) + 1] = x
      /\ \A p \in 1..Len(w) : v[p] = w[p]
  BY AppendIs
<1>2. Len(w) \in Nat /\ DOMAIN w = 1..Len(w) /\ DOMAIN v = 1..(Len(w) + 1)
  BY <1>1, SeqFacts
<1> HIDE DEF v
<1>3. \A p \in DOMAIN v : (p \in DOMAIN w /\ v[p] = w[p]) \/ (p = Len(w) + 1 /\ v[p] = x)
  BY <1>1, <1>2
<1>4. \A p \in DOMAIN w : p < Len(w) + 1 /\ p \in DOMAIN v /\ v[p] = w[p]
  BY <1>1, <1>2
<1>5. Len(w) + 1 \in DOMAIN v
  BY <1>2
<1>6. QED
  BY <1>1, <1>3, <1>4, <1>5 DEF InLast, v

\* Purging up to a segment leaves it too.
LEMMA InLastPurge ==
  ASSUME NEW w \in Seq(Rec), NEW m \in DOMAIN w, w[m].k = "file", NEW r, InLast(r, w)
  PROVE  InLast(r, SubSeq(w, m, Len(w)))
<1> DEFINE v == SubSeq(w, m, Len(w))
<1>1. /\ v \in Seq(Rec) /\ Len(v) = Len(w) - m + 1
      /\ \A p \in 1..(Len(w) - m + 1) : v[p] = w[m + p - 1]
  BY SeqFacts, SuffixIs
<1> HIDE DEF v
<1>2. Len(w) \in Nat /\ DOMAIN w = 1..Len(w) /\ DOMAIN v = 1..(Len(w) - m + 1) /\ m \in Nat
  BY <1>1, SeqFacts
<1>3. \A p \in DOMAIN v : p \in Nat /\ m + p - 1 \in DOMAIN w /\ v[p] = w[m + p - 1]
  BY <1>1, <1>2
<1>4. PICK q \in DOMAIN w : w[q] = r /\ \A x \in DOMAIN w : w[x].k = "file" => x < q
  BY DEF InLast
<1>5. q \in 1..Len(w) /\ m < q
  BY <1>2, <1>4
<1>6. q - m + 1 \in DOMAIN v /\ m + (q - m + 1) - 1 = q
  BY <1>2, <1>5
<1>7. v[q - m + 1] = r
  BY <1>3, <1>4, <1>6
<1>8. \A x \in DOMAIN v : v[x].k = "file" => x < q - m + 1
  <2>1. TAKE x \in DOMAIN v
  <2>2. HAVE v[x].k = "file"
  <2>3. m + x - 1 < q /\ x \in Nat
    BY <1>3, <1>4, <2>2
  <2>4. QED
    BY <1>2, <1>5, <2>3
<1>9. QED
  BY <1>6, <1>7, <1>8 DEF InLast, v

\* The second layer holds in the beginning,
LEMMA OrderInit ==
  ASSUME WalInit
  PROVE  OrderInv
<1>1. /\ wal = <<File(0), Snap(0, 0)>> /\ soft = 0 /\ saving = Idle /\ server = "up"
      /\ restarts = 0 /\ revived = FALSE /\ db = 0 /\ commit = 0
  BY DEF WalInit
<1>2. /\ File(0) = [k |-> "file", i |-> 0, t |-> 0] /\ Snap(0, 0) = [k |-> "snap", i |-> 0, t |-> 0]
  BY DEF File, Snap
<1>3. /\ Len(wal) = 2 /\ DOMAIN wal = 1..2 /\ wal[1] = File(0) /\ wal[2] = Snap(0, 0)
  BY <1>1, <1>2
<1>3a. \A p \in DOMAIN wal : p = 1 \/ p = 2
  BY <1>3
<1>4. Ordered(wal, Synced)
  BY <1>2, <1>3, <1>3a DEF Ordered, Monotone, Headed, SnapsBelow, FromStart
<1>5. Saved.i = 0
  <2>1. At(wal, "state") = {}
    BY <1>2, <1>3, <1>3a DEF At
  <2>2. QED
    BY <2>1 DEF Saved, LastState, State
<1>6. Steps
  BY <1>1, <1>5 DEF Steps, Idle, Up
<1>7. QED
  BY <1>4, <1>6 DEF OrderInv

\* and every step of the server keeps it.
LEMMA OrderStep ==
  ASSUME TypeInv, OrderInv, ServerNext
  PROVE  OrderInv'
<1>0. RecordsOK(wal, Synced, Len(agreed)) /\ MemoryOK /\ Ordered(wal, Synced) /\ Steps
  BY TypeInvIs DEF OrderInv
<1>1. /\ wal \in Seq(Rec) /\ Len(wal) \in Nat /\ DOMAIN wal = 1..Len(wal) /\ Len(wal) >= 1
      /\ Synced \in 0..Len(wal) /\ Synced \in 1..Len(wal) /\ soft \in Nat
      /\ \A p \in DOMAIN wal : p > Synced => wal[p].k = "state"
  BY <1>0, WalIs DEF RecordsOK, MemoryOK
<1>2. /\ Len(log) \in Nat /\ Len(agreed) \in Nat /\ MaxIndex \in Nat
      /\ \A x \in Index : x \in Nat
      /\ Saved.i \in Index /\ Saved.i \in Nat /\ Saved.t \in Terms
      /\ saving.i \in Index /\ saving.i \in Nat
      /\ saving.t \in Terms /\ commit \in Nat /\ commit \in Index /\ db \in Nat /\ applied \in Nat
      /\ applied <= commit /\ commit <= Len(log)
      /\ saving.step \in {"idle", "local", "file", "record", "state"}
      /\ server \in {"up", "stopped", "crashed"}
  BY <1>0, SavedIs, IndexIs, LenProperties DEF MemoryOK
<1>3. Saved = LastState(wal) /\ Saved' = LastState(wal')
  BY DEF Saved
<1>4. /\ Up /\ saving.step \in {"idle", "local", "file", "record"} => Saved.i <= commit
      /\ saving.step # "idle" => Up /\ Snap(saving.i, saving.t) \in snaps
      /\ saving.step = "local" => saving.i <= Saved.i
      /\ saving.step \in {"file", "record", "state"} => Len(log) < saving.i
      /\ saving.step \in {"record", "state"} => InLast(Snap(saving.i, saving.t), wal)
      /\ saving.step = "state" => Saved.i = saving.i /\ soft = 0
      /\ ~Up => soft = 0
      /\ server = "stopped" => commit = Saved.i
      /\ restarts = 0 => ~revived
      /\ restarts = 0 /\ server # "crashed" => db <= commit
  BY <1>0 DEF Steps
<1>5. ASSUME NEW x \in Rec, x.k # "file", x.k = "state" => Saved.i <= x.i, wal' = Append(wal, x)
      PROVE  /\ Ordered(wal', Synced) /\ Ordered(wal', Len(wal) + 1) /\ Len(wal') = Len(wal) + 1
             /\ x.k = "state" => Saved' = x
             /\ x.k # "state" => Saved' = Saved
  BY <1>0, <1>1, <1>3, <1>5, OrderAppend, LastStateAppend, AppendIs
<1>6. wal' = wal => Saved' = Saved
  BY <1>3
<1>7. OrderInv' <=> Ordered(wal', Synced') /\ Steps'
  BY DEF OrderInv
<1>8. Up <=> server = "up"
  BY DEF Up
<1>9. Up' <=> server' = "up"
  BY DEF Up
<1>10. ASSUME NEW i \in 1..MaxIndex, NEW e \in 1..MaxTerm, NEW t \in 1..MaxTerm,
              AppendEntry(i, e, t)
       PROVE  OrderInv'
  <2> DEFINE en == Entry(i, e)
  <2> DEFINE st == State(commit, t)
  <2> DEFINE v == Append(wal, en)
  <2>1. /\ Up /\ saving.step \in {"idle", "local"} /\ i > commit /\ soft' = 0
        /\ UNCHANGED <<snaps, db, server, commit, applied, saving, released, restarts, revived,
                       agreed>>
        /\ wal' = wal \o <<en>> \o (IF st = Saved THEN <<>> ELSE <<st>>)
    BY <1>10 DEF AppendEntry, past
  <2>2. en \in Rec /\ st \in Rec /\ en.k = "entry" /\ st.k = "state" /\ st.i = commit
    <3>1. i \in Index /\ e \in Terms /\ t \in Terms
      BY <1>2, IndexIs, BoundsAssumption DEF Terms
    <3>2. QED
      BY <1>2, <3>1, NewRecords
  <2> HIDE DEF en, st
  <2>3. (wal' = v /\ st = Saved) \/ wal' = Append(v, st)
    <3>1. /\ wal \o <<en>> \o <<>> = v
          /\ wal \o <<en>> \o <<st>> = Append(v, st)
      BY <1>1, <2>2, ConcatIs
    <3>2. QED
      BY <2>1, <3>1
  <2>4. v \in Seq(Rec) /\ Len(v) = Len(wal) + 1 /\ LastState(v) = Saved
        /\ Ordered(v, Len(wal) + 1)
    BY <1>0, <1>1, <1>3, <2>2, AppendIs, LastStateAppend, OrderAppend
  <2>4a. saving.step \in {"idle", "local"} => Saved.i <= commit
    BY <1>4, <2>1
  <2> HIDE DEF v
  <2>5. CASE wal' = v /\ st = Saved
    <3>0. Len(wal') = Len(wal) + 1 /\ soft' = 0
      BY <2>1, <2>4, <2>5
    <3>1. Synced' = Len(wal) + 1 /\ Saved' = Saved
      BY <1>1, <1>3, <2>4, <2>5, <3>0 DEF Synced
    <3>2. Ordered(wal', Synced')
      BY <2>4, <2>5, <3>1
    <3>3. Steps'
      BY <1>2, <1>4, <1>8, <1>9, <2>1, <3>1 DEF Steps
    <3>4. QED
      BY <1>7, <3>2, <3>3
  <2>6. CASE wal' = Append(v, st)
    <3>1. LastState(v).i <= st.i /\ Len(v) >= 1 /\ Len(wal) + 1 \in 0..Len(v)
      BY <1>1, <2>1, <2>2, <2>4, <2>4a
    <3>2. /\ Ordered(wal', Len(v) + 1) /\ Len(wal') = Len(v) + 1 /\ LastState(wal') = st
      BY <2>2, <2>4, <2>6, <3>1, OrderAppend, LastStateAppend, AppendIs
    <3>3. Synced' = Len(v) + 1
      BY <1>1, <2>1, <2>4, <3>2 DEF Synced
    <3>4. Saved' = st /\ Saved'.i = commit
      BY <1>3, <2>2, <3>2
    <3>5. Steps'
      BY <1>2, <1>4, <1>8, <1>9, <2>1, <2>4a, <3>4 DEF Steps
    <3>6. QED
      BY <1>7, <3>2, <3>3, <3>5
  <2>7. QED
    BY <2>3, <2>5, <2>6
<1>11. ASSUME NEW c \in 1..MaxIndex, Commit(c)
       PROVE  OrderInv'
  <2>1. /\ UNCHANGED <<wal, soft, snaps, db, server, log, applied, saving, released, restarts,
                       revived>>
        /\ commit' = c /\ commit < c /\ Up /\ saving.step \in {"idle", "local"} /\ commit = Saved.i
    BY <1>11 DEF Commit, Between, disk, past
  <2>2. Ordered(wal', Synced') /\ Saved' = Saved
    BY <1>0, <1>3, <2>1 DEF Synced
  <2>3. Steps'
    BY <1>2, <1>4, <1>8, <1>9, <2>1, <2>2 DEF Steps
  <2>4. QED
    BY <1>7, <2>2, <2>3
<1>12. ASSUME SaveState
       PROVE  OrderInv'
  <2> DEFINE st == State(commit, Saved.t)
  <2>1. /\ wal' = Append(wal, st) /\ soft' = soft + 1 /\ Up /\ saving.step \in {"idle", "local"}
        /\ UNCHANGED <<snaps, db, log, commit, applied, saving, released, server, restarts,
                       revived, agreed>>
    BY <1>12 DEF SaveState, memory, past
  <2>2. st \in Rec /\ st.k = "state" /\ st.i = commit
    BY <1>2, NewRecords
  <2>2a. Saved.i <= commit
    BY <1>4, <2>1
  <2> HIDE DEF st
  <2>3. /\ Ordered(wal', Synced) /\ Len(wal') = Len(wal) + 1 /\ Saved' = st
    BY <1>5, <2>1, <2>2, <2>2a
  <2>4. Synced' = Synced
    BY <1>1, <2>1, <2>3 DEF Synced
  <2>5. Steps'
    BY <1>2, <1>4, <1>8, <1>9, <2>1, <2>2, <2>2a, <2>3 DEF Steps
  <2>6. QED
    BY <1>7, <2>3, <2>4, <2>5
<1>13. ASSUME NEW batched \in BOOLEAN, Apply(batched)
       PROVE  OrderInv'
  <2>1. /\ UNCHANGED <<wal, soft, snaps, server, log, commit, saving, released, restarts,
                       revived, agreed>>
        /\ (db' = db \/ db' = max(db, commit))
    BY <1>13 DEF Apply, past
  <2>2. Ordered(wal', Synced') /\ Saved' = Saved /\ db' \in {db, commit}
    BY <1>0, <1>2, <1>3, <2>1, maxIs DEF Synced
  <2>3. Steps'
    BY <1>2, <1>4, <1>8, <1>9, <2>1, <2>2 DEF Steps
  <2>4. QED
    BY <1>7, <2>2, <2>3
<1>14. ASSUME SnapFile
       PROVE  OrderInv'
  <2>1. /\ UNCHANGED <<wal, soft, server, log, commit, applied, released, restarts, revived,
                       agreed>>
        /\ db' = max(db, applied) /\ Up /\ commit = Saved.i
        /\ snaps' = snaps \cup {Snap(applied, log[applied])}
        /\ saving' = [step |-> "local", i |-> applied, t |-> log[applied]]
    BY <1>14 DEF SnapFile, Between, past
  <2>2. Ordered(wal', Synced') /\ Saved' = Saved /\ db' \in {db, applied}
    BY <1>0, <1>2, <1>3, <2>1, maxIs DEF Synced
  <2>3. saving'.step = "local" /\ saving'.i = applied /\ Snap(saving'.i, saving'.t) \in snaps'
    BY <2>1
  <2>4. Steps'
    BY <1>2, <1>4, <1>8, <1>9, <2>1, <2>2, <2>3 DEF Steps
  <2>5. QED
    BY <1>7, <2>2, <2>4
<1>15. Snap(saving.i, saving.t) \in Rec /\ Snap(saving.i, saving.t).k = "snap"
  BY <1>2, NewRecords
<1>16. ASSUME SnapRecord
       PROVE  OrderInv'
  <2>1. /\ wal' = Append(wal, Snap(saving.i, saving.t)) /\ soft' = 0
        /\ saving' = Idle /\ saving.step = "local" /\ Up
        /\ UNCHANGED <<snaps, db, server, log, commit, applied, restarts, revived, agreed>>
    BY <1>16 DEF SnapRecord, past
  <2>2. Ordered(wal', Len(wal) + 1) /\ Len(wal') = Len(wal) + 1 /\ Saved' = Saved
    BY <1>5, <1>15, <2>1
  <2>3. Synced' = Len(wal) + 1 /\ saving'.step = "idle"
    BY <1>1, <2>1, <2>2 DEF Synced, Idle
  <2>4. Steps'
    BY <1>2, <1>4, <1>8, <1>9, <2>1, <2>2, <2>3 DEF Steps
  <2>5. QED
    BY <1>7, <2>2, <2>3, <2>4
<1>17. ASSUME NEW i \in 1..MaxIndex, NEW t \in 1..MaxTerm, ReceiveFile(i, t)
       PROVE  OrderInv'
  <2>1. /\ UNCHANGED <<wal, soft, db, server, log, commit, applied, released, restarts, revived>>
        /\ snaps' = snaps \cup {Snap(i, t)} /\ Up /\ commit = Saved.i /\ Len(log) < i
        /\ saving' = [step |-> "file", i |-> i, t |-> t]
    BY <1>17 DEF ReceiveFile, Between, past
  <2>2. Ordered(wal', Synced') /\ Saved' = Saved
    BY <1>0, <1>3, <2>1 DEF Synced
  <2>3. saving'.step = "file" /\ saving'.i = i /\ Snap(saving'.i, saving'.t) \in snaps'
    BY <2>1
  <2>4. Steps'
    BY <1>2, <1>4, <1>8, <1>9, <2>1, <2>2, <2>3 DEF Steps
  <2>5. QED
    BY <1>7, <2>2, <2>4
<1>18. ASSUME ReceiveRecord
       PROVE  OrderInv'
  <2>1. /\ wal' = Append(wal, Snap(saving.i, saving.t)) /\ soft' = 0
        /\ saving' = [saving EXCEPT !.step = "record"] /\ saving.step = "file" /\ Up
        /\ UNCHANGED <<snaps, db, server, log, commit, applied, released, restarts, revived,
                       agreed>>
    BY <1>18 DEF ReceiveRecord, past
  <2>2. Ordered(wal', Len(wal) + 1) /\ Len(wal') = Len(wal) + 1 /\ Saved' = Saved
    BY <1>5, <1>15, <2>1
  <2>3. saving'.step = "record" /\ saving'.i = saving.i /\ saving'.t = saving.t
    BY <1>0, <2>1 DEF MemoryOK
  <2>4. Synced' = Len(wal) + 1
    BY <1>1, <2>1, <2>2 DEF Synced
  <2>5. InLast(Snap(saving'.i, saving'.t), wal')
    BY <1>1, <1>15, <2>1, <2>3, InLastAppend
  <2>6. Steps'
    BY <1>2, <1>4, <1>8, <1>9, <2>1, <2>2, <2>3, <2>5 DEF Steps
  <2>7. QED
    BY <1>7, <2>2, <2>4, <2>6
<1>19. ASSUME ReceiveState
       PROVE  OrderInv'
  <2> DEFINE st == State(saving.i, max(Saved.t, saving.t))
  <2>1. /\ wal' = Append(wal, st) /\ soft' = 0
        /\ saving' = [saving EXCEPT !.step = "state"] /\ saving.step = "record" /\ Up
        /\ UNCHANGED <<snaps, db, server, log, commit, applied, released, restarts, revived,
                       agreed>>
    BY <1>19 DEF ReceiveState, past
  <2>2. st \in Rec /\ st.k = "state" /\ st.i = saving.i
    <3>1. max(Saved.t, saving.t) \in Terms
      BY <1>2 DEF max
    <3>2. QED
      BY <1>2, <3>1, NewRecords
  <2>3. Saved.i <= saving.i
    BY <1>2, <1>4, <2>1
  <2> HIDE DEF st
  <2>4. Ordered(wal', Len(wal) + 1) /\ Len(wal') = Len(wal) + 1 /\ Saved' = st
    BY <1>5, <2>1, <2>2, <2>3
  <2>5. saving'.step = "state" /\ saving'.i = saving.i /\ saving'.t = saving.t
    BY <1>0, <2>1 DEF MemoryOK
  <2>6. Synced' = Len(wal) + 1
    BY <1>1, <2>1, <2>4 DEF Synced
  <2>7. InLast(Snap(saving'.i, saving'.t), wal')
    <3>1. InLast(Snap(saving.i, saving.t), wal)
      BY <1>4, <2>1
    <3>2. QED
      BY <1>1, <2>1, <2>2, <2>5, <3>1, InLastAppend
  <2>8. Steps'
    BY <1>2, <1>4, <1>8, <1>9, <2>1, <2>2, <2>4, <2>5, <2>7 DEF Steps
  <2>9. QED
    BY <1>7, <2>4, <2>6, <2>8
<1>20. ASSUME ReceiveDb
       PROVE  OrderInv'
  <2>1. /\ db' = max(db, saving.i) /\ commit' = saving.i /\ saving' = Idle
        /\ Up /\ saving.step = "state"
        /\ UNCHANGED <<wal, soft, snaps, server, restarts, revived, agreed>>
    BY <1>20 DEF ReceiveDb, past
  <2>2. Ordered(wal', Synced') /\ Saved' = Saved /\ db' \in {db, saving.i} /\ saving'.step = "idle"
    BY <1>0, <1>2, <1>3, <2>1, maxIs DEF Synced, Idle
  <2>3. Saved.i = saving.i /\ commit < saving.i
    BY <1>2, <1>4, <2>1
  <2>4. Steps'
    BY <1>2, <1>4, <1>8, <1>9, <2>1, <2>2, <2>3 DEF Steps
  <2>5. QED
    BY <1>7, <2>2, <2>4
<1>21. ASSUME Cut
       PROVE  OrderInv'
  <2> DEFINE f == File(Len(log) + 1)
  <2> DEFINE v == Append(wal, f)
  <2>1. /\ wal' = wal \o <<f, Saved>> /\ soft' = 0 /\ Up /\ saving.step \in {"idle", "local"}
        /\ log # <<>> /\ \A p \in At(wal, "snap") : wal[p].i <= Len(log)
        /\ UNCHANGED <<snaps, db, log, commit, applied, saving, released, server, restarts,
                       revived, agreed>>
    BY <1>21 DEF Cut, Between, memory, past
  <2>2. f \in Rec /\ f.k = "file" /\ f.i = Len(log) + 1
    BY <1>0, <1>2, NewRecords DEF MemoryOK
  <2>3. Saved \in Rec /\ Saved.k = "state"
    BY <1>2, SavedIs, NewRecords
  <2> HIDE DEF f
  <2>4. wal' = Append(v, Saved)
    BY <1>1, <2>1, <2>2, <2>3, ConcatIs
  <2>5. v \in Seq(Rec) /\ Len(v) = Len(wal) + 1 /\ Len(wal') = Len(wal) + 2
    BY <1>1, <2>2, <2>3, <2>4, AppendIs
  <2>6. Saved' = Saved
    BY <1>3, <2>3, <2>4, <2>5, LastStateAppend
  <2>7. Ordered(wal', Len(wal) + 2)
    <3>1. \A p \in DOMAIN wal : wal[p].k = "snap" => wal[p].i < f.i
      <4>1. \A p \in DOMAIN wal : wal[p].k = "snap" => wal[p].i <= Len(log) /\ wal[p].i \in Nat
        BY <1>1, <2>1, SeqFacts DEF At
      <4>2. QED
        BY <1>2, <2>2, <4>1
    <3>2. LastState(wal).i <= Saved.i /\ f.i >= 1
      BY <1>2, <1>3, <2>2
    <3>3. QED
      BY <1>0, <1>1, <2>2, <2>3, <2>4, <3>1, <3>2, OrderCut
  <2>8. Synced' = Len(wal) + 2
    BY <1>1, <2>1, <2>5 DEF Synced
  <2>9. Steps'
    BY <1>2, <1>4, <1>8, <1>9, <2>1, <2>6 DEF Steps
  <2>10. QED
    BY <1>7, <2>7, <2>8, <2>9
<1>22. ASSUME Purge
       PROVE  OrderInv'
  <2>1. /\ Up
        /\ UNCHANGED <<soft, snaps, db, log, commit, applied, saving, released, server, restarts,
                       revived, agreed>>
    BY <1>22 DEF Purge, memory, past
  <2>2. PICK m \in DOMAIN wal : wal[m].k = "file" /\ m > 1 /\ wal' = SubSeq(wal, m, Len(wal))
    BY <1>22, PurgeIs
  <2>3. Ordered(wal', Synced - m + 1)
    BY <1>0, <1>1, <2>2, OrderPurge
  <2>4. m + 1 \in DOMAIN wal /\ wal[m + 1].k = "state"
    <3>1. m + 1 <= Synced /\ wal[m + 1].k = "state"
      BY <1>0, <2>2 DEF Ordered, Headed
    <3>2. QED
      BY <1>1, <2>2, <3>1
  <2>5. Saved' = Saved
    BY <1>1, <1>3, <2>2, <2>4, LastStatePurge
  <2>6. Synced' = Synced - m + 1
    <3>1. Len(wal') = Len(wal) - m + 1
      BY <1>1, <2>2, SuffixIs
    <3>2. QED
      BY <1>1, <2>1, <3>1 DEF Synced
  <2>7. saving.step \in {"record", "state"} => InLast(Snap(saving.i, saving.t), wal')
    BY <1>1, <1>4, <2>2, InLastPurge
  <2>8. Steps'
    BY <1>2, <1>4, <1>8, <1>9, <2>1, <2>5, <2>7 DEF Steps
  <2>9. QED
    BY <1>7, <2>3, <2>6, <2>8
<1>23. Ordered(wal, Len(wal))
  <2>1. \A m \in DOMAIN wal : m + 1 <= Synced => m + 1 <= Len(wal)
    BY <1>1
  <2>2. QED
    BY <1>0, <2>1 DEF Ordered, Headed
<1>24. ASSUME Stop
       PROVE  OrderInv'
  <2>1. /\ UNCHANGED <<wal, snaps, log, commit, applied, saving, released, restarts, revived,
                       agreed>>
        /\ server' = "stopped" /\ soft' = 0 /\ db' = max(db, applied)
        /\ Up /\ commit = Saved.i /\ saving.step = "idle"
    BY <1>24 DEF Stop, Between, memory, past
  <2>2. Synced' = Len(wal) /\ db' \in {db, applied} /\ Saved' = Saved
    BY <1>1, <1>2, <1>3, <2>1, maxIs DEF Synced
  <2>3. Steps'
    BY <1>2, <1>4, <1>8, <1>9, <2>1, <2>2 DEF Steps
  <2>4. QED
    BY <1>7, <1>23, <2>1, <2>2, <2>3
<1>25. ASSUME NEW lost \in 0..soft, Crash(lost)
       PROVE  OrderInv'
  <2>1. /\ UNCHANGED <<snaps, db, log, restarts, revived, agreed>>
        /\ server' = "crashed" /\ soft' = 0 /\ wal' = SubSeq(wal, 1, Len(wal) - lost)
        /\ commit' = 0 /\ saving' = Idle
    BY <1>25 DEF Crash, past
  <2>2. Len(wal) - lost \in Synced..Len(wal) /\ Len(wal) - lost \in 0..Len(wal)
    BY <1>1 DEF Synced
  <2>3. Ordered(wal', Len(wal) - lost)
    BY <1>0, <1>1, <2>1, <2>2, OrderLost
  <2>4. Synced' = Len(wal) - lost
    <3>1. Len(wal') = Len(wal) - lost
      BY <1>1, <2>1, <2>2, PrefixIs
    <3>2. soft' = 0 /\ Len(wal) - lost \in Int
      BY <1>1, <2>1
    <3>3. QED
      BY <3>1, <3>2 DEF Synced
  <2>5. saving'.step = "idle"
    BY <2>1 DEF Idle
  <2>6. Steps'
    BY <1>2, <1>4, <1>8, <1>9, <2>1, <2>5 DEF Steps
  <2>7. QED
    BY <1>7, <2>3, <2>4, <2>6
<1>26. ASSUME Restart
       PROVE  OrderInv'
  <2>1. /\ UNCHANGED <<wal, soft, snaps, saving, agreed>> /\ ~Up
        /\ restarts' = restarts + 1 /\ server' = "up" /\ commit' = Saved.i
    BY <1>26 DEF Restart
  <2>2. Ordered(wal', Synced') /\ Saved' = Saved /\ saving'.step = "idle"
    BY <1>0, <1>2, <1>3, <1>4, <2>1 DEF Synced
  <2>3. restarts' # 0
    BY <1>0, <2>1, BoundsAssumption DEF MemoryOK
  <2>4. Steps'
    BY <1>2, <1>4, <1>8, <1>9, <2>1, <2>2, <2>3 DEF Steps
  <2>5. QED
    BY <1>7, <2>2, <2>4
<1>27. QED
  BY <1>10, <1>11, <1>12, <1>13, <1>14, <1>16, <1>17, <1>18, <1>19, <1>20, <1>21, <1>22, <1>24,
     <1>25, <1>26 DEF ServerNext

-----------------------------------------------------------------------------
(* The third layer: durable snapshots, and what is released.               *)

\* v begins with what w has synced, and with all its records that are not states.
Keeps(w, n, v) ==
  \A p \in DOMAIN w : p <= n \/ w[p].k # "state" => p \in DOMAIN v /\ v[p] = w[p]

\* A durable snapshot remains one if no segment is removed.
LEMMA DurableKept ==
  ASSUME NEW w, NEW v, NEW n \in Nat, NEW l \in Nat, n <= l, Keeps(w, n, v),
         NEW files, NEW more, files \subseteq more, \A r \in files : r.k = "snap",
         DOMAIN w \subseteq Nat
  PROVE  Durable(w, n, files) \subseteq Durable(v, l, more)
<1>1. SUFFICES ASSUME NEW r \in Durable(w, n, files)
               PROVE  r \in Durable(v, l, more)
  OBVIOUS
<1>2. r \in files /\ r \in more /\ r.k = "snap"
  BY DEF Durable
<1>3. PICK p \in DOMAIN w : w[p] = r
  BY DEF Durable, In
<1>4. p \in DOMAIN v /\ v[p] = r
  BY <1>2, <1>3 DEF Keeps
<1>5. PICK x \in DOMAIN w : x <= n /\ w[x].k = "state" /\ r.i <= w[x].i
  BY DEF Durable, Reached
<1>6. x \in DOMAIN v /\ v[x] = w[x] /\ x <= l
  BY <1>5 DEF Keeps
<1>7. QED
  BY <1>2, <1>4, <1>5, <1>6 DEF Durable, In, Reached

\* What a record says that is synced is still said after a purge.
LEMMA ReachedPurge ==
  ASSUME NEW w \in Seq(Rec), NEW n \in 0..Len(w), Ordered(w, n),
         NEW m \in DOMAIN w, m > 1, w[m].k = "file", NEW i \in Nat, Reached(i, w, n)
  PROVE  Reached(i, SubSeq(w, m, Len(w)), n - m + 1)
<1> DEFINE v == SubSeq(w, m, Len(w))
<1>1. /\ v \in Seq(Rec) /\ Len(v) = Len(w) - m + 1
      /\ \A p \in 1..(Len(w) - m + 1) : v[p] = w[m + p - 1]
  BY SeqFacts, SuffixIs
<1> HIDE DEF v
<1>2. Len(w) \in Nat /\ DOMAIN w = 1..Len(w) /\ DOMAIN v = 1..(Len(w) - m + 1) /\ m \in Nat
  BY <1>1, SeqFacts
<1>3. \A p \in m..Len(w) : p - m + 1 \in DOMAIN v /\ v[p - m + 1] = w[p]
  <2>1. TAKE p \in m..Len(w)
  <2>2. p - m + 1 \in 1..(Len(w) - m + 1) /\ m + (p - m + 1) - 1 = p
    BY <1>2
  <2>3. QED
    BY <1>1, <1>2, <2>2
<1>4. PICK x \in DOMAIN w : x <= n /\ w[x].k = "state" /\ i <= w[x].i
  BY DEF Reached
<1>5. m + 1 <= n /\ w[m + 1].k = "state" /\ m + 1 \in DOMAIN w
  <2>1. m + 1 <= n /\ w[m + 1].k = "state"
    BY DEF Ordered, Headed
  <2>2. QED
    BY <1>2, <2>1
<1>6. \E y \in m..Len(w) : y <= n /\ w[y].k = "state" /\ i <= w[y].i
  <2>1. CASE x >= m
    BY <1>2, <1>4, <2>1
  <2>2. CASE x < m
    <3>1. w[x].i <= w[m + 1].i
      BY <1>2, <1>4, <1>5, <2>2 DEF Ordered, Monotone
    <3>2. w[x].i \in Nat /\ w[m + 1].i \in Nat
      BY <1>4, <1>5, SeqFacts
    <3>3. i <= w[m + 1].i /\ m + 1 \in m..Len(w)
      BY <1>2, <1>4, <1>5, <3>1, <3>2
    <3>4. QED
      BY <1>5, <3>3
  <2>3. QED
    BY <1>2, <2>1, <2>2
<1>7. PICK y \in m..Len(w) : y <= n /\ w[y].k = "state" /\ i <= w[y].i
  BY <1>6
<1>8. y - m + 1 \in DOMAIN v /\ v[y - m + 1] = w[y] /\ y - m + 1 <= n - m + 1
  BY <1>2, <1>3, <1>7
<1>9. QED
  BY <1>7, <1>8 DEF Reached, v

\* One whose record is in a segment that is not purged, too.
LEMMA DurablePurge ==
  ASSUME NEW w \in Seq(Rec), NEW n \in 0..Len(w), Ordered(w, n), NEW files,
         \A r \in files : r.k = "snap",
         NEW m \in DOMAIN w, m > 1, w[m].k = "file", NEW r \in Durable(w, n, files)
  PROVE  r \in Durable(SubSeq(w, m, Len(w)), n - m + 1, files) \/ r.i < w[m].i
<1> DEFINE v == SubSeq(w, m, Len(w))
<1>1. /\ v \in Seq(Rec) /\ Len(v) = Len(w) - m + 1
      /\ \A p \in 1..(Len(w) - m + 1) : v[p] = w[m + p - 1]
  BY SeqFacts, SuffixIs
<1> HIDE DEF v
<1>2. Len(w) \in Nat /\ DOMAIN w = 1..Len(w) /\ DOMAIN v = 1..(Len(w) - m + 1) /\ m \in Nat
  BY <1>1, SeqFacts
<1>3. \A p \in m..Len(w) : p - m + 1 \in DOMAIN v /\ v[p - m + 1] = w[p]
  <2>1. TAKE p \in m..Len(w)
  <2>2. p - m + 1 \in 1..(Len(w) - m + 1) /\ m + (p - m + 1) - 1 = p
    BY <1>2
  <2>3. QED
    BY <1>1, <1>2, <2>2
<1>4. r \in files /\ r.k = "snap" /\ In(r, w) /\ Reached(r.i, w, n)
  BY DEF Durable
<1>5. PICK p \in DOMAIN w : w[p] = r
  BY <1>4 DEF In
<1>6. CASE p < m
  BY <1>4, <1>5, <1>6 DEF Ordered, SnapsBelow
<1>7. CASE p >= m
  <2>1. p - m + 1 \in DOMAIN v /\ v[p - m + 1] = r
    BY <1>2, <1>3, <1>5, <1>7
  <2>2. r.i \in Nat
    BY <1>5, SeqFacts
  <2>3. Reached(r.i, v, n - m + 1)
    BY <1>4, <2>2, ReachedPurge DEF v
  <2>4. QED
    BY <1>4, <2>1, <2>3 DEF Durable, In, v
<1>8. QED
  BY <1>2, <1>6, <1>7

\* The durable snapshots of the state.
Kept == Durable(wal, Synced, snaps)

\* What kinds of changes the steps of the server make to the records.
LEMMA WalStep ==
  ASSUME TypeInv, OrderInv, ServerNext
  PROVE  /\ snaps \subseteq snaps' /\ Synced' \in Nat /\ Len(wal') \in Nat
         /\ Purge \/ (Keeps(wal, Synced, wal') /\ Synced <= Synced' /\ wal'[1] = wal[1])
<1>0. RecordsOK(wal, Synced, Len(agreed)) /\ MemoryOK /\ Ordered(wal, Synced)
  BY TypeInvIs DEF OrderInv
<1>1. /\ wal \in Seq(Rec) /\ Len(wal) \in Nat /\ DOMAIN wal = 1..Len(wal) /\ Len(wal) >= 1
      /\ Synced \in 1..Len(wal) /\ soft \in Nat
      /\ \A p \in DOMAIN wal : p > Synced => wal[p].k = "state"
  BY <1>0, WalIs DEF RecordsOK, MemoryOK
<1>2. RecordsOK(wal', Synced', Len(agreed')) /\ MemoryOK'
  <2>1. TypeInv'
    BY TypeStep
  <2>2. (TypeInv <=> RecordsOK(wal, Synced, Len(agreed)) /\ MemoryOK)'
    BY TypeInvIs, PTL
  <2>3. QED
    BY <2>1, <2>2
<1>3. Synced' \in Nat /\ Len(wal') \in Nat /\ soft' \in Nat /\ wal' \in Seq(Rec)
      /\ Synced' = Len(wal') - soft' /\ DOMAIN wal' = 1..Len(wal') /\ Synced = Len(wal) - soft
  BY <1>2, SeqFacts DEF RecordsOK, MemoryOK, Synced
<1>4. snaps \subseteq snaps'
  BY DEF ServerNext, AppendEntry, Commit, SaveState, Apply, SnapFile, SnapRecord, ReceiveFile,
         ReceiveRecord, ReceiveState, ReceiveDb, Cut, Purge, Stop, Crash, Restart, disk
<1>5. ASSUME wal' = wal, soft' = soft \/ soft' = 0
      PROVE  Keeps(wal, Synced, wal') /\ Synced <= Synced' /\ wal'[1] = wal[1]
  BY <1>1, <1>3, <1>5 DEF Keeps
<1>6. ASSUME NEW x \in Rec, wal' = Append(wal, x), soft' = 0 \/ soft' = soft + 1
      PROVE  Keeps(wal, Synced, wal') /\ Synced <= Synced' /\ wal'[1] = wal[1]
  <2>1. Len(wal') = Len(wal) + 1 /\ \A p \in 1..Len(wal) : wal'[p] = wal[p]
    BY <1>1, <1>6, AppendIs
  <2>2. \A p \in DOMAIN wal : p \in DOMAIN wal' /\ wal'[p] = wal[p]
    BY <1>1, <1>3, <2>1
  <2>3. Synced <= Synced'
    BY <1>1, <1>3, <1>6, <2>1
  <2>4. QED
    BY <1>1, <2>2, <2>3 DEF Keeps
<1>7. ASSUME NEW x \in Rec, NEW y \in Rec, wal' = Append(Append(wal, x), y), soft' = 0
      PROVE  Keeps(wal, Synced, wal') /\ Synced <= Synced' /\ wal'[1] = wal[1]
  <2> DEFINE v == Append(wal, x)
  <2>1. v \in Seq(Rec) /\ Len(v) = Len(wal) + 1 /\ \A p \in 1..Len(wal) : v[p] = wal[p]
    BY <1>1, AppendIs
  <2> HIDE DEF v
  <2>2. Len(wal') = Len(wal) + 2 /\ \A p \in 1..Len(v) : wal'[p] = v[p]
    <3>1. wal' = Append(v, y)
      BY <1>7 DEF v
    <3>2. Len(wal') = Len(v) + 1 /\ \A p \in 1..Len(v) : wal'[p] = v[p]
      BY <2>1, <3>1, AppendIs
    <3>3. QED
      BY <1>1, <2>1, <3>2
  <2>3. \A p \in DOMAIN wal : p \in DOMAIN wal' /\ wal'[p] = wal[p]
    <3>1. \A p \in DOMAIN wal : p \in 1..Len(wal) /\ p \in 1..Len(v) /\ p \in 1..Len(wal')
      BY <1>1, <2>1, <2>2
    <3>2. QED
      BY <1>3, <2>1, <2>2, <3>1
  <2>4. Synced <= Synced'
    BY <1>1, <1>3, <1>7, <2>2
  <2>5. QED
    BY <1>1, <2>3, <2>4 DEF Keeps
<1>8. ASSUME NEW i \in 1..MaxIndex, NEW e \in 1..MaxTerm, NEW t \in 1..MaxTerm, AppendEntry(i, e, t)
      PROVE  Keeps(wal, Synced, wal') /\ Synced <= Synced' /\ wal'[1] = wal[1]
  <2> DEFINE en == Entry(i, e)
  <2> DEFINE st == State(commit, t)
  <2>1. soft' = 0 /\ wal' = wal \o <<en>> \o (IF st = Saved THEN <<>> ELSE <<st>>)
    BY <1>8 DEF AppendEntry
  <2>2. en \in Rec /\ st \in Rec
    <3>1. i \in Index /\ e \in Terms /\ t \in Terms /\ commit \in Index
      BY <1>0, IndexIs, BoundsAssumption DEF Terms, MemoryOK
    <3>2. QED
      BY <3>1, NewRecords
  <2> HIDE DEF en, st
  <2>3. wal' = Append(wal, en) \/ wal' = Append(Append(wal, en), st)
    <3>1. /\ wal \o <<en>> \o <<>> = Append(wal, en)
          /\ wal \o <<en>> \o <<st>> = Append(Append(wal, en), st)
      BY <1>1, <2>2, ConcatIs
    <3>2. QED
      BY <2>1, <3>1
  <2>4. QED
    BY <1>6, <1>7, <2>1, <2>2, <2>3
<1>9. saving.i \in Index /\ saving.t \in Terms /\ commit \in Index /\ Saved.i \in Index
      /\ Saved.t \in Terms /\ Saved = State(Saved.i, Saved.t)
  BY <1>0, SavedIs DEF MemoryOK
<1>10. ASSUME SaveState
       PROVE  Keeps(wal, Synced, wal') /\ Synced <= Synced' /\ wal'[1] = wal[1]
  BY <1>6, <1>9, <1>10, NewRecords DEF SaveState
<1>11. ASSUME SnapRecord \/ ReceiveRecord
       PROVE  Keeps(wal, Synced, wal') /\ Synced <= Synced' /\ wal'[1] = wal[1]
  BY <1>6, <1>9, <1>11, NewRecords DEF SnapRecord, ReceiveRecord
<1>12. ASSUME ReceiveState
       PROVE  Keeps(wal, Synced, wal') /\ Synced <= Synced' /\ wal'[1] = wal[1]
  <2>1. max(Saved.t, saving.t) \in Terms
    BY <1>9 DEF max
  <2>2. QED
    BY <1>6, <1>9, <1>12, <2>1, NewRecords DEF ReceiveState
<1>13. ASSUME Cut
       PROVE  Keeps(wal, Synced, wal') /\ Synced <= Synced' /\ wal'[1] = wal[1]
  <2> DEFINE f == File(Len(log) + 1)
  <2>1. wal' = wal \o <<f, Saved>> /\ soft' = 0
    BY <1>13 DEF Cut
  <2>2. f \in Rec
    BY <1>0, IndexIs, LenProperties, NewRecords DEF MemoryOK
  <2>3. Saved \in Rec
    BY <1>9, NewRecords
  <2> HIDE DEF f
  <2>4. wal' = Append(Append(wal, f), Saved)
    BY <1>1, <2>1, <2>2, <2>3, ConcatIs
  <2>5. QED
    BY <1>7, <2>1, <2>2, <2>3, <2>4
<1>14. ASSUME NEW lost \in 0..soft, Crash(lost)
       PROVE  Keeps(wal, Synced, wal') /\ Synced <= Synced' /\ wal'[1] = wal[1]
  <2>1. soft' = 0 /\ wal' = SubSeq(wal, 1, Len(wal) - lost)
    BY <1>14 DEF Crash
  <2>2. Len(wal) - lost \in 0..Len(wal) /\ Synced <= Len(wal) - lost
    BY <1>1, <1>3
  <2>3. Len(wal') = Len(wal) - lost /\ \A p \in 1..(Len(wal) - lost) : wal'[p] = wal[p]
    BY <1>1, <2>1, <2>2, PrefixIs
  <2>4. Synced <= Synced' /\ 1 \in 1..(Len(wal) - lost)
    <3>0. soft' = 0
      BY <2>1
    <3>1. Synced' = Len(wal) - lost
      BY <1>1, <1>3, <2>3, <3>0
    <3>2. QED
      BY <1>1, <2>2, <3>1
  <2>5. \A p \in DOMAIN wal : p <= Synced \/ wal[p].k # "state" =>
          p \in 1..(Len(wal) - lost) /\ p \in DOMAIN wal'
    BY <1>1, <1>3, <2>2, <2>3
  <2>6. QED
    BY <2>3, <2>4, <2>5 DEF Keeps
<1>15. ASSUME \/ \E c \in 1..MaxIndex : Commit(c)
              \/ \E batched \in BOOLEAN : Apply(batched)
              \/ SnapFile \/ \E i \in 1..MaxIndex, t \in 1..MaxTerm : ReceiveFile(i, t)
              \/ ReceiveDb \/ Stop \/ Restart
       PROVE  Keeps(wal, Synced, wal') /\ Synced <= Synced' /\ wal'[1] = wal[1]
  <2>1. wal' = wal /\ (soft' = soft \/ soft' = 0)
    BY <1>15 DEF Commit, Apply, SnapFile, ReceiveFile, ReceiveDb, Stop, Restart, disk
  <2>2. QED
    BY <1>5, <2>1
<1>16. QED
  BY <1>3, <1>4, <1>8, <1>10, <1>11, <1>12, <1>13, <1>14, <1>15 DEF ServerNext

\* A durable snapshot stays, or gives way to a newer one.
LEMMA DurableStep ==
  ASSUME TypeInv, OrderInv, ReleaseInv, ServerNext
  PROVE  \A r \in Kept : \E q \in Durable(wal', Synced', snaps') : r.i <= q.i
<1>0. RecordsOK(wal, Synced, Len(agreed)) /\ MemoryOK /\ Ordered(wal, Synced)
  BY TypeInvIs DEF OrderInv
<1>1. /\ wal \in Seq(Rec) /\ Len(wal) \in Nat /\ DOMAIN wal = 1..Len(wal)
      /\ Synced \in 0..Len(wal) /\ Synced \in Nat /\ soft \in Nat /\ DOMAIN wal \subseteq Nat
      /\ \A p \in DOMAIN wal : wal[p].i \in Nat
  BY <1>0, WalIs DEF RecordsOK, MemoryOK
<1>2. \A r \in snaps : r.k = "snap" /\ r.i \in Nat
  BY <1>0, IndexIs DEF MemoryOK, Snap
<1>3. \A r \in Kept : r.i \in Nat
  BY <1>2 DEF Kept, Durable
<1>4. CASE Keeps(wal, Synced, wal') /\ Synced <= Synced'
  <2>1. Kept \subseteq Durable(wal', Synced', snaps')
    BY <1>1, <1>2, <1>4, WalStep, DurableKept DEF Kept
  <2>2. QED
    BY <1>3, <2>1
<1>5. CASE Purge
  <2>1. snaps' = snaps /\ soft' = soft
    BY <1>5 DEF Purge
  <2>2. PICK m \in DOMAIN wal : /\ m > 1 /\ wal[m].k = "file" /\ wal[m].i < released
                                /\ wal' = SubSeq(wal, m, Len(wal))
    BY <1>5, PurgeIs
  <2>3. Synced' = Synced - m + 1
    <3>1. Len(wal') = Len(wal) - m + 1
      BY <1>1, <2>2, SuffixIs
    <3>2. QED
      BY <1>1, <2>1, <2>2, <3>1 DEF Synced
  <2>4. \A r \in Kept : r \in Durable(wal', Synced', snaps') \/ r.i < wal[m].i
    BY <1>0, <1>1, <1>2, <2>1, <2>2, <2>3, DurablePurge DEF Kept
  <2>5. wal[m].i >= 1 /\ released \in Nat
    BY <1>0, <2>2, IndexIs DEF Ordered, Headed, MemoryOK
  <2>6. PICK r \in Kept : released <= r.i + 1
    BY <1>1, <2>2, <2>5 DEF ReleaseInv, Kept
  <2>7. wal[m].i <= r.i
    BY <1>1, <1>3, <2>2, <2>5, <2>6
  <2>8. r \in Durable(wal', Synced', snaps')
    BY <1>1, <1>3, <2>2, <2>4, <2>7
  <2>9. QED
    BY <1>1, <1>3, <2>2, <2>4, <2>7, <2>8
<1>6. QED
  BY <1>4, <1>5, WalStep

\* The indexes of the snapshots are numbers.
LEMMA SnapIndexes ==
  TypeInv => \A x \in snaps : x.i \in Nat
  BY TypeInvIs, IndexIs DEF MemoryOK

\* So what is relevant after a step was relevant before it.
LEMMA RelevantStep ==
  ASSUME TypeInv, OrderInv, ReleaseInv, ServerNext
  PROVE  \A s : Relevant(s, wal', Synced', snaps') => Relevant(s, wal, Synced, snaps)
<1>1. SUFFICES ASSUME NEW s, Relevant(s, wal', Synced', snaps'), NEW r \in Kept
               PROVE  r.i <= s
  BY DEF Relevant, Kept
<1>2. PICK q \in Durable(wal', Synced', snaps') : r.i <= q.i
  BY DurableStep
<1>3. q.i <= s /\ s \in Nat
  BY <1>1, IndexIs DEF Relevant
<1>4. \A x \in snaps : x.i \in Nat
  BY TypeInvIs, IndexIs DEF MemoryOK
<1>5. \A x \in snaps' : x.i \in Nat
  <2>1. TypeInv'
    BY TypeStep
  <2>2. (TypeInv => \A x \in snaps : x.i \in Nat)'
    BY SnapIndexes, PTL
  <2>3. QED
    BY <2>1, <2>2
<1>6. QED
  BY <1>2, <1>3, <1>4, <1>5 DEF Kept, Durable

\* The third layer holds in the beginning,
LEMMA ReleaseInit ==
  ASSUME WalInit
  PROVE  ReleaseInv
<1>1. wal = <<File(0), Snap(0, 0)>> /\ released = 0
  BY DEF WalInit
<1>2. wal[1] = File(0) /\ File(0).i = 0
  BY <1>1 DEF File
<1>3. QED
  BY <1>1, <1>2 DEF ReleaseInv

\* and every step of the server keeps it.
LEMMA ReleaseStep ==
  ASSUME TypeInv, OrderInv, ReleaseInv, ServerNext
  PROVE  ReleaseInv'
<1>0. RecordsOK(wal, Synced, Len(agreed)) /\ MemoryOK /\ Ordered(wal, Synced) /\ Steps
  BY TypeInvIs DEF OrderInv
<1>1. /\ wal \in Seq(Rec) /\ Len(wal) \in Nat /\ DOMAIN wal = 1..Len(wal)
      /\ Synced \in 1..Len(wal) /\ Synced \in Nat /\ soft \in Nat
      /\ \A p \in DOMAIN wal : wal[p].i \in Nat
      /\ saving.i \in Nat /\ saving.i \in Index /\ saving.t \in Terms /\ released \in Nat
      /\ Saved.i \in Nat
  BY <1>0, WalIs, SavedIs, IndexIs DEF RecordsOK, MemoryOK
<1>1a. 1 \in DOMAIN wal /\ wal[1].i \in Nat
  BY <1>1
<1>2. \A r \in Kept : r.i \in Nat
  BY <1>0, IndexIs DEF MemoryOK, Kept, Durable
<1>3. \A q \in Durable(wal', Synced', snaps') : q.i \in Nat
  <2>1. TypeInv'
    BY TypeStep
  <2>2. (TypeInv => \A x \in snaps : x.i \in Nat)'
    BY SnapIndexes, PTL
  <2>3. QED
    BY <2>1, <2>2 DEF Durable
<1>4. \A n \in Nat :
        (\E r \in Kept : n <= r.i) => \E q \in Durable(wal', Synced', snaps') : n <= q.i
  BY <1>2, <1>3, DurableStep
<1>5. \A n \in Nat :
        (\E r \in Kept : n <= r.i + 1) => \E q \in Durable(wal', Synced', snaps') : n <= q.i + 1
  BY <1>2, <1>3, DurableStep
<1>6. wal'[1].i = 0 \/ \E q \in Durable(wal', Synced', snaps') : wal'[1].i <= q.i
  <2>1. CASE wal'[1] = wal[1]
    BY <1>1a, <1>4, <2>1 DEF ReleaseInv, Kept
  <2>2. CASE Purge
    <3>1. PICK m \in DOMAIN wal : /\ m > 1 /\ wal[m].k = "file" /\ wal[m].i < released
                                  /\ wal' = SubSeq(wal, m, Len(wal))
      BY <2>2, PurgeIs
    <3>2. wal'[1] = wal[m]
      <4>1. 1 \in 1..(Len(wal) - m + 1) /\ m + 1 - 1 = m
        BY <1>1
      <4>2. wal'[1] = wal[m + 1 - 1]
        BY <1>1, <3>1, <4>1, SuffixIs
      <4>3. QED
        BY <4>1, <4>2
    <3>3. wal[m].i >= 1 /\ wal[m].i \in Nat
      BY <1>0, <1>1, <3>1 DEF Ordered, Headed
    <3>4. PICK r \in Kept : released <= r.i + 1
      BY <1>1, <3>1, <3>3 DEF ReleaseInv, Kept
    <3>5. wal[m].i <= r.i
      BY <1>1, <1>2, <3>1, <3>3, <3>4
    <3>6. QED
      BY <1>4, <3>2, <3>3, <3>5
  <2>3. QED
    BY <2>1, <2>2, WalStep
<1>7. released' <= 1 \/ \E q \in Durable(wal', Synced', snaps') : released' <= q.i + 1
  <2>1. CASE released' = released
    BY <1>1, <1>5, <2>1 DEF ReleaseInv, Kept
  <2>2. CASE released' = 0
    BY <2>2
  <2>3. ASSUME saving.i # 0, released' = saving.i, Snap(saving.i, saving.t) \in snaps',
               In(Snap(saving.i, saving.t), wal'), Reached(saving.i, wal', Synced')
        PROVE  \E q \in Durable(wal', Synced', snaps') : released' <= q.i + 1
    <3>1. Snap(saving.i, saving.t).i = saving.i
      BY <1>1, NewRecords
    <3>2. Snap(saving.i, saving.t) \in Durable(wal', Synced', snaps')
      BY <2>3, <3>1 DEF Durable
    <3>3. QED
      BY <1>1, <2>3, <3>1, <3>2
  <2>4. saving.i <= Saved.i /\ saving.i # 0 =>
          \E x \in DOMAIN wal : wal[x].k = "state" /\ saving.i <= wal[x].i
    BY <1>1, SavedIs DEF State
  <2>5. CASE SnapRecord
    <3>1. /\ wal' = Append(wal, Snap(saving.i, saving.t)) /\ soft' = 0 /\ saving.step = "local"
          /\ released' = saving.i /\ snaps' = snaps
      BY <2>5 DEF SnapRecord
    <3>2. CASE saving.i = 0
      BY <3>1, <3>2
    <3>3. CASE saving.i # 0
      <4>1. saving.i <= Saved.i /\ Snap(saving.i, saving.t) \in snaps'
        BY <1>0, <3>1 DEF Steps
      <4>2. Snap(saving.i, saving.t) \in Rec
        BY <1>1, NewRecords
      <4>3. /\ wal' \in Seq(Rec) /\ Len(wal') = Len(wal) + 1
            /\ wal'[Len(wal) + 1] = Snap(saving.i, saving.t)
            /\ \A p \in 1..Len(wal) : wal'[p] = wal[p]
        BY <1>1, <3>1, <4>2, AppendIs
      <4>4. DOMAIN wal' = 1..(Len(wal) + 1) /\ Synced' = Len(wal) + 1
        <5>1. soft' = 0
          BY <3>1
        <5>2. QED
          BY <1>1, <4>3, <5>1 DEF Synced
      <4>5. In(Snap(saving.i, saving.t), wal')
        <5>1. Len(wal) + 1 \in DOMAIN wal'
          BY <1>1, <4>4
        <5>2. QED
          BY <4>3, <5>1 DEF In
      <4>6. Reached(saving.i, wal', Synced')
        <5>1. PICK x \in DOMAIN wal : wal[x].k = "state" /\ saving.i <= wal[x].i
          BY <2>4, <3>3, <4>1
        <5>2. x \in DOMAIN wal' /\ wal'[x] = wal[x] /\ x <= Synced'
          BY <1>1, <4>3, <4>4
        <5>3. QED
          BY <5>1, <5>2 DEF Reached
      <4>7. QED
        BY <2>3, <3>1, <3>3, <4>1, <4>5, <4>6
    <3>4. QED
      BY <3>2, <3>3
  <2>6. CASE ReceiveDb
    <3>1. /\ wal' = wal /\ soft' = soft /\ saving.step = "state"
          /\ released' = saving.i /\ snaps' = snaps
      BY <2>6 DEF ReceiveDb
    <3>2. CASE saving.i = 0
      BY <3>1, <3>2
    <3>3. CASE saving.i # 0
      <4>1. /\ Snap(saving.i, saving.t) \in snaps' /\ InLast(Snap(saving.i, saving.t), wal)
            /\ Saved.i = saving.i /\ soft = 0
        BY <1>0, <3>1 DEF Steps
      <4>2. In(Snap(saving.i, saving.t), wal')
        BY <3>1, <4>1 DEF InLast, In
      <4>3. Synced' = Len(wal)
        BY <1>1, <3>1, <4>1 DEF Synced
      <4>4. PICK x \in DOMAIN wal : wal[x].k = "state" /\ saving.i <= wal[x].i
        BY <1>1, <2>4, <3>3, <4>1
      <4>5. Reached(saving.i, wal', Synced')
        BY <1>1, <3>1, <4>3, <4>4 DEF Reached
      <4>6. QED
        BY <2>3, <3>1, <3>3, <4>1, <4>2, <4>5
    <3>4. QED
      BY <3>2, <3>3
  <2>7. CASE Restart
    <3>1. wal' = wal /\ soft' = soft /\ released' = StartsFrom.i + 1 /\ snaps' = snaps /\ ~Up
      BY <2>7 DEF Restart
    <3>2. /\ StartsFrom.i \in Nat
          /\ StartsFrom = Snap(0, 0) \/ StartsFrom \in snaps
          /\ StartsFrom.i = 0 \/ In(StartsFrom, wal)
          /\ StartsFrom.i <= Saved.i
      BY StartsFromIs, IndexIs
    <3>3. CASE StartsFrom.i = 0
      BY <3>1, <3>3
    <3>4. CASE StartsFrom.i # 0
      <4>1. PICK x \in DOMAIN wal : wal[x].k = "state" /\ StartsFrom.i <= wal[x].i
        <5>1. Saved # State(0, 0)
          BY <1>1, <3>2, <3>4 DEF State
        <5>2. QED
          BY <3>2, <5>1, SavedIs
      <4>2. Synced' = Len(wal)
        <5>1. soft = 0
          BY <1>0, <3>1 DEF Steps
        <5>2. QED
          BY <1>1, <3>1, <5>1 DEF Synced
      <4>3. Reached(StartsFrom.i, wal', Synced')
        BY <1>1, <3>1, <4>1, <4>2 DEF Reached
      <4>4. StartsFrom \in snaps /\ In(StartsFrom, wal)
        BY <3>2, <3>4 DEF Snap
      <4>5. StartsFrom \in Durable(wal', Synced', snaps')
        BY <3>1, <4>3, <4>4 DEF Durable
      <4>6. QED
        BY <3>1, <3>2, <4>5
    <3>5. QED
      BY <3>3, <3>4
  <2>8. released' = released \/ released' = 0 \/ SnapRecord \/ ReceiveDb \/ Restart
    BY DEF ServerNext, AppendEntry, Commit, SaveState, Apply, SnapFile, ReceiveFile,
           ReceiveRecord, ReceiveState, Cut, Purge, Stop, Crash, memory
  <2>9. QED
    BY <2>1, <2>2, <2>5, <2>6, <2>7, <2>8
<1>8. QED
  BY <1>6, <1>7 DEF ReleaseInv

-----------------------------------------------------------------------------
(* The fourth layer: the segments give the log without a gap.              *)

\* Read from the segment at m on, w gives the entries above s up to index n.
Whole(n, w, m, s) == GapFree(w, m, s) /\ (n > s => EndsWith(n, w, m, s))

\* Two WALs with the same entries are read alike.
LEMMA SameEntries ==
  ASSUME NEW w \in Seq(Rec), NEW v \in Seq(Rec), NEW m \in Nat, NEW s \in Nat, NEW n,
         \A p \in DOMAIN w : w[p].k = "entry" => p \in DOMAIN v /\ v[p] = w[p],
         \A p \in DOMAIN v : Later(p, v, m, s) => p \in DOMAIN w /\ w[p] = v[p],
         Whole(n, w, m, s)
  PROVE  Whole(n, v, m, s)
<1>1. /\ DOMAIN w = 1..Len(w) /\ DOMAIN v = 1..Len(v) /\ Len(w) \in Nat /\ Len(v) \in Nat
  BY SeqFacts
<1>2. \A p : Later(p, v, m, s) => Later(p, w, m, s) /\ v[p] = w[p]
  BY DEF Later
<1>3. \A p : Later(p, w, m, s) => Later(p, v, m, s) /\ v[p] = w[p]
  BY DEF Later
<1>4. \A p, q : Follows(p, q, w, m, s) => Follows(p, q, v, m, s)
  BY <1>2, <1>3 DEF Follows, Later
<1>5. GapFree(v, m, s)
  <2>1. SUFFICES ASSUME NEW p \in DOMAIN v, Later(p, v, m, s), v[p].i > s + 1
                 PROVE  \E q \in DOMAIN v : Follows(p, q, v, m, s) /\ v[p].i <= v[q].i + 1
    BY DEF GapFree
  <2>2. Later(p, w, m, s) /\ w[p] = v[p] /\ p \in DOMAIN w
    BY <1>2, <2>1 DEF Later
  <2>3. PICK q \in DOMAIN w : Follows(p, q, w, m, s) /\ w[p].i <= w[q].i + 1
    BY <2>1, <2>2 DEF GapFree, Whole
  <2>4. Follows(p, q, v, m, s) /\ Later(q, w, m, s)
    BY <1>4, <2>3 DEF Follows
  <2>5. v[q] = w[q] /\ q \in DOMAIN v
    BY <1>3, <2>4 DEF Later
  <2>6. QED
    BY <2>2, <2>3, <2>4, <2>5
<1>6. ASSUME EndsWith(n, w, m, s)
      PROVE  EndsWith(n, v, m, s)
  <2>1. PICK q \in DOMAIN w : Follows(Len(w) + 1, q, w, m, s) /\ w[q].i = n
    BY <1>6 DEF EndsWith
  <2>2. Later(q, w, m, s) /\ \A r \in DOMAIN w : Later(r, w, m, s) => r <= q
    BY <1>1, <2>1 DEF Follows
  <2>3. Later(q, v, m, s) /\ v[q] = w[q] /\ q \in DOMAIN v
    BY <1>3, <2>2 DEF Later
  <2>4. \A r \in DOMAIN v : Later(r, v, m, s) => r <= q
    BY <1>2, <2>2 DEF Later
  <2>5. q < Len(v) + 1
    BY <1>1, <2>3
  <2>6. Follows(Len(v) + 1, q, v, m, s)
    BY <2>3, <2>4, <2>5 DEF Follows
  <2>7. QED
    BY <2>1, <2>3, <2>6 DEF EndsWith
<1>7. QED
  BY <1>5, <1>6 DEF Whole

\* A record that is no entry changes nothing for the segments there are.
LEMMA WholeAppend ==
  ASSUME NEW w \in Seq(Rec), NEW x \in Rec, x.k # "entry",
         NEW m \in DOMAIN w, NEW s \in Nat, NEW n, Whole(n, w, m, s)
  PROVE  Whole(n, Append(w, x), m, s)
<1> DEFINE v == Append(w, x)
<1>1. /\ v \in Seq(Rec) /\ Len(v) = Len(w) + 1 /\ v[Len(w) + 1] = x
      /\ \A p \in 1..Len(w) : v[p] = w[p]
  BY AppendIs
<1> HIDE DEF v
<1>2. /\ DOMAIN w = 1..Len(w) /\ DOMAIN v = 1..(Len(w) + 1) /\ Len(w) \in Nat /\ m \in Nat
  BY <1>1, SeqFacts
<1>3. \A p \in DOMAIN w : p \in DOMAIN v /\ v[p] = w[p]
  BY <1>1, <1>2
<1>4. \A p \in DOMAIN v : Later(p, v, m, s) => p \in DOMAIN w /\ w[p] = v[p]
  BY <1>1, <1>2 DEF Later
<1>5. Whole(n, v, m, s)
  BY <1>1, <1>2, <1>3, <1>4, SameEntries
<1>6. QED
  BY <1>5 DEF v

\* An entry that follows the ones there are becomes the end.
LEMMA WholeEntry ==
  ASSUME NEW w \in Seq(Rec), NEW x \in Rec, x.k = "entry", NEW n \in Nat, x.i <= n + 1,
         NEW m \in DOMAIN w, NEW s \in Nat, Whole(n, w, m, s)
  PROVE  Whole(x.i, Append(w, x), m, s)
<1> DEFINE v == Append(w, x)
<1> DEFINE z == Len(w) + 1
<1>1. /\ v \in Seq(Rec) /\ Len(v) = Len(w) + 1 /\ v[Len(w) + 1] = x
      /\ \A p \in 1..Len(w) : v[p] = w[p]
  BY AppendIs
<1>1a. x.i \in Nat
  BY IndexIs DEF Rec
<1> HIDE DEF v
<1>2. /\ DOMAIN w = 1..Len(w) /\ DOMAIN v = 1..(Len(w) + 1) /\ Len(w) \in Nat /\ m \in Nat
      /\ z \in DOMAIN v /\ v[z] = x /\ z > m /\ Len(v) = z /\ z \in Nat
      /\ \A p \in DOMAIN w : p \in Nat /\ p < z /\ w[p].i \in Nat
  BY <1>1, SeqFacts
<1>3. \A p \in DOMAIN w : p \in DOMAIN v /\ v[p] = w[p]
  BY <1>1, <1>2
<1>4. \A p \in DOMAIN v : p = z \/ p \in DOMAIN w
  BY <1>2
<1> HIDE DEF z
<1>5. CASE x.i <= s
  <2>1. \A p \in DOMAIN v : Later(p, v, m, s) => p \in DOMAIN w /\ w[p] = v[p]
    BY <1>1a, <1>2, <1>3, <1>4, <1>5 DEF Later
  <2>2. Whole(n, v, m, s)
    BY <1>1, <1>2, <1>3, <2>1, SameEntries
  <2>3. ~(x.i > s)
    BY <1>1a, <1>5
  <2>4. QED
    BY <2>2, <2>3 DEF Whole, v
<1>6. CASE x.i > s
  <2>1. \A p \in DOMAIN w : Later(p, v, m, s) <=> Later(p, w, m, s)
    BY <1>3 DEF Later
  <2>2. Later(z, v, m, s)
    BY <1>2, <1>6 DEF Later
  <2>3. ASSUME NEW p \in DOMAIN w, NEW q, Follows(p, q, w, m, s)
        PROVE  Follows(p, q, v, m, s) /\ v[q] = w[q] /\ q \in DOMAIN w
    <3>1. Later(q, w, m, s) /\ q < p /\ q \in DOMAIN w
      BY <2>3 DEF Follows, Later
    <3>2. \A r \in DOMAIN v : Later(r, v, m, s) => r <= q \/ r >= p
      <4>1. \A r \in DOMAIN w : Later(r, v, m, s) => r <= q \/ r >= p
        BY <2>1, <2>3 DEF Follows
      <4>2. z >= p
        BY <1>2
      <4>3. QED
        BY <1>4, <4>1, <4>2
    <3>3. QED
      BY <1>3, <2>1, <3>1, <3>2 DEF Follows
  <2>4. ASSUME NEW q \in DOMAIN w, Follows(z, q, w, m, s)
        PROVE  Follows(z, q, v, m, s)
    <3>1. Later(q, v, m, s) /\ q < z
      BY <2>1, <2>4 DEF Follows
    <3>2. \A r \in DOMAIN v : Later(r, v, m, s) => r <= q \/ r >= z
      <4>1. \A r \in DOMAIN w : Later(r, v, m, s) => r <= q \/ r >= z
        BY <2>1, <2>4 DEF Follows
      <4>2. z >= z
        BY <1>2
      <4>3. QED
        BY <1>4, <4>1, <4>2
    <3>3. QED
      BY <3>1, <3>2 DEF Follows
  <2>5. GapFree(v, m, s)
    <3>1. SUFFICES ASSUME NEW p \in DOMAIN v, Later(p, v, m, s), v[p].i > s + 1
                   PROVE  \E q \in DOMAIN v : Follows(p, q, v, m, s) /\ v[p].i <= v[q].i + 1
      BY DEF GapFree
    <3>2. CASE p \in DOMAIN w
      <4>1. PICK q \in DOMAIN w : Follows(p, q, w, m, s) /\ w[p].i <= w[q].i + 1
        BY <1>3, <2>1, <3>1, <3>2 DEF GapFree, Whole
      <4>2. QED
        BY <1>3, <2>3, <3>2, <4>1
    <3>3. CASE p = z
      <4>1. n > s /\ x.i > s + 1
        BY <1>1a, <1>2, <3>1, <3>3
      <4>2. PICK q \in DOMAIN w : Follows(z, q, w, m, s) /\ w[q].i = n
        BY <4>1 DEF EndsWith, Whole, z
      <4>3. v[q].i = n /\ v[p].i <= v[q].i + 1 /\ q \in DOMAIN v
        BY <1>2, <1>3, <3>3, <4>2
      <4>4. QED
        BY <2>4, <3>3, <4>2, <4>3
    <3>4. QED
      BY <1>4, <3>2, <3>3
  <2>6. EndsWith(x.i, v, m, s)
    <3>1. \A r \in DOMAIN v : r <= z /\ z < Len(v) + 1
      BY <1>2, <1>4
    <3>2. Follows(Len(v) + 1, z, v, m, s)
      BY <1>2, <2>2, <3>1 DEF Follows
    <3>3. QED
      BY <1>2, <3>2 DEF EndsWith
  <2>7. QED
    BY <2>5, <2>6 DEF Whole, v
<1>7. QED
  BY <1>1a, <1>5, <1>6

\* Removing segments shifts the ones after them.
LEMMA WholePurge ==
  ASSUME NEW w \in Seq(Rec), NEW c \in DOMAIN w, NEW s \in Nat, NEW n,
         NEW m \in DOMAIN SubSeq(w, c, Len(w))
  PROVE  /\ m + c - 1 \in DOMAIN w /\ SubSeq(w, c, Len(w))[m] = w[m + c - 1]
         /\ Whole(n, w, m + c - 1, s) => Whole(n, SubSeq(w, c, Len(w)), m, s)
<1> DEFINE v == SubSeq(w, c, Len(w))
<1> DEFINE mm == m + c - 1
<1>1. /\ v \in Seq(Rec) /\ Len(v) = Len(w) - c + 1
      /\ \A p \in 1..(Len(w) - c + 1) : v[p] = w[c + p - 1]
  BY SeqFacts, SuffixIs
<1>2. m \in DOMAIN v
  OBVIOUS
<1> HIDE DEF v
<1>3. Len(w) \in Nat /\ DOMAIN w = 1..Len(w) /\ c \in 1..Len(w) /\ DOMAIN v = 1..(Len(w) - c + 1)
  BY <1>1, SeqFacts
<1>4. \A p \in DOMAIN v : p + c - 1 \in DOMAIN w /\ v[p] = w[p + c - 1] /\ p \in Nat
  <2>1. TAKE p \in DOMAIN v
  <2>2. p \in 1..(Len(w) - c + 1) /\ c + p - 1 = p + c - 1 /\ p + c - 1 \in 1..Len(w)
    BY <1>3
  <2>3. QED
    BY <1>1, <1>3, <2>2
<1>5. \A p \in DOMAIN w : p > mm => p - c + 1 \in DOMAIN v /\ (p - c + 1) + c - 1 = p
  BY <1>2, <1>3
<1>6. \A p \in DOMAIN v : Later(p, v, m, s) <=> Later(p + c - 1, w, mm, s)
  BY <1>2, <1>3, <1>4 DEF Later
<1>7. ASSUME NEW p \in Nat, NEW q \in DOMAIN w, Follows(p + c - 1, q, w, mm, s)
      PROVE  /\ q - c + 1 \in DOMAIN v /\ Follows(p, q - c + 1, v, m, s)
             /\ v[q - c + 1] = w[q]
  <2>1. Later(q, w, mm, s) /\ q < p + c - 1 /\ q \in Nat
    BY <1>3, <1>7 DEF Follows
  <2>2. q - c + 1 \in DOMAIN v /\ (q - c + 1) + c - 1 = q
    BY <1>5, <2>1 DEF Later
  <2>3. v[q - c + 1] = w[q] /\ Later(q - c + 1, v, m, s)
    BY <1>4, <1>6, <2>1, <2>2
  <2>4. \A r \in DOMAIN v : Later(r, v, m, s) => r <= q - c + 1 \/ r >= p
    <3>1. SUFFICES ASSUME NEW r \in DOMAIN v, Later(r, v, m, s)
                   PROVE  r <= q - c + 1 \/ r >= p
      OBVIOUS
    <3>2. r + c - 1 <= q \/ r + c - 1 >= p + c - 1
      BY <1>4, <1>6, <1>7, <3>1 DEF Follows
    <3>3. r \in Nat /\ c \in Nat /\ q \in Nat
      BY <1>3, <1>4, <2>1
    <3>4. CASE r + c - 1 <= q
      BY <3>3, <3>4
    <3>5. CASE r + c - 1 >= p + c - 1
      BY <3>3, <3>5
    <3>6. QED
      BY <3>2, <3>4, <3>5
  <2>5. q - c + 1 < p
    BY <1>3, <2>1
  <2>6. QED
    BY <2>2, <2>3, <2>4, <2>5 DEF Follows
<1>8. ASSUME Whole(n, w, mm, s)
      PROVE  Whole(n, v, m, s)
  <2>1. GapFree(v, m, s)
    <3>1. SUFFICES ASSUME NEW p \in DOMAIN v, Later(p, v, m, s), v[p].i > s + 1
                   PROVE  \E q \in DOMAIN v : Follows(p, q, v, m, s) /\ v[p].i <= v[q].i + 1
      BY DEF GapFree
    <3>2. p + c - 1 \in DOMAIN w /\ v[p] = w[p + c - 1] /\ p \in Nat /\ Later(p + c - 1, w, mm, s)
      BY <1>4, <1>6, <3>1
    <3>3. PICK q \in DOMAIN w : Follows(p + c - 1, q, w, mm, s) /\ w[p + c - 1].i <= w[q].i + 1
      BY <1>8, <3>1, <3>2 DEF Whole, GapFree
    <3>4. QED
      BY <1>7, <3>2, <3>3
  <2>2. ASSUME EndsWith(n, w, mm, s)
        PROVE  EndsWith(n, v, m, s)
    <3>1. PICK q \in DOMAIN w : Follows(Len(w) + 1, q, w, mm, s) /\ w[q].i = n
      BY <2>2 DEF EndsWith
    <3>2. Len(v) + 1 \in Nat /\ (Len(v) + 1) + c - 1 = Len(w) + 1
      <4>1. Len(v) = Len(w) - c + 1 /\ Len(w) \in Nat /\ c \in 1..Len(w)
        BY <1>1, <1>3
      <4>2. QED
        BY <4>1
    <3>3. QED
      BY <1>7, <3>1, <3>2 DEF EndsWith
  <2>3. QED
    BY <1>8, <2>1, <2>2 DEF Whole
<1>9. QED
  BY <1>2, <1>4, <1>8 DEF v

\* What the layer says of one start and one segment.
LEMMA SegmentInvIs ==
  SegmentInv <=>
    (~revived =>
       \A s \in Index, m \in DOMAIN wal :
         wal[m].k = "file" /\ wal[m].i <= s /\ Relevant(s, wal, Synced, snaps) =>
           Whole(Len(log), wal, m, s))
  BY DEF SegmentInv, Whole

\* The fourth layer holds in the beginning,
LEMMA SegmentInit ==
  ASSUME WalInit
  PROVE  SegmentInv
<1>1. wal = <<File(0), Snap(0, 0)>> /\ log = <<>>
  BY DEF WalInit
<1>2. \A p \in DOMAIN wal : wal[p].k # "entry"
  BY <1>1 DEF File, Snap
<1>3. Len(log) = 0
  BY <1>1
<1>4. \A m : \A s \in Index : GapFree(wal, m, s) /\ ~(Len(log) > s)
  BY <1>2, <1>3, IndexIs DEF GapFree, Later
<1>5. QED
  BY <1>4 DEF SegmentInv

\* The snapshot of the leader is durable as soon as the HardState has reached it.
LEMMA ReceivedIsDurable ==
  ASSUME TypeInv, OrderInv, saving.step = "state"
  PROVE  Snap(saving.i, saving.t) \in Durable(wal, Synced, snaps)
<1>1. /\ Snap(saving.i, saving.t) \in snaps /\ InLast(Snap(saving.i, saving.t), wal)
      /\ Saved.i = saving.i /\ soft = 0 /\ Len(log) < saving.i
  BY DEF OrderInv, Steps
<1>2. saving.i \in Nat /\ Len(log) \in Nat /\ Len(wal) \in Nat /\ DOMAIN wal = 1..Len(wal)
  BY TypeInvIs, IndexIs, WalIs, LenProperties DEF MemoryOK
<1>3. saving.i >= 1 /\ Synced = Len(wal)
  BY <1>1, <1>2 DEF Synced
<1>4. PICK p \in DOMAIN wal : wal[p].k = "state" /\ wal[p].i = saving.i
  BY <1>1, <1>2, <1>3, SavedIs DEF State
<1>5. Reached(saving.i, wal, Synced)
  BY <1>2, <1>3, <1>4 DEF Reached
<1>6. Snap(saving.i, saving.t).i = saving.i
  BY DEF Snap
<1>7. QED
  BY <1>1, <1>5, <1>6 DEF Durable, InLast, In

\* Where a stopped server starts from is relevant.
LEMMA StartIsRelevant ==
  ASSUME TypeInv, OrderInv, ~Up
  PROVE  Relevant(StartsFrom.i, wal, Synced, snaps)
<1>1. wal \in Seq(Rec) /\ Monotone(wal) /\ StartsFrom.i \in Index
  BY WalIs, StartsFromIs DEF OrderInv, Ordered
<1>2. SUFFICES ASSUME NEW r \in Durable(wal, Synced, snaps)
               PROVE  r.i <= StartsFrom.i
  BY <1>1 DEF Relevant
<1>3. r \in snaps /\ In(r, wal)
  BY DEF Durable
<1>4. PICK p \in DOMAIN wal : wal[p].k = "state" /\ r.i <= wal[p].i
  BY DEF Durable, Reached
<1>5. wal[p].i <= Saved.i
  BY <1>1, <1>4, LastStateGreatest DEF Saved
<1>6. r.i \in Nat /\ wal[p].i \in Nat /\ Saved.i \in Nat
  BY <1>3, SnapIndexes, WalIs, SavedIs, IndexIs
<1>7. r.i <= Saved.i
  BY <1>4, <1>5, <1>6
<1>8. QED
  BY <1>3, <1>7, StartsFromIs

\* No start below it is.
LEMMA StartIsLeast ==
  ASSUME TypeInv, OrderInv, ~Up, NEW s, Relevant(s, wal, Synced, snaps)
  PROVE  StartsFrom.i <= s
<1>1. s \in Nat /\ StartsFrom.i \in Index /\ StartsFrom.i \in Nat /\ Saved.i \in Nat
  BY StartsFromIs, SavedIs, IndexIs DEF Relevant
<1>2. SUFFICES ASSUME StartsFrom.i # 0
               PROVE  StartsFrom \in Durable(wal, Synced, snaps)
  BY <1>1 DEF Relevant
<1>3. StartsFrom \in snaps /\ In(StartsFrom, wal) /\ StartsFrom.i <= Saved.i
  BY <1>2, StartsFromIs DEF Snap
<1>4. DOMAIN wal = 1..Len(wal) /\ Synced = Len(wal)
  BY WalIs DEF OrderInv, Steps, Synced
<1>5. PICK x \in DOMAIN wal : wal[x].k = "state" /\ StartsFrom.i <= wal[x].i
  <2>1. Saved # State(0, 0)
    BY <1>1, <1>2, <1>3 DEF State
  <2>2. QED
    BY <1>3, <2>1, SavedIs
<1>6. Reached(StartsFrom.i, wal, Synced)
  BY <1>4, <1>5 DEF Reached
<1>7. QED
  BY <1>3, <1>6 DEF Durable

\* and every step of the server keeps it.
LEMMA SegmentStep ==
  ASSUME TypeInv, OrderInv, ReleaseInv, SegmentInv, ServerNext
  PROVE  SegmentInv'
<1>0. RecordsOK(wal, Synced, Len(agreed)) /\ MemoryOK /\ Ordered(wal, Synced) /\ Steps
  BY TypeInvIs DEF OrderInv
<1>1. SUFFICES ASSUME ~revived', NEW s \in Index, NEW m \in DOMAIN wal', wal'[m].k = "file",
                      wal'[m].i <= s, Relevant(s, wal', Synced', snaps')
               PROVE  Whole(Len(log'), wal', m, s)
  <2>1. (SegmentInv <=>
          (~revived =>
             \A s \in Index, m \in DOMAIN wal :
               wal[m].k = "file" /\ wal[m].i <= s /\ Relevant(s, wal, Synced, snaps) =>
                 Whole(Len(log), wal, m, s)))'
    BY SegmentInvIs, PTL
  <2>2. QED
    BY <2>1
<1>2. Relevant(s, wal, Synced, snaps) /\ s \in Nat
  BY <1>1, RelevantStep, IndexIs
<1>3. ~revived
  BY <1>1 DEF ServerNext, AppendEntry, Commit, SaveState, Apply, SnapFile, SnapRecord, ReceiveFile,
              ReceiveRecord, ReceiveState, ReceiveDb, Cut, Purge, Stop, Crash, Restart, past
<1>4. \A c \in DOMAIN wal : wal[c].k = "file" /\ wal[c].i <= s => Whole(Len(log), wal, c, s)
  BY <1>2, <1>3, SegmentInvIs
<1>5. /\ wal \in Seq(Rec) /\ Len(wal) \in Nat /\ DOMAIN wal = 1..Len(wal)
      /\ Synced \in 1..Len(wal) /\ soft \in Nat /\ Synced = Len(wal) - soft
      /\ \A p \in DOMAIN wal : p > Synced => wal[p].k = "state"
      /\ \A p \in DOMAIN wal : wal[p].i \in Nat
      /\ saving.i \in Index /\ saving.t \in Terms /\ commit \in Index
      /\ log \in Seq(Terms) /\ Len(log) \in Nat /\ Len(log) <= MaxIndex
      /\ Saved.i \in Index /\ Saved.t \in Terms /\ Saved = State(Saved.i, Saved.t)
  BY <1>0, WalIs, SavedIs, LenProperties DEF RecordsOK, MemoryOK, Synced
<1>6. CASE wal' = wal /\ log' = log
  BY <1>1, <1>4, <1>6
<1>7. ASSUME NEW w \in Seq(Rec), NEW x \in Rec, x.k \notin {"entry", "file"}, NEW n, NEW c,
             \A d \in DOMAIN w : w[d].k = "file" /\ w[d].i <= s => Whole(n, w, d, s),
             c \in DOMAIN Append(w, x), Append(w, x)[c].k = "file", Append(w, x)[c].i <= s
      PROVE  Whole(n, Append(w, x), c, s)
  <2>1. /\ Append(w, x) \in Seq(Rec) /\ Len(Append(w, x)) = Len(w) + 1
        /\ Append(w, x)[Len(w) + 1] = x /\ \A p \in 1..Len(w) : Append(w, x)[p] = w[p]
    BY AppendIs
  <2>2. DOMAIN w = 1..Len(w) /\ DOMAIN Append(w, x) = 1..(Len(w) + 1) /\ Len(w) \in Nat
    BY <2>1, SeqFacts
  <2>3. c \in 1..Len(w) /\ w[c] = Append(w, x)[c]
    BY <1>7, <2>1, <2>2
  <2>4. c \in DOMAIN w /\ Whole(n, w, c, s)
    BY <1>7, <2>2, <2>3
  <2>5. QED
    BY <1>2, <1>7, <2>4, WholeAppend
<1>8. ASSUME NEW x \in Rec, x.k \notin {"entry", "file"}, wal' = Append(wal, x), log' = log
      PROVE  Whole(Len(log'), wal', m, s)
  <2>1. /\ m \in DOMAIN Append(wal, x) /\ Append(wal, x)[m].k = "file"
        /\ Append(wal, x)[m].i <= s
    BY <1>1, <1>8
  <2>2. Whole(Len(log), Append(wal, x), m, s)
    BY <1>4, <1>5, <1>7, <1>8, <2>1
  <2>3. QED
    BY <1>8, <2>2
<1>9. ASSUME NEW i \in 1..MaxIndex, NEW e \in 1..MaxTerm, NEW t \in 1..MaxTerm, AppendEntry(i, e, t)
      PROVE  Whole(Len(log'), wal', m, s)
  <2> DEFINE en == Entry(i, e)
  <2> DEFINE st == State(commit, t)
  <2> DEFINE v == Append(wal, en)
  <2>1. /\ wal' = wal \o <<en>> \o (IF st = Saved THEN <<>> ELSE <<st>>)
        /\ i <= Len(log) + 1 /\ log' = Append(SubSeq(log, 1, i - 1), e)
    BY <1>9 DEF AppendEntry
  <2>2. i \in Index /\ i \in Nat /\ e \in Terms /\ t \in Terms
    BY IndexIs, BoundsAssumption DEF Terms
  <2>3. /\ en \in Rec /\ en.k = "entry" /\ en.i = i
        /\ st \in Rec /\ st.k \notin {"entry", "file"}
    BY <1>5, <2>2, NewRecords
  <2>4. Len(log') = i
    <3>1. Len(SubSeq(log, 1, i - 1)) = i - 1 /\ SubSeq(log, 1, i - 1) \in Seq(Terms)
      <4>1. i - 1 \in 0..Len(log)
        BY <1>5, <2>1, <2>2
      <4>2. QED
        BY <1>5, <4>1, PrefixIs
    <3>2. Len(log') = Len(SubSeq(log, 1, i - 1)) + 1
      BY <2>1, <2>2, <3>1, AppendIs
    <3>3. QED
      BY <2>2, <3>1, <3>2
  <2> HIDE DEF en, st, v
  <2>5. wal' = v \/ wal' = Append(v, st)
    <3>0. wal \in Seq(Rec) /\ en \in Rec /\ st \in Rec
      BY <1>5, <2>3
    <3>1. /\ wal \o <<en>> \o <<>> = Append(wal, en)
          /\ wal \o <<en>> \o <<st>> = Append(Append(wal, en), st)
      BY <3>0, ConcatIs
    <3>2. QED
      BY <2>1, <3>1 DEF v
  <2>6. /\ v \in Seq(Rec) /\ Len(v) = Len(wal) + 1 /\ v[Len(wal) + 1] = en
        /\ \A p \in 1..Len(wal) : v[p] = wal[p]
    BY <1>5, <2>3, AppendIs DEF v
  <2>7. DOMAIN v = 1..(Len(wal) + 1)
    BY <2>6, SeqFacts
  <2>8. \A d \in DOMAIN v : v[d].k = "file" /\ v[d].i <= s => Whole(i, v, d, s)
    <3>1. SUFFICES ASSUME NEW d \in DOMAIN v, v[d].k = "file", v[d].i <= s
                   PROVE  Whole(i, v, d, s)
      OBVIOUS
    <3>2. d \in DOMAIN wal /\ wal[d] = v[d]
      BY <1>5, <2>3, <2>6, <2>7, <3>1
    <3>3. Whole(Len(log), wal, d, s)
      BY <1>4, <3>1, <3>2
    <3>4. Whole(en.i, Append(wal, en), d, s)
      BY <1>2, <1>5, <2>1, <2>3, <3>2, <3>3, WholeEntry
    <3>5. QED
      BY <2>3, <3>4 DEF v
  <2>9. CASE wal' = v
    BY <1>1, <2>4, <2>8, <2>9
  <2>10. CASE wal' = Append(v, st)
    <3>1. m \in DOMAIN Append(v, st) /\ Append(v, st)[m].k = "file" /\ Append(v, st)[m].i <= s
      BY <1>1, <2>10
    <3>2. Whole(i, Append(v, st), m, s)
      BY <1>7, <2>3, <2>6, <2>8, <3>1
    <3>3. QED
      BY <2>4, <2>10, <3>2
  <2>11. QED
    BY <2>5, <2>9, <2>10
<1>10. CASE SaveState
  <2>1. State(commit, Saved.t) \in Rec /\ State(commit, Saved.t).k = "state"
    BY <1>5, NewRecords
  <2>2. wal' = Append(wal, State(commit, Saved.t)) /\ log' = log
    BY <1>10 DEF SaveState, memory
  <2>3. QED
    BY <1>8, <2>1, <2>2
<1>11. CASE SnapRecord \/ ReceiveRecord
  <2>1. Snap(saving.i, saving.t) \in Rec /\ Snap(saving.i, saving.t).k = "snap"
    BY <1>5, NewRecords
  <2>2. wal' = Append(wal, Snap(saving.i, saving.t)) /\ log' = log
    BY <1>11 DEF SnapRecord, ReceiveRecord
  <2>3. QED
    BY <1>8, <2>1, <2>2
<1>12. CASE ReceiveState
  <2> DEFINE t == max(Saved.t, saving.t)
  <2>1. t \in Terms
    BY <1>5 DEF max
  <2>2. wal' = Append(wal, State(saving.i, t)) /\ log' = log
    BY <1>12 DEF ReceiveState
  <2> HIDE DEF t
  <2>3. State(saving.i, t) \in Rec /\ State(saving.i, t).k = "state"
    BY <1>5, <2>1, NewRecords
  <2>4. QED
    BY <1>8, <2>2, <2>3
<1>13. CASE ReceiveDb
  <2>1. wal' = wal /\ snaps' = snaps /\ soft' = soft /\ log' = SubSeq(agreed, 1, saving.i)
        /\ saving.step = "state"
    BY <1>13 DEF ReceiveDb
  <2>2. Len(log') = saving.i
    <3>1. agreed \in Seq(Terms) /\ saving.i \in 0..Len(agreed)
      BY <1>0, IndexIs, LenProperties DEF MemoryOK
    <3>2. QED
      BY <2>1, <3>1, PrefixIs
  <2>3. saving.i <= s
    <3>1. Snap(saving.i, saving.t) \in Durable(wal, Synced, snaps)
      BY <2>1, ReceivedIsDurable
    <3>2. QED
      BY <1>2, <3>1 DEF Relevant, Snap
  <2>4. Whole(Len(log), wal, m, s)
    BY <1>1, <1>4, <2>1
  <2>5. ~(Len(log') > s)
    BY <1>2, <1>5, <2>2, <2>3, IndexIs
  <2>6. QED
    BY <2>1, <2>4, <2>5 DEF Whole
<1>14. CASE Cut
  <2> DEFINE f == File(Len(log) + 1)
  <2> DEFINE v == Append(wal, f)
  <2>1. wal' = wal \o <<f, Saved>> /\ log' = log
    BY <1>14 DEF Cut, memory
  <2>2. f \in Rec /\ f.k = "file" /\ f.i = Len(log) + 1 /\ Saved \in Rec /\ Saved.k = "state"
    <3>1. Len(log) + 1 \in 0..(MaxIndex + 1)
      BY <1>5, IndexIs
    <3>2. f \in Rec /\ f.k = "file" /\ f.i = Len(log) + 1
      BY <3>1, NewRecords
    <3>3. QED
      BY <1>5, <3>2, NewRecords
  <2> HIDE DEF f
  <2>3. wal' = Append(v, Saved)
    BY <1>5, <2>1, <2>2, ConcatIs
  <2>4. /\ v \in Seq(Rec) /\ Len(v) = Len(wal) + 1 /\ v[Len(wal) + 1] = f
        /\ \A p \in 1..Len(wal) : v[p] = wal[p]
    BY <1>5, <2>2, AppendIs
  <2> HIDE DEF v
  <2>5. DOMAIN v = 1..(Len(wal) + 1)
    BY <2>4, SeqFacts
  <2>6. \A d \in DOMAIN v : v[d].k = "file" /\ v[d].i <= s => Whole(Len(log), v, d, s)
    <3>1. SUFFICES ASSUME NEW d \in DOMAIN v, v[d].k = "file", v[d].i <= s
                   PROVE  Whole(Len(log), v, d, s)
      OBVIOUS
    <3>2. CASE d \in DOMAIN wal
      <4>1. Whole(Len(log), wal, d, s)
        BY <1>4, <1>5, <2>4, <3>1, <3>2
      <4>2. Whole(Len(log), Append(wal, f), d, s)
        BY <1>2, <1>5, <2>2, <3>2, <4>1, WholeAppend
      <4>3. QED
        BY <4>2 DEF v
    <3>3. CASE d = Len(wal) + 1
      <4>1. Len(log) + 1 <= s
        BY <2>2, <2>4, <3>1, <3>3
      <4>2. \A p \in DOMAIN v : ~(p > d)
        BY <1>5, <2>5, <3>3
      <4>3. GapFree(v, d, s)
        BY <4>2 DEF GapFree, Later
      <4>4. ~(Len(log) > s)
        BY <1>2, <1>5, <4>1
      <4>5. QED
        BY <4>3, <4>4 DEF Whole
    <3>4. d \in 1..(Len(wal) + 1) /\ Len(wal) \in Nat /\ DOMAIN wal = 1..Len(wal)
      BY <1>5, <2>5
    <3>5. QED
      BY <3>2, <3>3, <3>4
  <2>7. m \in DOMAIN Append(v, Saved) /\ Append(v, Saved)[m].k = "file"
        /\ Append(v, Saved)[m].i <= s
    BY <1>1, <2>3
  <2>8. Whole(Len(log), Append(v, Saved), m, s)
    BY <1>7, <2>2, <2>4, <2>6, <2>7
  <2>9. QED
    BY <2>1, <2>3, <2>8
<1>15. CASE Purge
  <2>1. log' = log
    BY <1>15 DEF Purge, memory
  <2>2. PICK c \in DOMAIN wal : wal' = SubSeq(wal, c, Len(wal))
    BY <1>15, PurgeIs
  <2>3. m \in DOMAIN SubSeq(wal, c, Len(wal))
    BY <1>1, <2>2
  <2>4. /\ m + c - 1 \in DOMAIN wal /\ wal'[m] = wal[m + c - 1]
        /\ Whole(Len(log), wal, m + c - 1, s) => Whole(Len(log), wal', m, s)
    BY <1>2, <1>5, <2>2, <2>3, WholePurge
  <2>5. QED
    BY <1>1, <1>4, <2>1, <2>4
<1>16. ASSUME NEW lost \in 0..soft, Crash(lost)
       PROVE  Whole(Len(log'), wal', m, s)
  <2> DEFINE l == Len(wal) - lost
  <2>1. wal' = SubSeq(wal, 1, l) /\ log' = log
    BY <1>16 DEF Crash
  <2>2. l \in 0..Len(wal) /\ Synced <= l
    BY <1>5
  <2> HIDE DEF l
  <2>3. wal' \in Seq(Rec) /\ Len(wal') = l /\ \A p \in 1..l : wal'[p] = wal[p]
    BY <1>5, <2>1, <2>2, PrefixIs
  <2>4. DOMAIN wal' = 1..l
    BY <2>3, SeqFacts
  <2>5. \A p \in DOMAIN wal' : p \in DOMAIN wal /\ wal[p] = wal'[p]
    BY <1>5, <2>2, <2>3, <2>4
  <2>6. ASSUME NEW p \in DOMAIN wal, wal[p].k = "entry"
        PROVE  p \in DOMAIN wal' /\ wal'[p] = wal[p]
    <3>1. ~(p > Synced) /\ p \in 1..Len(wal)
      BY <1>5, <2>6
    <3>2. p \in 1..l
      BY <1>5, <2>2, <3>1
    <3>3. QED
      BY <2>3, <2>4, <3>2
  <2>7. m \in DOMAIN wal /\ Whole(Len(log), wal, m, s) /\ m \in Nat
    BY <1>1, <1>4, <1>5, <2>5
  <2>8. Whole(Len(log), wal', m, s)
    BY <1>2, <1>5, <2>3, <2>5, <2>6, <2>7, SameEntries
  <2>9. QED
    BY <2>1, <2>8
<1>17. CASE Restart
  <2>1. /\ wal' = wal /\ log' = RestartLog /\ ~Up
        /\ ~ErrFileNotFound(StartsFrom) /\ ReadAll(StartsFrom).err = "nil"
        /\ revived' <=> (revived \/ Len(RestartLog) > max(Len(log), StartsFrom.i))
    BY <1>17 DEF Restart
  <2>2. Whole(Len(log), wal, m, s)
    BY <1>1, <1>4, <2>1
  <2> DEFINE s0 == StartsFrom.i
  <2> DEFINE n == Len(RestartLog)
  <2> DEFINE m0 == SegmentOf(StartsFrom)
  <2>3. /\ m0 \in DOMAIN wal /\ wal[m0].k = "file" /\ wal[m0].i <= s0
        /\ n \in Index /\ s0 <= n
        /\ \A k : EndsWith(k, wal, m0, s0) => n = k
    BY <2>1, RestartLogIs
  <2>4. s0 \in Index /\ Relevant(s0, wal, Synced, snaps)
    BY <2>1, StartIsRelevant, StartsFromIs
  <2>5. s0 <= s
    BY <1>2, <2>1, StartIsLeast
  <2>6. Whole(Len(log), wal, m0, s0)
    BY <1>3, <2>3, <2>4, SegmentInvIs
  <2>7. CASE Len(log) > s0
    <3>1. n = Len(log)
      BY <2>3, <2>6, <2>7 DEF Whole
    <3>2. QED
      BY <2>1, <2>2, <3>1
  <2>8. CASE ~(Len(log) > s0)
    <3>1. ~(n > max(Len(log), s0))
      BY <1>1, <2>1
    <3> HIDE DEF n, s0
    <3>2. n \in Nat /\ s0 \in Nat
      BY <2>3, <2>4, IndexIs
    <3>3. max(Len(log), s0) = s0
      BY <1>5, <2>8, <3>2 DEF max
    <3>4. ~(n > s)
      BY <1>2, <2>5, <3>1, <3>2, <3>3
    <3>5. Len(log') = n
      BY <2>1 DEF n
    <3>6. QED
      BY <2>1, <2>2, <3>4, <3>5 DEF Whole
  <2>9. QED
    BY <2>7, <2>8
<1>18. CASE \/ \E c \in 1..MaxIndex : Commit(c)
            \/ \E batched \in BOOLEAN : Apply(batched)
            \/ SnapFile \/ \E i \in 1..MaxIndex, t \in 1..MaxTerm : ReceiveFile(i, t)
            \/ Stop
  BY <1>6, <1>18 DEF Commit, Apply, SnapFile, ReceiveFile, Stop, disk, memory
<1>19. QED
  BY <1>9, <1>10, <1>11, <1>12, <1>13, <1>14, <1>15, <1>16, <1>17, <1>18 DEF ServerNext

-----------------------------------------------------------------------------
(* The fifth layer: terms.                                                 *)

\* What is agreed only grows.
LEMMA AgreedGrows ==
  ASSUME TypeInv, ServerNext
  PROVE  /\ Len(agreed) \in Nat /\ Len(agreed') \in Nat /\ Len(agreed) <= Len(agreed')
         /\ \A k \in 1..Len(agreed) : agreed'[k] = agreed[k]
         /\ \A c \in 1..MaxIndex : Commit(c) => \A k \in 1..c : agreed'[k] = log[k]
         /\ \A i \in 1..MaxIndex, t \in 1..MaxTerm : ReceiveFile(i, t) => agreed'[i] = t
<1>1. /\ agreed \in Seq(Terms) /\ log \in Seq(Terms) /\ Len(agreed) \in Nat /\ Len(log) \in Nat
  BY TypeInvIs, LenProperties DEF MemoryOK
<1>2. ASSUME NEW c \in 1..MaxIndex, Commit(c)
      PROVE  /\ Len(agreed') \in Nat /\ Len(agreed) <= Len(agreed')
             /\ \A k \in 1..Len(agreed) : agreed'[k] = agreed[k]
             /\ \A k \in 1..c : agreed'[k] = log[k]
  <2>1. c \in Nat /\ c <= Len(log) /\ \A k \in 1..c : k <= Len(agreed) => log[k] = agreed[k]
    BY <1>2 DEF Commit, Agrees
  <2>2. CASE c > Len(agreed)
    <3>1. agreed' = SubSeq(log, 1, c) /\ c \in 0..Len(log)
      BY <1>1, <1>2, <2>1, <2>2 DEF Commit
    <3>2. Len(agreed') = c /\ \A k \in 1..c : agreed'[k] = log[k]
      BY <1>1, <3>1, PrefixIs
    <3>3. QED
      BY <1>1, <2>1, <2>2, <3>2
  <2>3. CASE ~(c > Len(agreed))
    <3>1. agreed' = agreed
      BY <1>2, <2>3 DEF Commit
    <3>2. QED
      BY <1>1, <2>1, <2>3, <3>1
  <2>4. QED
    BY <2>2, <2>3
<1>3. ASSUME NEW i \in 1..MaxIndex, NEW t \in 1..MaxTerm, ReceiveFile(i, t)
      PROVE  /\ Len(agreed') \in Nat /\ Len(agreed) <= Len(agreed')
             /\ \A k \in 1..Len(agreed) : agreed'[k] = agreed[k]
             /\ agreed'[i] = t
  <2> DEFINE more == [n \in 1..(i - Len(agreed)) |-> t]
  <2>1. agreed' = agreed \o more /\ (i <= Len(agreed) => t = agreed[i])
    BY <1>3 DEF ReceiveFile
  <2>2. t \in Terms /\ i \in Nat /\ i >= 1
    BY IndexIs, BoundsAssumption DEF Terms
  <2>3. CASE i <= Len(agreed)
    <3>1. more = <<>>
      BY <1>1, <2>2, <2>3
    <3> HIDE DEF more
    <3>2. agreed \o <<>> = agreed
      BY <1>1, ConcatEmptySeq
    <3>3. agreed' = agreed
      BY <2>1, <3>1, <3>2
    <3>4. t = agreed[i]
      BY <2>1, <2>3
    <3>5. QED
      BY <1>1, <3>3, <3>4
  <2>4. CASE ~(i <= Len(agreed))
    <3>1. i - Len(agreed) \in Nat
      BY <1>1, <2>2, <2>4
    <3>2. more \in Seq(Terms) /\ Len(more) = i - Len(agreed)
      BY <2>2, <3>1
    <3>3. more[i - Len(agreed)] = t
      BY <1>1, <2>2, <2>4, <3>1
    <3> HIDE DEF more
    <3>4. /\ Len(agreed') = Len(agreed) + Len(more)
          /\ \A k \in 1..(Len(agreed) + Len(more)) :
               agreed'[k] = IF k <= Len(agreed) THEN agreed[k] ELSE more[k - Len(agreed)]
      BY <1>1, <2>1, <3>2
    <3>5. Len(agreed') = i /\ i \in 1..(Len(agreed) + Len(more))
      BY <1>1, <2>2, <3>1, <3>2, <3>4
    <3>6. QED
      BY <1>1, <2>2, <2>4, <3>3, <3>4, <3>5
  <2>5. QED
    BY <2>3, <2>4
<1>4. agreed' = agreed \/ (\E c \in 1..MaxIndex : Commit(c))
        \/ (\E i \in 1..MaxIndex, t \in 1..MaxTerm : ReceiveFile(i, t))
  BY DEF ServerNext, AppendEntry, SaveState, Apply, SnapFile, SnapRecord, ReceiveRecord,
         ReceiveState, ReceiveDb, Cut, Purge, Stop, Crash, Restart
<1>5. /\ Len(agreed') \in Nat /\ Len(agreed) <= Len(agreed')
      /\ \A k \in 1..Len(agreed) : agreed'[k] = agreed[k]
  BY <1>1, <1>2, <1>3, <1>4
<1>6. QED
  BY <1>1, <1>2, <1>3, <1>5

\* Records that are no entries, lost or written, do not matter.
LEMMA LatestKept ==
  ASSUME NEW w \in Seq(Rec), NEW v \in Seq(Rec), NEW l, NEW s,
         \A p \in DOMAIN w : w[p].k = "entry" => p \in DOMAIN v /\ v[p] = w[p],
         \A p \in DOMAIN v : v[p].k = "entry" => p \in DOMAIN w /\ w[p] = v[p],
         LatestAgree(w, l, s)
  PROVE  LatestAgree(v, l, s)
<1>1. SUFFICES ASSUME NEW p \in DOMAIN v, Latest(p, v), s < v[p].i, v[p].i <= Len(l)
               PROVE  v[p].t = l[v[p].i]
  BY DEF LatestAgree
<1>2. p \in DOMAIN w /\ w[p] = v[p] /\ w[p].k = "entry"
  BY <1>1 DEF Latest
<1>3. Latest(p, w)
  BY <1>1, <1>2 DEF Latest
<1>4. QED
  BY <1>1, <1>2, <1>3 DEF LatestAgree

\* For one record in particular.
LEMMA LatestAppend ==
  ASSUME NEW w \in Seq(Rec), NEW x \in Rec, x.k # "entry", NEW l, NEW s, LatestAgree(w, l, s)
  PROVE  LatestAgree(Append(w, x), l, s)
<1> DEFINE v == Append(w, x)
<1>1. /\ v \in Seq(Rec) /\ Len(v) = Len(w) + 1 /\ v[Len(w) + 1] = x
      /\ \A p \in 1..Len(w) : v[p] = w[p]
  BY AppendIs
<1> HIDE DEF v
<1>2. DOMAIN w = 1..Len(w) /\ DOMAIN v = 1..(Len(w) + 1) /\ Len(w) \in Nat
  BY <1>1, SeqFacts
<1>3. \A p \in DOMAIN w : p \in DOMAIN v /\ v[p] = w[p]
  BY <1>1, <1>2
<1>4. \A p \in DOMAIN v : v[p].k = "entry" => p \in DOMAIN w /\ w[p] = v[p]
  BY <1>1, <1>2
<1>5. LatestAgree(v, l, s)
  BY <1>1, <1>3, <1>4, LatestKept
<1>6. QED
  BY <1>5 DEF v

\* An entry cuts off what the log had from its index on.
LEMMA LatestEntry ==
  ASSUME NEW w \in Seq(Rec), NEW x \in Rec, x.k = "entry", NEW s, NEW l \in Seq(Terms),
         NEW l2, Len(l2) = x.i, x.i >= 1, x.i <= Len(l) + 1, l2[x.i] = x.t,
         \A k \in 1..(x.i - 1) : l2[k] = l[k], s \in Nat, LatestAgree(w, l, s)
  PROVE  LatestAgree(Append(w, x), l2, s)
<1> DEFINE v == Append(w, x)
<1>1. /\ v \in Seq(Rec) /\ Len(v) = Len(w) + 1 /\ v[Len(w) + 1] = x
      /\ \A p \in 1..Len(w) : v[p] = w[p]
  BY AppendIs
<1> HIDE DEF v
<1>2. DOMAIN w = 1..Len(w) /\ DOMAIN v = 1..(Len(w) + 1) /\ Len(w) \in Nat /\ Len(l) \in Nat
  BY <1>1, SeqFacts, LenProperties
<1>3. \A p \in DOMAIN w : p \in DOMAIN v /\ v[p] = w[p]
  BY <1>1, <1>2
<1>4. SUFFICES ASSUME NEW p \in DOMAIN v, Latest(p, v), s < v[p].i, v[p].i <= x.i
               PROVE  v[p].t = l2[v[p].i]
  BY DEF LatestAgree, v
<1>5. CASE p = Len(w) + 1
  BY <1>1, <1>5
<1>6. CASE p \in DOMAIN w
  <2>1. w[p] = v[p] /\ w[p].i # x.i
    <3>1. w[p] = v[p]
      BY <1>3, <1>6
    <3>2. Len(w) + 1 \in DOMAIN v /\ ~(Len(w) + 1 <= p)
      BY <1>2, <1>6
    <3>3. QED
      BY <1>1, <1>4, <3>1, <3>2 DEF Latest
  <2>2. Latest(p, w)
    BY <1>3, <1>4, <1>6 DEF Latest
  <2>3. x.i \in Nat /\ w[p].i \in Nat
    <3>1. w[p] \in Rec
      BY <1>6
    <3>2. QED
      BY <3>1, IndexIs DEF Rec
  <2>4. w[p].i <= Len(l) /\ s < w[p].i /\ w[p].i \in 1..(x.i - 1)
    BY <1>2, <1>4, <2>1, <2>3
  <2>5. w[p].t = l[w[p].i]
    BY <1>6, <2>2, <2>4 DEF LatestAgree
  <2>6. QED
    BY <2>1, <2>4, <2>5
<1>7. QED
  BY <1>2, <1>5, <1>6

\* Of what is not purged the last entries are the last of all.
LEMMA LatestPurge ==
  ASSUME NEW w \in Seq(Rec), NEW c \in DOMAIN w, NEW l, NEW s, LatestAgree(w, l, s)
  PROVE  LatestAgree(SubSeq(w, c, Len(w)), l, s)
<1> DEFINE v == SubSeq(w, c, Len(w))
<1>1. /\ v \in Seq(Rec) /\ Len(v) = Len(w) - c + 1
      /\ \A p \in 1..(Len(w) - c + 1) : v[p] = w[c + p - 1]
  BY SeqFacts, SuffixIs
<1> HIDE DEF v
<1>2. Len(w) \in Nat /\ DOMAIN w = 1..Len(w) /\ c \in 1..Len(w) /\ DOMAIN v = 1..(Len(w) - c + 1)
  BY <1>1, SeqFacts
<1>3. \A p \in DOMAIN v : p + c - 1 \in DOMAIN w /\ v[p] = w[p + c - 1] /\ p \in Nat /\ p >= 1
  <2>1. TAKE p \in DOMAIN v
  <2>2. p \in 1..(Len(w) - c + 1) /\ c + p - 1 = p + c - 1 /\ p + c - 1 \in 1..Len(w)
    BY <1>2
  <2>3. QED
    BY <1>1, <1>2, <2>2
<1>4. SUFFICES ASSUME NEW p \in DOMAIN v, Latest(p, v), s < v[p].i, v[p].i <= Len(l)
               PROVE  v[p].t = l[v[p].i]
  BY DEF LatestAgree, v
<1>5. Latest(p + c - 1, w)
  <2>1. SUFFICES ASSUME NEW q \in DOMAIN w, w[q].k = "entry", w[q].i = w[p + c - 1].i
                 PROVE  q <= p + c - 1
    BY <1>3, <1>4 DEF Latest
  <2>2. CASE q < c
    BY <1>2, <1>3, <2>2
  <2>3. CASE ~(q < c)
    <3>1. q - c + 1 \in DOMAIN v /\ (q - c + 1) + c - 1 = q
      BY <1>2, <2>3
    <3>2. v[q - c + 1] = w[q] /\ v[p] = w[p + c - 1]
      BY <1>3, <3>1
    <3>3. q - c + 1 <= p
      BY <1>4, <2>1, <3>1, <3>2 DEF Latest
    <3>4. QED
      BY <1>2, <1>3, <3>3
  <2>4. QED
    BY <2>2, <2>3
<1>6. QED
  BY <1>3, <1>4, <1>5 DEF LatestAgree

\* The fifth layer holds in the beginning,
LEMMA ContentInit ==
  ASSUME WalInit
  PROVE  ContentInv
<1>1. wal = <<File(0), Snap(0, 0)>> /\ log = <<>> /\ commit = 0 /\ snaps = {} /\ saving = Idle
  BY DEF WalInit
<1>2. /\ \A p \in DOMAIN wal : wal[p].k \notin {"entry", "state"}
      /\ \A p \in DOMAIN wal : wal[p].k = "snap" => wal[p].i = 0 /\ wal[p].t = 0
      /\ wal \in Seq(Rec)
  <2>1. DOMAIN wal = {1, 2} /\ wal[1] = File(0) /\ wal[2] = Snap(0, 0)
    BY <1>1
  <2>2. File(0) \in Rec /\ Snap(0, 0) \in Rec
    BY NewRecords, IndexIs, BoundsAssumption DEF Terms
  <2>3. wal \in Seq(Rec)
    BY <1>1, <2>2
  <2>4. QED
    BY <2>1, <2>3 DEF File, Snap
<1>3. Saved.i = 0
  <2>1. At(wal, "state") = {}
    BY <1>2 DEF At
  <2>2. QED
    BY <1>2, <2>1, LastStateIs DEF Saved, State
<1>4. CommittedOK
  BY <1>1 DEF CommittedOK
<1>5. MarksOK
  BY <1>1, <1>2 DEF MarksOK, Idle
<1>6. ASSUME NEW s \in Index
      PROVE  LogOK(s)
  <2>1. Saved.i <= s
    BY <1>3, IndexIs
  <2>2. LatestAgree(wal, log, s)
    BY <1>2 DEF LatestAgree, Latest
  <2>3. \A k \in 1..Len(log) : FALSE
    BY <1>1
  <2>4. QED
    BY <2>1, <2>2, <2>3 DEF LogOK
<1>7. QED
  BY <1>4, <1>5, <1>6 DEF ContentInv

\* The snapshot records of the WAL are old ones, or the one being saved.
LEMMA SnapRecords ==
  ASSUME TypeInv, ServerNext
  PROVE  \A p \in DOMAIN wal' : wal'[p].k = "snap" =>
           \/ \E q \in DOMAIN wal : wal'[p] = wal[q]
           \/ wal'[p] = Snap(saving.i, saving.t) /\ saving.step # "idle"
<1>0. RecordsOK(wal, Synced, Len(agreed)) /\ MemoryOK
  BY TypeInvIs
<1>1. /\ wal \in Seq(Rec) /\ Len(wal) \in Nat /\ DOMAIN wal = 1..Len(wal) /\ soft \in Nat
      /\ Synced \in 1..Len(wal) /\ Synced = Len(wal) - soft
      /\ saving.i \in Index /\ saving.t \in Terms /\ commit \in Index
      /\ Saved.i \in Index /\ Saved.t \in Terms /\ Saved = State(Saved.i, Saved.t)
      /\ Len(log) \in Nat /\ Len(log) <= MaxIndex
  BY <1>0, WalIs, SavedIs, LenProperties DEF RecordsOK, MemoryOK, Synced
<1>2. CASE wal' = wal
  BY <1>2
<1>3. ASSUME NEW w \in Seq(Rec), NEW x \in Rec
      PROVE  \A p \in DOMAIN Append(w, x) :
               Append(w, x)[p] = x \/ \E q \in DOMAIN w : Append(w, x)[p] = w[q]
  <2>1. /\ Append(w, x) \in Seq(Rec) /\ Len(Append(w, x)) = Len(w) + 1
        /\ Append(w, x)[Len(w) + 1] = x /\ \A p \in 1..Len(w) : Append(w, x)[p] = w[p]
    BY AppendIs
  <2>2. DOMAIN w = 1..Len(w) /\ DOMAIN Append(w, x) = 1..(Len(w) + 1) /\ Len(w) \in Nat
    BY <2>1, SeqFacts
  <2>3. QED
    BY <2>1, <2>2
<1>4. ASSUME NEW x \in Rec, NEW y \in Rec, x.k # "snap", y.k # "snap",
             wal' = Append(Append(wal, x), y), NEW p \in DOMAIN wal', wal'[p].k = "snap"
      PROVE  \E q \in DOMAIN wal : wal'[p] = wal[q]
  <2> DEFINE v == Append(wal, x)
  <2>1. v \in Seq(Rec) /\ \A q \in DOMAIN v : v[q] = x \/ \E r \in DOMAIN wal : v[q] = wal[r]
    BY <1>1, <1>3, AppendIs
  <2>2. wal' = Append(v, y)
    BY <1>4
  <2> HIDE DEF v
  <2>3. wal'[p] = y \/ \E q \in DOMAIN v : wal'[p] = v[q]
    BY <1>3, <1>4, <2>1, <2>2
  <2>4. QED
    BY <1>4, <2>1, <2>3
<1>5. ASSUME NEW i \in 1..MaxIndex, NEW e \in 1..MaxTerm, NEW t \in 1..MaxTerm,
             AppendEntry(i, e, t), NEW p \in DOMAIN wal', wal'[p].k = "snap"
      PROVE  \E q \in DOMAIN wal : wal'[p] = wal[q]
  <2> DEFINE en == Entry(i, e)
  <2> DEFINE st == State(commit, t)
  <2>1. wal' = wal \o <<en>> \o (IF st = Saved THEN <<>> ELSE <<st>>)
    BY <1>5 DEF AppendEntry
  <2>2. i \in Index /\ e \in Terms /\ t \in Terms
    BY IndexIs, BoundsAssumption DEF Terms
  <2>3. en \in Rec /\ en.k = "entry" /\ st \in Rec /\ st.k = "state"
    BY <1>1, <2>2, NewRecords
  <2> HIDE DEF en, st
  <2>4. wal' = Append(wal, en) \/ wal' = Append(Append(wal, en), st)
    <3>0. wal \in Seq(Rec) /\ en \in Rec /\ st \in Rec
      BY <1>1, <2>3
    <3>1. /\ wal \o <<en>> \o <<>> = Append(wal, en)
          /\ wal \o <<en>> \o <<st>> = Append(Append(wal, en), st)
      BY <3>0, ConcatIs
    <3>2. QED
      BY <2>1, <3>1
  <2>5. CASE wal' = Append(wal, en)
    BY <1>1, <1>3, <1>5, <2>3, <2>5
  <2>6. CASE wal' = Append(Append(wal, en), st)
    BY <1>4, <1>5, <2>3, <2>6
  <2>7. QED
    BY <2>4, <2>5, <2>6
<1>6. ASSUME Cut, NEW p \in DOMAIN wal', wal'[p].k = "snap"
      PROVE  \E q \in DOMAIN wal : wal'[p] = wal[q]
  <2> DEFINE f == File(Len(log) + 1)
  <2>1. wal' = wal \o <<f, Saved>>
    BY <1>6 DEF Cut
  <2>2. Len(log) + 1 \in 0..(MaxIndex + 1)
    BY <1>1, IndexIs
  <2>3. f \in Rec /\ f.k = "file" /\ Saved \in Rec /\ Saved.k = "state"
    BY <1>1, <2>2, NewRecords
  <2> HIDE DEF f
  <2>4. wal' = Append(Append(wal, f), Saved)
    BY <1>1, <2>1, <2>3, ConcatIs
  <2>5. QED
    BY <1>4, <1>6, <2>3, <2>4
<1>7. ASSUME SaveState \/ ReceiveState, NEW p \in DOMAIN wal', wal'[p].k = "snap"
      PROVE  \E q \in DOMAIN wal : wal'[p] = wal[q]
  <2>1. max(Saved.t, saving.t) \in Terms
    BY <1>1 DEF max
  <2>2. PICK i \in Index, t \in Terms : wal' = Append(wal, State(i, t))
    BY <1>1, <1>7, <2>1 DEF SaveState, ReceiveState
  <2>3. State(i, t) \in Rec /\ State(i, t).k = "state"
    BY NewRecords
  <2>4. QED
    BY <1>1, <1>3, <1>7, <2>2, <2>3
<1>8. ASSUME SnapRecord \/ ReceiveRecord, NEW p \in DOMAIN wal', wal'[p].k = "snap"
      PROVE  \/ \E q \in DOMAIN wal : wal'[p] = wal[q]
             \/ wal'[p] = Snap(saving.i, saving.t) /\ saving.step # "idle"
  <2>1. wal' = Append(wal, Snap(saving.i, saving.t)) /\ saving.step # "idle"
    BY <1>8 DEF SnapRecord, ReceiveRecord
  <2>2. Snap(saving.i, saving.t) \in Rec
    BY <1>1, NewRecords
  <2>3. QED
    BY <1>1, <1>3, <1>8, <2>1, <2>2
<1>9. ASSUME Purge, NEW p \in DOMAIN wal'
      PROVE  \E q \in DOMAIN wal : wal'[p] = wal[q]
  <2>1. PICK c \in DOMAIN wal : wal' = SubSeq(wal, c, Len(wal))
    BY <1>9, PurgeIs
  <2>2. /\ wal' \in Seq(Rec) /\ Len(wal') = Len(wal) - c + 1
        /\ \A q \in 1..(Len(wal) - c + 1) : wal'[q] = wal[c + q - 1]
    BY <1>1, <2>1, SuffixIs
  <2>3. p \in 1..(Len(wal) - c + 1)
    BY <2>2, SeqFacts
  <2>4. c + p - 1 \in DOMAIN wal
    BY <1>1, <2>3
  <2>5. QED
    BY <2>2, <2>3, <2>4
<1>10. ASSUME NEW lost \in 0..soft, Crash(lost), NEW p \in DOMAIN wal'
       PROVE  \E q \in DOMAIN wal : wal'[p] = wal[q]
  <2> DEFINE l == Len(wal) - lost
  <2>1. wal' = SubSeq(wal, 1, l)
    BY <1>10 DEF Crash
  <2>2. l \in 0..Len(wal)
    BY <1>1
  <2> HIDE DEF l
  <2>3. wal' \in Seq(Rec) /\ Len(wal') = l /\ \A q \in 1..l : wal'[q] = wal[q]
    BY <1>1, <2>1, <2>2, PrefixIs
  <2>4. p \in 1..l
    BY <2>3, SeqFacts
  <2>5. p \in DOMAIN wal /\ wal'[p] = wal[p]
    BY <1>1, <2>2, <2>3, <2>4
  <2>6. QED
    BY <2>5
<1>11. CASE \/ \E c \in 1..MaxIndex : Commit(c)
            \/ \E batched \in BOOLEAN : Apply(batched)
            \/ SnapFile \/ \E i \in 1..MaxIndex, t \in 1..MaxTerm : ReceiveFile(i, t)
            \/ ReceiveDb \/ Stop \/ Restart
  BY <1>2, <1>11 DEF Commit, Apply, SnapFile, ReceiveFile, ReceiveDb, Stop, Restart, disk
<1>12. QED
  BY <1>5, <1>6, <1>7, <1>8, <1>9, <1>10, <1>11 DEF ServerNext

\* The snapshots keep the terms that are agreed on.
LEMMA MarksStep ==
  ASSUME TypeInv, OrderInv, ContentInv, ServerNext
  PROVE  MarksOK'
<1>0. MemoryOK /\ Steps /\ CommittedOK /\ MarksOK /\ TypeInv'
  BY TypeInvIs, TypeStep DEF OrderInv, ContentInv
<1>1. /\ \A k \in 1..Len(agreed) : agreed'[k] = agreed[k]
      /\ \A i \in 1..MaxIndex, t \in 1..MaxTerm : ReceiveFile(i, t) => agreed'[i] = t
      /\ Len(agreed) \in Nat
  BY AgreedGrows
<1>2. /\ saving.i \in Nat /\ saving.i <= Len(agreed)
      /\ applied \in Nat /\ commit \in Nat /\ applied <= commit /\ commit <= Len(agreed)
      /\ \A r \in snaps : r.i \in Nat /\ r.i <= Len(agreed)
      /\ StartsFrom.i \in Nat
  BY <1>0, IndexIs, StartsFromIs DEF MemoryOK
<1>3. saving.step # "idle" => saving.i >= 1 /\ saving.t = agreed'[saving.i]
  BY <1>0, <1>1, <1>2 DEF MarksOK
<1>4. \A r \in snaps : r.i >= 1 /\ r.t = agreed'[r.i]
  BY <1>0, <1>1, <1>2 DEF MarksOK
<1>5. SnapFile => applied >= 1 /\ log[applied] = agreed'[applied]
  <2>1. SUFFICES ASSUME SnapFile
                 PROVE  applied >= 1 /\ log[applied] = agreed'[applied]
    OBVIOUS
  <2>2. applied >= 1
    BY <1>2, <2>1 DEF SnapFile
  <2>3. applied \in 1..commit /\ applied \in 1..Len(agreed)
    BY <1>1, <1>2, <2>2
  <2>4. QED
    BY <1>0, <1>1, <2>2, <2>3 DEF CommittedOK
<1>6. saving'.step # "idle" => saving'.i >= 1 /\ saving'.t = agreed'[saving'.i]
  <2>1. CASE saving' = saving \/ saving' = Idle
    BY <1>3, <2>1 DEF Idle
  <2>2. CASE ReceiveRecord \/ ReceiveState
    <3>1. saving.step # "idle" /\ saving'.i = saving.i /\ saving'.t = saving.t
      BY <1>0, <2>2 DEF ReceiveRecord, ReceiveState, MemoryOK
    <3>2. QED
      BY <1>3, <3>1
  <2>3. CASE SnapFile
    <3>1. saving'.i = applied /\ saving'.t = log[applied]
      BY <2>3 DEF SnapFile
    <3>2. QED
      BY <1>5, <2>3, <3>1
  <2>4. ASSUME NEW i \in 1..MaxIndex, NEW t \in 1..MaxTerm, ReceiveFile(i, t)
        PROVE  saving'.i >= 1 /\ saving'.t = agreed'[saving'.i]
    <3>1. saving'.i = i /\ saving'.t = t
      BY <2>4 DEF ReceiveFile
    <3>2. QED
      BY <1>1, <2>4, <3>1
  <2>5. QED
    BY <2>1, <2>2, <2>3, <2>4
      DEF ServerNext, AppendEntry, Commit, SaveState, Apply, SnapRecord, ReceiveDb, Cut, Purge,
          Stop, Crash, Restart, memory
<1>7. \A r \in snaps' : r.i >= 1 /\ r.t = agreed'[r.i]
  <2>1. CASE snaps' = snaps
    BY <1>4, <2>1
  <2>2. CASE SnapFile
    <3>1. snaps' = snaps \cup {Snap(applied, log[applied])}
      BY <2>2 DEF SnapFile
    <3>2. QED
      BY <1>4, <1>5, <2>2, <3>1 DEF Snap
  <2>3. ASSUME NEW i \in 1..MaxIndex, NEW t \in 1..MaxTerm, ReceiveFile(i, t)
        PROVE  \A r \in snaps' : r.i >= 1 /\ r.t = agreed'[r.i]
    <3>1. snaps' = snaps \cup {Snap(i, t)}
      BY <2>3 DEF ReceiveFile
    <3>2. QED
      BY <1>1, <1>4, <2>3, <3>1 DEF Snap
  <2>4. QED
    BY <2>1, <2>2, <2>3
      DEF ServerNext, AppendEntry, Commit, SaveState, Apply, SnapRecord, ReceiveRecord,
          ReceiveState, ReceiveDb, Cut, Purge, Stop, Crash, Restart, disk
<1>8. \A p \in DOMAIN wal : wal[p].k = "snap" =>
        IF wal[p].i = 0 THEN wal[p].t = 0 ELSE wal[p].t = agreed'[wal[p].i]
  <2>1. \A p \in DOMAIN wal : wal[p].k = "snap" => wal[p].i \in Nat /\ wal[p].i <= Len(agreed)
    BY WalIs, TypeInvIs DEF RecordsOK
  <2>2. QED
    BY <1>0, <1>1, <2>1 DEF MarksOK
<1>9. \A p \in DOMAIN wal' : wal'[p].k = "snap" =>
        IF wal'[p].i = 0 THEN wal'[p].t = 0 ELSE wal'[p].t = agreed'[wal'[p].i]
  <2>1. SUFFICES ASSUME NEW p \in DOMAIN wal', wal'[p].k = "snap"
                 PROVE  IF wal'[p].i = 0 THEN wal'[p].t = 0 ELSE wal'[p].t = agreed'[wal'[p].i]
    OBVIOUS
  <2>2. CASE \E q \in DOMAIN wal : wal'[p] = wal[q]
    BY <1>8, <2>1, <2>2
  <2>3. CASE wal'[p] = Snap(saving.i, saving.t) /\ saving.step # "idle"
    <3>1. wal'[p].i = saving.i /\ wal'[p].t = saving.t
      BY <2>3 DEF Snap
    <3>2. QED
      BY <1>2, <1>3, <2>3, <3>1
  <2>4. QED
    BY <2>1, <2>2, <2>3, SnapRecords
<1>10. QED
  BY <1>6, <1>7, <1>9 DEF MarksOK

\* A restarted server goes on with the terms of the log it had, as far as it
\* reads more than its snapshot, and with the agreed ones up to what is saved.
LEMMA RestartTerms ==
  ASSUME TypeInv, OrderInv, ContentInv, Restart
  PROVE  /\ \A k \in 1..Saved.i : RestartLog[k] = agreed[k]
         /\ \A s \in Index : Relevant(s, wal, Synced, snaps) => LatestAgree(wal, RestartLog, s)
<1> DEFINE s0 == StartsFrom.i
<1> DEFINE n == Len(RestartLog)
<1> DEFINE m0 == SegmentOf(StartsFrom)
<1>1. ~Up /\ ~ErrFileNotFound(StartsFrom) /\ ReadAll(StartsFrom).err = "nil" /\ Saved.i <= n
  BY DEF Restart
<1>2. /\ s0 \in Index /\ s0 \in Nat /\ Relevant(s0, wal, Synced, snaps) /\ LogOK(s0)
      /\ Saved.i \in Nat
  BY <1>1, StartsFromIs, StartIsRelevant, SavedIs, IndexIs DEF ContentInv
<1>3. /\ m0 \in DOMAIN wal /\ n \in Nat /\ s0 <= n
      /\ \A k \in 1..s0 : RestartLog[k] = agreed[k]
      /\ \A k \in (s0 + 1)..n : \E p \in DOMAIN wal :
           /\ Later(p, wal, m0, s0) /\ wal[p].i = k /\ RestartLog[k] = wal[p].t
           /\ \A q : Later(q, wal, m0, s0) /\ wal[q].i = k => q <= p
  BY <1>1, RestartLogIs, IndexIs
<1>4. DOMAIN wal = 1..Len(wal) /\ Len(wal) \in Nat /\ Len(log) \in Nat
  BY WalIs, TypeInvIs, LenProperties DEF MemoryOK
<1> HIDE DEF s0, n, m0
<1>5. ASSUME NEW k \in (s0 + 1)..n
      PROVE  \E p \in DOMAIN wal : Latest(p, wal) /\ wal[p].i = k /\ RestartLog[k] = wal[p].t
  <2>1. PICK p \in DOMAIN wal :
          /\ Later(p, wal, m0, s0) /\ wal[p].i = k /\ RestartLog[k] = wal[p].t
          /\ \A q : Later(q, wal, m0, s0) /\ wal[q].i = k => q <= p
    BY <1>3
  <2>2. p > m0 /\ wal[p].k = "entry" /\ wal[p].i > s0
    BY <2>1 DEF Later
  <2>3. ASSUME NEW q \in DOMAIN wal, wal[q].k = "entry", wal[q].i = k
        PROVE  q <= p
    <3>1. CASE q > m0
      <4>1. Later(q, wal, m0, s0)
        BY <2>1, <2>2, <2>3, <3>1 DEF Later
      <4>2. QED
        BY <2>1, <2>3, <4>1
    <3>2. CASE ~(q > m0)
      BY <1>3, <1>4, <2>2, <3>2
    <3>3. QED
      BY <3>1, <3>2
  <2>4. Latest(p, wal)
    BY <2>1, <2>2, <2>3 DEF Latest
  <2>5. QED
    BY <2>1, <2>4
<1>6. ASSUME NEW k \in 1..Saved.i
      PROVE  RestartLog[k] = agreed[k]
  <2>1. CASE k <= s0
    BY <1>2, <1>3, <2>1
  <2>2. CASE ~(k <= s0)
    <3>1. k \in (s0 + 1)..n /\ k > s0 /\ k <= Saved.i /\ k \in Nat /\ k >= 1
      BY <1>1, <1>2, <1>3, <2>2
    <3>2. PICK p \in DOMAIN wal :
            Latest(p, wal) /\ wal[p].i = k /\ RestartLog[k] = wal[p].t
      BY <1>5, <3>1
    <3>3. k <= Len(log)
      BY <1>2, <1>4, <3>1 DEF LogOK
    <3>4. wal[p].t = log[k]
      BY <1>2, <3>1, <3>2, <3>3 DEF LogOK, LatestAgree
    <3>5. k \in 1..Len(log)
      BY <1>4, <3>1, <3>3
    <3>6. log[k] = agreed[k]
      BY <1>2, <3>1, <3>5 DEF LogOK
    <3>7. QED
      BY <3>2, <3>4, <3>6
  <2>3. QED
    BY <2>1, <2>2
<1>7. ASSUME NEW s \in Index, Relevant(s, wal, Synced, snaps)
      PROVE  LatestAgree(wal, RestartLog, s)
  <2>1. s0 <= s /\ s \in Nat
    BY <1>1, <1>7, StartIsLeast, IndexIs DEF s0
  <2>2. SUFFICES ASSUME NEW p \in DOMAIN wal, Latest(p, wal), s < wal[p].i, wal[p].i <= n
                 PROVE  wal[p].t = RestartLog[wal[p].i]
    BY DEF LatestAgree, n
  <2>3. wal[p].i \in (s0 + 1)..n
    <3>1. wal[p].i \in Nat
      BY WalIs
    <3>2. QED
      BY <1>2, <1>3, <2>1, <2>2, <3>1
  <2>4. PICK q \in DOMAIN wal :
          Latest(q, wal) /\ wal[q].i = wal[p].i /\ RestartLog[wal[p].i] = wal[q].t
    BY <1>5, <2>3
  <2>5. p <= q /\ q <= p
    BY <2>2, <2>4 DEF Latest
  <2>6. QED
    BY <1>4, <2>4, <2>5
<1>8. QED
  BY <1>6, <1>7

\* and every step of the server keeps it.
LEMMA ContentStep ==
  ASSUME TypeInv, OrderInv, ReleaseInv, ContentInv, ServerNext
  PROVE  ContentInv'
<1>0. /\ RecordsOK(wal, Synced, Len(agreed)) /\ MemoryOK /\ Ordered(wal, Synced) /\ Steps
      /\ CommittedOK /\ MarksOK
  BY TypeInvIs DEF OrderInv, ContentInv
<1>1. /\ \A k \in 1..Len(agreed) : agreed'[k] = agreed[k]
      /\ \A c \in 1..MaxIndex : Commit(c) => \A k \in 1..c : agreed'[k] = log[k]
      /\ Len(agreed) \in Nat
  BY AgreedGrows
<1>2. /\ wal \in Seq(Rec) /\ Len(wal) \in Nat /\ DOMAIN wal = 1..Len(wal)
      /\ Synced \in 1..Len(wal) /\ Synced = Len(wal) - soft
      /\ \A p \in DOMAIN wal : p > Synced => wal[p].k = "state"
  BY <1>0, WalIs DEF RecordsOK, Synced
<1>3. /\ soft \in Nat /\ saving.i \in Index /\ saving.t \in Terms /\ commit \in Index
      /\ saving.i \in Nat /\ commit \in Nat /\ saving.i <= Len(agreed)
      /\ log \in Seq(Terms) /\ Len(log) \in Nat /\ agreed \in Seq(Terms)
      /\ commit <= Len(log) /\ commit <= Len(agreed)
  BY <1>0, IndexIs, LenProperties DEF MemoryOK
<1>4. /\ Saved.i \in Index /\ Saved.t \in Terms /\ Saved = State(Saved.i, Saved.t)
      /\ Saved.i \in Nat /\ Saved.i <= Len(agreed)
  BY SavedIs, IndexIs
<1>5. CommittedOK'
  <2>1. CASE commit' = commit /\ log' = log
    BY <1>0, <1>1, <1>3, <2>1 DEF CommittedOK
  <2>2. ASSUME NEW c \in 1..MaxIndex, Commit(c)
        PROVE  CommittedOK'
    BY <1>1, <2>2 DEF Commit, CommittedOK
  <2>3. ASSUME NEW i \in 1..MaxIndex, NEW e \in 1..MaxTerm, NEW t \in 1..MaxTerm,
               AppendEntry(i, e, t)
        PROVE  CommittedOK'
    <3>1. /\ log' = Append(SubSeq(log, 1, i - 1), e) /\ i > commit /\ i <= Len(log) + 1
          /\ commit' = commit /\ agreed' = agreed
      BY <2>3 DEF AppendEntry
    <3>2. i - 1 \in 0..Len(log) /\ e \in Terms /\ i \in Nat
      BY <1>3, <3>1, BoundsAssumption, IndexIs DEF Terms
    <3>3. /\ SubSeq(log, 1, i - 1) \in Seq(Terms) /\ Len(SubSeq(log, 1, i - 1)) = i - 1
          /\ \A k \in 1..(i - 1) : SubSeq(log, 1, i - 1)[k] = log[k]
      BY <1>3, <3>2, PrefixIs
    <3>4. \A k \in 1..(i - 1) : log'[k] = log[k]
      BY <3>1, <3>2, <3>3, AppendIs
    <3>5. \A k \in 1..commit : k \in 1..(i - 1)
      BY <1>3, <3>1, <3>2
    <3>6. QED
      BY <1>0, <3>1, <3>4, <3>5 DEF CommittedOK
  <2>4. CASE ReceiveDb
    <3>1. commit' = saving.i /\ log' = SubSeq(agreed, 1, saving.i) /\ agreed' = agreed
      BY <2>4 DEF ReceiveDb
    <3>2. \A k \in 1..saving.i : log'[k] = agreed[k]
      BY <1>1, <1>3, <3>1, PrefixIs
    <3>3. QED
      BY <3>1, <3>2 DEF CommittedOK
  <2>5. CASE commit' = 0
    BY <2>5 DEF CommittedOK
  <2>6. CASE Restart
    <3>1. commit' = Saved.i /\ log' = RestartLog /\ agreed' = agreed
      BY <2>6 DEF Restart
    <3>2. QED
      BY <2>6, <3>1, RestartTerms DEF CommittedOK
  <2>7. QED
    BY <2>1, <2>2, <2>3, <2>4, <2>5, <2>6
      DEF ServerNext, SaveState, Apply, SnapFile, SnapRecord, ReceiveFile, ReceiveRecord,
          ReceiveState, Cut, Purge, Stop, Crash, memory
<1>6. ASSUME NEW s \in Index, Relevant(s, wal', Synced', snaps')
      PROVE  /\ Saved'.i <= s \/ Saved'.i <= Len(log')
             /\ \A k \in 1..Len(log') : s < k /\ k <= Saved'.i => log'[k] = agreed'[k]
             /\ LatestAgree(wal', log', s)
  <2>1. LogOK(s) /\ s \in Nat /\ Relevant(s, wal, Synced, snaps)
    BY <1>6, RelevantStep, IndexIs DEF ContentInv
  <2>2. ASSUME log' = log, Saved'.i \in Nat, Saved'.i <= Saved.i, LatestAgree(wal', log, s)
        PROVE  /\ Saved'.i <= s \/ Saved'.i <= Len(log')
               /\ \A k \in 1..Len(log') : s < k /\ k <= Saved'.i => log'[k] = agreed'[k]
               /\ LatestAgree(wal', log', s)
    <3>1. Saved'.i <= s \/ Saved'.i <= Len(log)
      BY <1>3, <1>4, <2>1, <2>2 DEF LogOK
    <3>2. ASSUME NEW k \in 1..Len(log), s < k, k <= Saved'.i
          PROVE  log[k] = agreed'[k]
      <4>1. k <= Saved.i /\ k \in 1..Len(agreed)
        BY <1>1, <1>3, <1>4, <2>2, <3>2
      <4>2. QED
        BY <1>1, <2>1, <3>2, <4>1 DEF LogOK
    <3>3. QED
      BY <2>2, <3>1, <3>2
  <2>3. CASE wal' = wal /\ log' = log
    <3>1. Saved' = Saved
      BY <2>3 DEF Saved
    <3>2. QED
      BY <1>4, <2>1, <2>2, <2>3, <3>1 DEF LogOK
  <2>4. CASE SnapRecord \/ ReceiveRecord
    <3>1. wal' = Append(wal, Snap(saving.i, saving.t)) /\ log' = log
      BY <2>4 DEF SnapRecord, ReceiveRecord
    <3>2. Snap(saving.i, saving.t) \in Rec /\ Snap(saving.i, saving.t).k = "snap"
      BY <1>3, NewRecords
    <3>3. Saved' = Saved
      BY <1>2, <3>1, <3>2, LastStateAppend DEF Saved
    <3>4. LatestAgree(wal', log, s)
      BY <1>2, <2>1, <3>1, <3>2, LatestAppend DEF LogOK
    <3>5. QED
      BY <1>4, <2>2, <3>1, <3>3, <3>4
  <2>5. CASE SaveState
    <3>1. wal' = Append(wal, State(commit, Saved.t)) /\ log' = log
      BY <2>5 DEF SaveState, memory
    <3>2. /\ State(commit, Saved.t) \in Rec /\ State(commit, Saved.t).k = "state"
          /\ State(commit, Saved.t).i = commit
      BY <1>3, <1>4, NewRecords
    <3>3. Saved'.i = commit
      BY <1>2, <3>1, <3>2, LastStateAppend DEF Saved
    <3>4. LatestAgree(wal', log, s)
      BY <1>2, <2>1, <3>1, <3>2, LatestAppend DEF LogOK
    <3>5. \A k \in 1..Len(log) : k <= commit => log[k] = agreed'[k]
      BY <1>0, <1>1, <1>3 DEF CommittedOK
    <3>6. QED
      BY <1>3, <3>1, <3>3, <3>4, <3>5
  <2>6. CASE ReceiveState
    <3> DEFINE t == max(Saved.t, saving.t)
    <3>1. /\ wal' = Append(wal, State(saving.i, t)) /\ log' = log
          /\ saving'.step = "state" /\ saving'.i = saving.i
      BY <1>0, <2>6 DEF ReceiveState, MemoryOK
    <3>2. t \in Terms
      BY <1>3, <1>4 DEF max
    <3> HIDE DEF t
    <3>3. /\ State(saving.i, t) \in Rec /\ State(saving.i, t).k = "state"
          /\ State(saving.i, t).i = saving.i
      BY <1>3, <3>2, NewRecords
    <3>4. Saved'.i = saving.i
      BY <1>2, <3>1, <3>3, LastStateAppend DEF Saved
    <3>5. LatestAgree(wal', log, s)
      BY <1>2, <2>1, <3>1, <3>3, LatestAppend DEF LogOK
    <3>6. Snap(saving'.i, saving'.t) \in Durable(wal', Synced', snaps')
      <4>1. TypeInv' /\ OrderInv'
        BY TypeStep, OrderStep
      <4>2. (TypeInv /\ OrderInv /\ saving.step = "state" =>
               Snap(saving.i, saving.t) \in Durable(wal, Synced, snaps))'
        BY ReceivedIsDurable, PTL
      <4>3. QED
        BY <3>1, <4>1, <4>2
    <3>7. saving.i <= s
      BY <1>6, <3>1, <3>6 DEF Relevant, Snap
    <3>8. QED
      BY <1>3, <2>1, <3>1, <3>4, <3>5, <3>7
  <2>7. CASE ReceiveDb
    <3>1. /\ wal' = wal /\ snaps' = snaps /\ saving.step = "state"
          /\ log' = SubSeq(agreed, 1, saving.i)
      BY <2>7 DEF ReceiveDb
    <3>2. Len(log') = saving.i
      BY <1>1, <1>3, <3>1, PrefixIs
    <3>3. Saved' = Saved /\ Saved.i = saving.i
      BY <1>0, <3>1 DEF Saved, Steps
    <3>4. saving.i <= s
      <4>1. Snap(saving.i, saving.t) \in Durable(wal, Synced, snaps)
        BY <3>1, ReceivedIsDurable
      <4>2. QED
        BY <2>1, <4>1 DEF Relevant, Snap
    <3>5. LatestAgree(wal', log', s)
      <4>1. \A p \in DOMAIN wal : wal[p].i \in Nat
        BY WalIs
      <4>2. QED
        BY <1>3, <2>1, <3>1, <3>2, <3>4, <4>1 DEF LatestAgree
    <3>6. QED
      BY <1>3, <2>1, <3>2, <3>3, <3>4, <3>5
  <2>8. CASE Cut
    <3> DEFINE f == File(Len(log) + 1)
    <3> DEFINE v == Append(wal, f)
    <3>1. wal' = wal \o <<f, Saved>> /\ log' = log
      BY <2>8 DEF Cut, memory
    <3>2. f \in Rec /\ f.k = "file" /\ Saved \in Rec /\ Saved.k = "state"
      <4>1. Len(log) + 1 \in 0..(MaxIndex + 1)
        BY <1>0, <1>3, IndexIs DEF MemoryOK
      <4>2. QED
        BY <1>4, <4>1, NewRecords
    <3> HIDE DEF f
    <3>3. wal' = Append(v, Saved)
      <4>1. wal \in Seq(Rec) /\ f \in Rec /\ Saved \in Rec
        BY <1>2, <3>2
      <4>2. wal \o <<f, Saved>> = Append(Append(wal, f), Saved)
        BY <4>1, ConcatIs
      <4>3. QED
        BY <3>1, <4>2
    <3>4. v \in Seq(Rec) /\ LatestAgree(v, log, s)
      BY <1>2, <2>1, <3>2, AppendIs, LatestAppend DEF LogOK
    <3> HIDE DEF v
    <3>5. LastState(wal') = Saved
      BY <3>2, <3>3, <3>4, LastStateAppend
    <3>6. LatestAgree(wal', log, s)
      BY <3>2, <3>3, <3>4, LatestAppend
    <3>7. Saved' = Saved
      BY <3>5 DEF Saved
    <3>8. QED
      BY <1>4, <2>2, <3>1, <3>6, <3>7
  <2>9. CASE Purge
    <3>1. log' = log
      BY <2>9 DEF Purge, memory
    <3>2. PICK c \in DOMAIN wal : c > 1 /\ wal[c].k = "file" /\ wal' = SubSeq(wal, c, Len(wal))
      BY <2>9, PurgeIs
    <3>3. c + 1 \in DOMAIN wal /\ wal[c + 1].k = "state"
      <4>1. c + 1 <= Synced /\ wal[c + 1].k = "state"
        BY <1>0, <3>2 DEF Ordered, Headed
      <4>2. QED
        BY <1>2, <4>1
    <3>4. Saved' = Saved
      BY <1>2, <3>2, <3>3, LastStatePurge DEF Saved
    <3>5. LatestAgree(wal', log, s)
      BY <1>2, <2>1, <3>2, LatestPurge DEF LogOK
    <3>6. QED
      BY <1>4, <2>2, <3>1, <3>4, <3>5
  <2>10. ASSUME NEW lost \in 0..soft, Crash(lost)
         PROVE  /\ Saved'.i <= s \/ Saved'.i <= Len(log')
                /\ \A k \in 1..Len(log') : s < k /\ k <= Saved'.i => log'[k] = agreed'[k]
                /\ LatestAgree(wal', log', s)
    <3> DEFINE l == Len(wal) - lost
    <3>1. wal' = SubSeq(wal, 1, l) /\ log' = log
      BY <2>10 DEF Crash
    <3>2. l \in 0..Len(wal) /\ Synced <= l
      BY <1>2, <1>3
    <3> HIDE DEF l
    <3>3. wal' \in Seq(Rec) /\ Len(wal') = l /\ \A p \in 1..l : wal'[p] = wal[p]
      BY <1>2, <3>1, <3>2, PrefixIs
    <3>4. DOMAIN wal' = 1..l
      BY <3>3, SeqFacts
    <3>5. \A p \in DOMAIN wal' : p \in DOMAIN wal /\ wal[p] = wal'[p]
      BY <1>2, <3>2, <3>3, <3>4
    <3>6. ASSUME NEW p \in DOMAIN wal, wal[p].k = "entry"
          PROVE  p \in DOMAIN wal' /\ wal'[p] = wal[p]
      <4>1. ~(p > Synced) /\ p \in 1..Len(wal)
        BY <1>2, <3>6
      <4>2. p \in 1..l
        BY <1>2, <3>2, <4>1
      <4>3. QED
        BY <3>3, <3>4, <4>2
    <3>7. LatestAgree(wal', log, s)
      BY <1>2, <2>1, <3>3, <3>5, <3>6, LatestKept DEF LogOK
    <3>8. Saved'.i \in Nat /\ Saved'.i <= Saved.i
      <4>1. CASE At(wal', "state") = {}
        <5>1. Saved' = State(0, 0)
          BY <3>3, <4>1, LastStateIs DEF Saved
        <5>2. QED
          BY <1>4, <5>1 DEF State
      <4>2. CASE At(wal', "state") # {}
        <5>1. PICK p \in At(wal', "state") : LastState(wal') = wal'[p]
          BY <3>3, <4>2, LastStateIs
        <5>2. p \in DOMAIN wal /\ wal[p].k = "state" /\ Saved' = wal[p]
          BY <3>5, <5>1 DEF At, Saved
        <5>3. wal[p].i <= Saved.i
          BY <1>0, <1>2, <5>2, LastStateGreatest DEF Saved, Ordered
        <5>4. wal[p].i \in Nat
          BY <5>2, WalIs
        <5>5. QED
          BY <5>2, <5>3, <5>4
      <4>3. QED
        BY <4>1, <4>2
    <3>9. QED
      BY <2>2, <3>1, <3>7, <3>8
  <2>11. CASE Restart
    <3>1. wal' = wal /\ log' = RestartLog /\ agreed' = agreed /\ Saved.i <= Len(RestartLog)
      BY <2>11 DEF Restart
    <3>2. Saved' = Saved
      BY <3>1 DEF Saved
    <3>3. Len(RestartLog) \in Nat
      BY <2>11, RestartLogIs, IndexIs DEF Restart
    <3>4. \A k \in 1..Len(RestartLog) : k <= Saved.i => k \in 1..Saved.i
      BY <1>4, <3>3
    <3>5. QED
      BY <2>1, <2>11, <3>1, <3>2, <3>4, RestartTerms
  <2>12. ASSUME NEW i \in 1..MaxIndex, NEW e \in 1..MaxTerm, NEW t \in 1..MaxTerm,
                AppendEntry(i, e, t)
         PROVE  /\ Saved'.i <= s \/ Saved'.i <= Len(log')
                /\ \A k \in 1..Len(log') : s < k /\ k <= Saved'.i => log'[k] = agreed'[k]
                /\ LatestAgree(wal', log', s)
    <3> DEFINE en == Entry(i, e)
    <3> DEFINE st == State(commit, t)
    <3> DEFINE v == Append(wal, en)
    <3>1. /\ wal' = wal \o <<en>> \o (IF st = Saved THEN <<>> ELSE <<st>>)
          /\ i > commit /\ i <= Len(log) + 1 /\ log' = Append(SubSeq(log, 1, i - 1), e)
          /\ commit' = commit /\ agreed' = agreed /\ Up /\ saving.step \in {"idle", "local"}
      BY <2>12 DEF AppendEntry
    <3>2. /\ i \in Index /\ i \in Nat /\ i >= 1 /\ e \in Terms /\ t \in Terms
          /\ i - 1 \in 0..Len(log)
      BY <1>3, <3>1, IndexIs, BoundsAssumption DEF Terms
    <3>3. /\ en \in Rec /\ en.k = "entry" /\ en.i = i /\ en.t = e
          /\ st \in Rec /\ st.k = "state" /\ st.i = commit
      BY <1>3, <3>2, NewRecords
    <3> HIDE DEF en, st, v
    <3>4. wal' = v \/ wal' = Append(v, st)
      <4>0. wal \in Seq(Rec) /\ en \in Rec /\ st \in Rec
        BY <1>2, <3>3
      <4>1. /\ wal \o <<en>> \o <<>> = Append(wal, en)
            /\ wal \o <<en>> \o <<st>> = Append(Append(wal, en), st)
        BY <4>0, ConcatIs
      <4>2. QED
        BY <3>1, <4>1 DEF v
    <3>5. /\ SubSeq(log, 1, i - 1) \in Seq(Terms) /\ Len(SubSeq(log, 1, i - 1)) = i - 1
          /\ \A k \in 1..(i - 1) : SubSeq(log, 1, i - 1)[k] = log[k]
      BY <1>3, <3>2, PrefixIs
    <3>6. /\ Len(log') = (i - 1) + 1 /\ log'[(i - 1) + 1] = e
          /\ \A k \in 1..(i - 1) : log'[k] = log[k]
      BY <3>1, <3>2, <3>5, AppendIs
    <3>7. Len(log') = i /\ log'[i] = e
      BY <3>2, <3>6
    <3>8. v \in Seq(Rec) /\ LastState(v) = Saved
      BY <1>2, <3>3, AppendIs, LastStateAppend DEF v, Saved
    <3>9. LatestAgree(v, log', s)
      <4>1. LatestAgree(wal, log, s)
        BY <2>1 DEF LogOK
      <4>2. Len(log') = en.i /\ en.i >= 1 /\ en.i <= Len(log) + 1 /\ log'[en.i] = en.t
            /\ \A k \in 1..(en.i - 1) : log'[k] = log[k]
        BY <3>1, <3>2, <3>3, <3>6, <3>7
      <4>3. QED
        BY <1>2, <1>3, <2>1, <3>3, <4>1, <4>2, LatestEntry DEF v
    <3>10. Saved.i <= commit
      BY <1>0, <3>1 DEF Steps
    <3>11. Saved'.i \in Nat /\ Saved'.i <= commit /\ LatestAgree(wal', log', s)
      <4>1. CASE wal' = v
        BY <1>4, <3>8, <3>9, <3>10, <4>1 DEF Saved
      <4>2. CASE wal' = Append(v, st)
        <5>1. LastState(wal') = st
          BY <3>3, <3>8, <4>2, LastStateAppend
        <5>2. Saved' = st
          BY <5>1 DEF Saved
        <5>3. LatestAgree(wal', log', s)
          BY <3>3, <3>8, <3>9, <4>2, LatestAppend
        <5>4. QED
          BY <1>3, <3>3, <5>2, <5>3
      <4>3. QED
        BY <3>4, <4>1, <4>2
    <3>12. \A k \in 1..commit : log'[k] = agreed[k]
      <4>1. \A k \in 1..commit : k \in 1..(i - 1)
        BY <1>3, <3>1, <3>2
      <4>2. QED
        BY <1>0, <3>6, <4>1 DEF CommittedOK
    <3>13. Saved'.i <= Len(log')
      BY <1>3, <3>1, <3>2, <3>7, <3>11
    <3>14. \A k \in 1..Len(log') : k <= Saved'.i => k \in 1..commit
      BY <1>3, <3>2, <3>7, <3>11
    <3>15. QED
      BY <3>1, <3>11, <3>12, <3>13, <3>14
  <2>13. CASE \/ \E c \in 1..MaxIndex : Commit(c)
              \/ \E batched \in BOOLEAN : Apply(batched)
              \/ SnapFile \/ \E i \in 1..MaxIndex, t \in 1..MaxTerm : ReceiveFile(i, t)
              \/ Stop
    BY <2>3, <2>13 DEF Commit, Apply, SnapFile, ReceiveFile, Stop, disk, memory
  <2>14. QED
    BY <2>4, <2>5, <2>6, <2>7, <2>8, <2>9, <2>10, <2>11, <2>12, <2>13 DEF ServerNext
<1>7. MarksOK'
  BY MarksStep
<1>8. QED
  BY <1>5, <1>6, <1>7 DEF ContentInv, LogOK

-----------------------------------------------------------------------------
(* The command.                                                            *)

\* What the snapshotter loads may be started from, and the WAL reaches back to it.
LEMMA LoadedIs ==
  ASSUME TypeInv, ReleaseInv
  PROVE  /\ Loaded \in [k : {"snap"}, i : Index, t : Terms]
         /\ Relevant(Loaded.i, wal, Synced, snaps) /\ Readable(Loaded)
<1>1. /\ MemoryOK /\ wal \in Seq(Rec) /\ wal[1].k = "file" /\ 1 \in DOMAIN wal
      /\ \A p \in DOMAIN wal : wal[p].i \in Nat
  BY TypeInvIs, WalIs DEF RecordsOK
<1>2. /\ Loaded.i \in Index /\ Loaded.t \in Terms /\ Loaded = Snap(Loaded.i, Loaded.t)
      /\ \A r \in snaps : r.i <= Loaded.i
  <2>1. CASE snaps = {}
    BY <2>1, IndexIs, BoundsAssumption DEF Loaded, Snap, Terms
  <2>2. CASE snaps # {}
    BY <1>1, <2>2, NewestIs DEF Loaded, MemoryOK
  <2>3. QED
    BY <2>1, <2>2
<1>3. Relevant(Loaded.i, wal, Synced, snaps)
  BY <1>2 DEF Relevant, Durable
<1>4. wal[1].i <= Loaded.i
  <2>1. CASE wal[1].i = 0
    BY <1>2, <2>1, IndexIs
  <2>2. CASE \E r \in Durable(wal, Synced, snaps) : wal[1].i <= r.i
    <3>1. PICK r \in Durable(wal, Synced, snaps) : wal[1].i <= r.i
      BY <2>2
    <3>2. r.i <= Loaded.i /\ r.i \in Nat /\ Loaded.i \in Nat /\ wal[1].i \in Nat
      BY <1>1, <1>2, IndexIs, SnapIndexes DEF Durable
    <3>3. QED
      BY <3>1, <3>2
  <2>3. QED
    BY <2>1, <2>2 DEF ReleaseInv
<1>5. 1 \in Segments(Loaded)
  BY <1>1, <1>4 DEF Segments, At
<1>6. Readable(Loaded)
  BY <1>1, <1>2, <1>5 DEF Readable, ErrFileNotFound
<1>7. QED
  BY <1>2, <1>3, <1>6 DEF Snap

\* A WAL without stale entries is read without a gap.
LEMMA LoadedWithoutGap ==
  ASSUME TypeInv, ReleaseInv, SegmentInv, ~revived
  PROVE  ReadAll(Loaded).err # "ErrSliceOutOfRange"
<1> DEFINE m == SegmentOf(Loaded)
<1>1. Readable(Loaded) /\ Relevant(Loaded.i, wal, Synced, snaps) /\ Loaded.i \in Index
  BY LoadedIs DEF Relevant
<1>2. m \in DOMAIN wal /\ wal[m].k = "file" /\ wal[m].i <= Loaded.i
  <2>1. m \in 1..Len(wal) /\ wal[m].k = "file" /\ wal[m].i <= Loaded.i
    BY <1>1, PositionsAre
  <2>2. QED
    BY <2>1, WalIs
<1>3. GapFree(wal, m, Loaded.i)
  BY <1>1, <1>2 DEF SegmentInv
<1>4. QED
  BY <1>1, <1>3, NoGapNoError

\* The commit index that is read is an agreed one; without a gap it is the last.
LEMMA CommitIndexRead ==
  ASSUME TypeInv, OrderInv, ReleaseInv, SegmentInv, ReadAll(Loaded).err \in Tolerated
  PROVE  LET read == HardCommit(ReadAll(Loaded))
         IN  read \in Index /\ read <= Len(agreed) /\ (~revived => read = Saved.i)
<1> DEFINE st == ReadAll(Loaded).state
<1> DEFINE m == SegmentOf(Loaded)
<1>1. Readable(Loaded) /\ m \in 1..Len(wal) /\ wal[m].k = "file"
  BY LoadedIs, PositionsAre
<1>2. /\ wal \in Seq(Rec) /\ DOMAIN wal = 1..Len(wal) /\ Len(wal) \in Nat /\ Len(agreed) \in Nat
      /\ \A p \in DOMAIN wal : wal[p].k = "state" => wal[p].i \in Index /\ wal[p].i <= Len(agreed)
  BY WalIs, TypeInvIs, LenProperties DEF RecordsOK, MemoryOK
<1>3. /\ st = State(0, 0) \/ \E p \in DOMAIN wal : wal[p].k = "state" /\ st = wal[p]
      /\ ReadAll(Loaded).err = "nil" =>
           \A p \in DOMAIN wal :
             /\ p >= m /\ wal[p].k = "state"
             /\ \A q \in DOMAIN wal : wal[q].k = "state" => q <= p
             => st = wal[p]
  BY <1>1, StateRead
<1> HIDE DEF m, st
<1>4. st.i \in Index /\ st.i <= Len(agreed)
  <2>1. CASE st = State(0, 0)
    BY <1>2, <2>1, IndexIs DEF State
  <2>2. CASE \E p \in DOMAIN wal : wal[p].k = "state" /\ st = wal[p]
    BY <1>2, <2>2
  <2>3. QED
    BY <1>3, <2>1, <2>2
<1>5. ASSUME ~revived
      PROVE  st = Saved
  <2>1. ReadAll(Loaded).err = "nil"
    BY <1>5, LoadedWithoutGap DEF Tolerated
  <2>2. CASE At(wal, "state") = {}
    <3>1. Saved = State(0, 0)
      BY <1>2, <2>2, LastStateIs DEF Saved
    <3>2. QED
      BY <1>3, <2>2, <3>1 DEF At
  <2>3. CASE At(wal, "state") # {}
    <3>1. PICK p \in At(wal, "state") : Saved = wal[p] /\ \A q \in At(wal, "state") : q <= p
      BY <1>2, <2>3, LastStateIs DEF Saved
    <3>2. /\ p \in DOMAIN wal /\ wal[p].k = "state"
          /\ \A q \in DOMAIN wal : wal[q].k = "state" => q <= p
      BY <3>1 DEF At
    <3>3. p >= m
      <4>1. CASE m = 1
        BY <1>2, <3>2, <4>1
      <4>2. CASE m > 1
        <5>1. m + 1 <= Synced /\ wal[m + 1].k = "state"
          BY <1>1, <1>2, <4>2 DEF OrderInv, Ordered, Headed
        <5>2. m + 1 \in DOMAIN wal
          <6>1. Synced \in Nat /\ Synced <= Len(wal)
            BY TypeInvIs, <1>2 DEF RecordsOK
          <6>2. QED
            BY <1>1, <1>2, <5>1, <6>1
        <5>3. m + 1 <= p
          BY <3>2, <5>1, <5>2
        <5>4. QED
          BY <1>1, <1>2, <3>2, <5>3
      <4>3. QED
        BY <1>1, <1>2, <4>1, <4>2
    <3>4. QED
      BY <1>3, <2>1, <3>1, <3>2, <3>3
  <2>4. QED
    BY <2>2, <2>3
<1>6. QED
  BY <1>4, <1>5 DEF HardCommit, st

\* If the snapshot that is loaded has its record, reading does not fail.
LEMMA LoadedIsRead ==
  ASSUME TypeInv, OrderInv, ReleaseInv, ContentInv,
         snaps = {} \/ Newest(snaps) \in {wal[n] : n \in At(wal, "snap")}
  PROVE  ~ErrFileNotFound(Loaded) /\ ReadAll(Loaded).err \in Tolerated
<1> DEFINE m == SegmentOf(Loaded)
<1>1. /\ Readable(Loaded) /\ Loaded.i \in Nat
      /\ m \in 1..Len(wal) /\ wal[m].k = "file" /\ wal[m].i <= Loaded.i
  BY LoadedIs, PositionsAre, IndexIs
<1>2. /\ DOMAIN wal = 1..Len(wal) /\ Len(wal) \in Nat
      /\ \A p \in DOMAIN wal : wal[p].i \in Nat
      /\ wal[1].k = "file" /\ 1 \in DOMAIN wal
  BY WalIs, TypeInvIs DEF RecordsOK
<1> HIDE DEF m
<1>3. ASSUME NEW p \in DOMAIN wal, wal[p].k = "snap", wal[p].i = Loaded.i
      PROVE  wal[p].t = Loaded.t
  <2>1. CASE snaps = {}
    BY <1>3, <2>1 DEF ContentInv, MarksOK, Loaded, Snap
  <2>2. CASE snaps # {}
    <3>1. Loaded \in snaps
      BY <2>2, TypeInvIs, NewestIs DEF Loaded, MemoryOK
    <3>2. Loaded.i >= 1 /\ Loaded.t = agreed[Loaded.i]
      BY <3>1 DEF ContentInv, MarksOK
    <3>3. QED
      BY <1>1, <1>3, <3>2 DEF ContentInv, MarksOK
  <2>3. QED
    BY <2>1, <2>2
<1>4. \E p \in m..Len(wal) : wal[p].k = "snap" /\ wal[p].i = Loaded.i
  <2>1. CASE snaps = {}
    <3>1. Loaded.i = 0
      BY <2>1 DEF Loaded, Snap
    <3>2. m = 1
      <4>1. ~(wal[m].i >= 1)
        BY <1>1, <1>2, <3>1
      <4>2. ~(m > 1)
        BY <1>1, <1>2, <4>1 DEF OrderInv, Ordered, Headed
      <4>3. QED
        BY <1>1, <4>2
    <3>3. wal[1].i = 0
      BY <1>1, <1>2, <3>1, <3>2
    <3>4. Len(wal) >= 2 /\ wal[2] = Snap(0, 0)
      BY <3>3 DEF OrderInv, Ordered, FromStart
    <3>5. 2 \in m..Len(wal)
      BY <1>2, <3>2, <3>4
    <3>6. QED
      BY <3>1, <3>4, <3>5 DEF Snap
  <2>2. CASE snaps # {}
    <3>1. PICK p \in DOMAIN wal : wal[p].k = "snap" /\ wal[p] = Loaded
      BY <2>2 DEF At, Loaded
    <3>2. ~(p < m)
      <4>1. p < m => wal[p].i < wal[m].i
        BY <1>1, <1>2, <3>1 DEF OrderInv, Ordered, SnapsBelow
      <4>2. wal[m].i \in Nat
        BY <1>1, <1>2
      <4>3. QED
        BY <1>1, <3>1, <4>1, <4>2
    <3>3. p \in m..Len(wal)
      BY <1>1, <1>2, <3>2
    <3>4. QED
      BY <3>1, <3>3
  <2>3. QED
    BY <2>1, <2>2
<1>5. ReadAll(Loaded).err # "ErrSnapshotMismatch" /\ ReadAll(Loaded).err # "ErrSnapshotNotFound"
  <2>1. \A p \in m..Len(wal) : p \in DOMAIN wal
    BY <1>1, <1>2
  <2>2. /\ ReadAll(Loaded).err = "ErrSnapshotMismatch" => \E p \in m..Len(wal) :
             wal[p].k = "snap" /\ wal[p].i = Loaded.i /\ wal[p].t # Loaded.t
        /\ ReadAll(Loaded).err = "ErrSnapshotNotFound" => \A p \in m..Len(wal) :
             ~(wal[p].k = "snap" /\ wal[p].i = Loaded.i)
    BY <1>1, ErrorsAre DEF m
  <2>3. QED
    BY <1>3, <1>4, <2>1, <2>2
<1>6. ReadAll(Loaded).err \in
        {"nil", "ErrSliceOutOfRange", "ErrSnapshotMismatch", "ErrSnapshotNotFound"}
  BY <1>1, ErrorsAre
<1>7. QED
  BY <1>1, <1>5, <1>6 DEF Readable, Tolerated

\* What the server's layers say together.
ServerInv == TypeInv /\ OrderInv /\ ReleaseInv /\ SegmentInv /\ ContentInv

\* They hold while the command runs, since it changes nothing.
LEMMA ServerUnchanged ==
  ASSUME ServerInv, UNCHANGED walVars
  PROVE  ServerInv'
<1>1. /\ wal' = wal /\ soft' = soft /\ snaps' = snaps /\ db' = db /\ log' = log
      /\ commit' = commit /\ applied' = applied /\ saving' = saving /\ released' = released
      /\ server' = server /\ restarts' = restarts /\ revived' = revived /\ agreed' = agreed
  BY DEF walVars, disk, memory, past
<1>2. TypeInv'
  BY <1>1 DEF ServerInv, TypeInv, WalTypeOK, Synced
<1>3. OrderInv'
  BY <1>1 DEF ServerInv, OrderInv, Steps, Synced, Saved, Up
<1>4. ReleaseInv'
  BY <1>1 DEF ServerInv, ReleaseInv, Synced
<1>5. SegmentInv'
  BY <1>1 DEF ServerInv, SegmentInv, Synced
<1>6. ContentInv'
  BY <1>1 DEF ServerInv, ContentInv, CommittedOK, MarksOK, LogOK, Saved, Synced
<1>7. QED
  BY <1>2, <1>3, <1>4, <1>5, <1>6 DEF ServerInv

\* They hold in the beginning,
LEMMA ServerInit ==
  ASSUME WalInit
  PROVE  ServerInv
  BY TypeInit, OrderInit, ReleaseInit, SegmentInit, ContentInit DEF ServerInv

\* and every step of the server keeps them.
LEMMA ServerStep ==
  ASSUME ServerInv, ServerNext
  PROVE  ServerInv'
  BY TypeStep, OrderStep, ReleaseStep, SegmentStep, ContentStep DEF ServerInv

\* What the command has read holds from the beginning,
LEMMA CommandInit ==
  ASSUME Init, ServerInv
  PROVE  CommandInv
<1>1. pc = "idle" /\ walsnap = Snap(0, 0) /\ commitIndex = 0 /\ result = 0
  BY DEF Init
<1>2. WalTypeOK
  BY DEF ServerInv, TypeInv
<1>3. walsnap \in [k : {"snap"}, i : Index, t : Terms] /\ 0 \in Index
  BY <1>1, IndexIs, BoundsAssumption DEF Snap, Terms
<1>4. TypeOK
  BY <1>1, <1>2, <1>3 DEF TypeOK
<1>5. QED
  BY <1>1, <1>4 DEF CommandInv, FailsOnlyOnOrphan

\* and every step of the server and of the command keeps it.
LEMMA CommandStep ==
  ASSUME ServerInv, ServerInv', CommandInv, [Next]_vars
  PROVE  CommandInv'
<1>0. TypeInv /\ OrderInv /\ ReleaseInv /\ SegmentInv /\ ContentInv /\ WalTypeOK'
  BY DEF ServerInv, TypeInv
<1>1. /\ pc \in {"idle", "load", "read", "db", "done", "failed"}
      /\ walsnap \in [k : {"snap"}, i : Index, t : Terms]
      /\ commitIndex \in Index /\ result \in Index
  BY DEF CommandInv, TypeOK
<1>2. db \in Index /\ db \in Nat
  BY <1>0, TypeInvIs, IndexIs DEF MemoryOK
<1>3. ASSUME pc = "idle", UNCHANGED cvars
      PROVE  CommandInv'
  <2>1. TypeOK'
    BY <1>0, <1>1, <1>3 DEF TypeOK, cvars
  <2>2. QED
    BY <1>3, <2>1 DEF CommandInv, cvars, FailsOnlyOnOrphan
<1>4. ASSUME UNCHANGED walVars
      PROVE  /\ wal' = wal /\ snaps' = snaps /\ db' = db /\ agreed' = agreed
             /\ revived' = revived /\ server' = server
             /\ (Up' <=> Up) /\ Saved' = Saved /\ Loaded' = Loaded
  BY <1>4 DEF walVars, disk, past, Up, Saved, Loaded
<1>5. CASE UNCHANGED vars
  <2>1. UNCHANGED walVars /\ UNCHANGED cvars
    BY <1>5 DEF vars
  <2>2. pc' = pc /\ walsnap' = walsnap /\ commitIndex' = commitIndex /\ result' = result
    BY <2>1 DEF cvars
  <2>3. TypeOK'
    BY <1>0, <1>1, <2>2 DEF TypeOK
  <2>4. FailsOnlyOnOrphan'
    BY <1>4, <2>1, <2>2 DEF CommandInv, FailsOnlyOnOrphan
  <2>5. Answer' = Answer
    BY <1>4, <2>1, <2>2 DEF Answer
  <2>6. QED
    BY <1>4, <2>1, <2>2, <2>3, <2>4, <2>5 DEF CommandInv
<1>6. CASE Begin
  <2>1. /\ UNCHANGED walVars /\ pc' = "load" /\ ~Up
        /\ walsnap' = walsnap /\ commitIndex' = commitIndex /\ result' = result
    BY <1>6 DEF Begin
  <2>2. TypeOK'
    BY <1>0, <1>1, <2>1 DEF TypeOK
  <2>3. QED
    BY <1>4, <2>1, <2>2 DEF CommandInv, FailsOnlyOnOrphan
<1>7. CASE LoadSnapshot
  <2>1. /\ UNCHANGED walVars /\ pc = "load" /\ pc' = "read" /\ walsnap' = Loaded
        /\ commitIndex' = commitIndex /\ result' = result
    BY <1>7 DEF LoadSnapshot
  <2>2. TypeOK'
    BY <1>0, <1>1, <2>1, LoadedIs DEF TypeOK
  <2>3. ~Up'
    BY <1>4, <2>1 DEF CommandInv
  <2>4. QED
    BY <1>4, <2>1, <2>2, <2>3 DEF CommandInv, FailsOnlyOnOrphan
<1>8. CASE ReadWal
  <2>1. /\ UNCHANGED walVars /\ pc = "read" /\ walsnap = Loaded
        /\ walsnap' = walsnap /\ result' = result /\ ~Up'
    BY <1>4, <1>8 DEF ReadWal, CommandInv
  <2>2. CASE WalIsRead
    <3>1. pc' = "db" /\ commitIndex' = HardCommit(ReadAll(Loaded))
      BY <1>8, <2>1, <2>2 DEF ReadWal
    <3>2. /\ commitIndex' \in Index /\ commitIndex' <= Len(agreed)
          /\ ~revived => commitIndex' = Saved.i
      BY <1>0, <2>1, <2>2, <3>1, CommitIndexRead DEF WalIsRead
    <3>3. TypeOK'
      BY <1>0, <1>1, <2>1, <3>1, <3>2 DEF TypeOK
    <3>4. QED
      BY <1>4, <2>1, <3>1, <3>2, <3>3 DEF CommandInv, FailsOnlyOnOrphan
  <2>3. CASE ~WalIsRead
    <3>1. pc' = "failed" /\ commitIndex' = commitIndex
      BY <1>8, <2>3 DEF ReadWal
    <3>2. TypeOK'
      BY <1>0, <1>1, <2>1, <3>1 DEF TypeOK
    <3>3. Newest(snaps) \notin {wal[n] : n \in At(wal, "snap")}
      BY <1>0, <2>1, <2>3, LoadedIsRead DEF WalIsRead
    <3>4. FailsOnlyOnOrphan'
      BY <1>4, <2>1, <3>3 DEF FailsOnlyOnOrphan
    <3>5. QED
      BY <2>1, <3>1, <3>2, <3>4 DEF CommandInv
  <2>4. QED
    BY <2>2, <2>3
<1>9. CASE ReadDb
  <2>1. /\ UNCHANGED walVars /\ pc = "db" /\ ~Up'
        /\ walsnap' = walsnap /\ commitIndex' = commitIndex
        /\ commitIndex <= Len(agreed) /\ (~revived => commitIndex = Saved.i)
    BY <1>4, <1>9 DEF ReadDb, CommandInv
  <2>2. CASE db = 0
    <3>1. pc' = "failed" /\ result' = result
      BY <1>9, <2>2 DEF ReadDb
    <3>2. TypeOK'
      BY <1>0, <1>1, <2>1, <3>1 DEF TypeOK
    <3>3. QED
      BY <1>4, <2>1, <2>2, <3>1, <3>2 DEF CommandInv, FailsOnlyOnOrphan
  <2>3. CASE db # 0
    <3>1. pc' = "done" /\ result' = Answer
      BY <1>9, <2>3 DEF ReadDb
    <3>2. Answer \in Index
      BY <1>1, <1>2 DEF Answer, max
    <3>3. TypeOK'
      BY <1>0, <1>1, <2>1, <3>1, <3>2 DEF TypeOK
    <3>4. Answer' = Answer
      BY <1>4, <2>1 DEF Answer
    <3>5. QED
      BY <1>4, <2>1, <3>1, <3>3, <3>4 DEF CommandInv, FailsOnlyOnOrphan
  <2>4. QED
    BY <2>2, <2>3
<1>10. QED
  BY <1>3, <1>5, <1>6, <1>7, <1>8, <1>9 DEF Next

-----------------------------------------------------------------------------
(* The theorems.                                                           *)

\* The six layers hold in every state.
THEOREM CInvariant == Spec => [](ServerInv /\ CommandInv)
<1>1. Init => ServerInv /\ CommandInv
  BY ServerInit, CommandInit DEF Init
<1>2. ServerInv /\ CommandInv /\ [Next]_vars => (ServerInv /\ CommandInv)'
  <2>1. SUFFICES ASSUME ServerInv, CommandInv, [Next]_vars
                 PROVE  ServerInv' /\ CommandInv'
    OBVIOUS
  <2>2. ServerNext \/ UNCHANGED walVars
    BY <2>1 DEF Next, vars, Begin, LoadSnapshot, ReadWal, ReadDb
  <2>3. ServerInv'
    BY <2>1, <2>2, ServerStep, ServerUnchanged
  <2>4. QED
    BY <2>1, <2>3, CommandStep
<1>3. QED
  BY <1>1, <1>2, PTL DEF Spec

\* The types of the model: what is on the disk and what the command has read.
THEOREM TypeCorrect == Spec => []TypeOK
<1>1. CommandInv => TypeOK
  BY DEF CommandInv
<1>2. QED
  BY <1>1, CInvariant, PTL

\* commit-index never prints an index that the cluster has not committed.
THEOREM NotAbove == Spec => []NotAboveAgreed
<1>1. ServerInv /\ CommandInv => NotAboveAgreed
  <2>1. SUFFICES ASSUME ServerInv, CommandInv, pc = "done"
                 PROVE  result <= Len(agreed)
    BY DEF NotAboveAgreed
  <2>2. commitIndex <= Len(agreed) /\ result = Answer
    BY <2>1 DEF CommandInv
  <2>3. db <= Len(agreed)
    BY <2>1 DEF ServerInv, TypeInv
  <2>4. QED
    BY <2>2, <2>3 DEF Answer, max
<1>2. QED
  BY <1>1, CInvariant, PTL

\* The index it prints is not below anything the member has on its disk.
THEOREM Remembers == Spec => []NothingForgotten
<1>1. ServerInv /\ CommandInv => NothingForgotten
  <2>1. SUFFICES ASSUME ServerInv, CommandInv, pc = "done"
                 PROVE  /\ db <= result
                        /\ ~revived => Saved.i <= result /\ StartsFrom.i <= result
                        /\ server = "stopped" /\ restarts = 0 => result = commit
    BY DEF NothingForgotten
  <2>2. /\ result = max(commitIndex, db) /\ (~revived => commitIndex = Saved.i)
        /\ commitIndex \in Nat
    BY <2>1, IndexIs DEF CommandInv, TypeOK, Answer
  <2>3. /\ db \in Nat /\ commit \in Nat /\ Saved.i \in Nat
        /\ StartsFrom.i \in Nat /\ StartsFrom.i <= Saved.i
    BY <2>1, TypeInvIs, SavedIs, StartsFromIs, IndexIs DEF ServerInv, MemoryOK
  <2>4. /\ server = "stopped" => commit = Saved.i
        /\ restarts = 0 => ~revived
        /\ restarts = 0 /\ server # "crashed" => db <= commit
    BY <2>1 DEF ServerInv, OrderInv, Steps
  <2>5. db <= result /\ commitIndex <= result
    BY <2>2, <2>3, maxIs
  <2>6. ~revived => Saved.i <= result /\ StartsFrom.i <= result
    BY <2>2, <2>3, <2>5, maxIs
  <2>7. server = "stopped" /\ restarts = 0 => result = commit
    BY <2>2, <2>3, <2>4 DEF max
  <2>8. QED
    BY <2>5, <2>6, <2>7
<1>2. QED
  BY <1>1, CInvariant, PTL

\* The error that the command tolerates does not hide a part of the WAL.
THEOREM Complete == Spec => []NeverPartial
<1>1. ServerInv /\ CommandInv => NeverPartial
  BY LoadedWithoutGap DEF ServerInv, CommandInv, NeverPartial
<1>2. QED
  BY <1>1, CInvariant, PTL

\* It fails only if nothing is applied, or if the newest snapshot has no record.
THEOREM FailsForOrphans == Spec => []FailsOnlyOnOrphan
<1>1. CommandInv => FailsOnlyOnOrphan
  BY DEF CommandInv
<1>2. QED
  BY <1>1, CInvariant, PTL
=============================================================================
