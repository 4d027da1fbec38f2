-------------------------------- MODULE Wal --------------------------------
(***************************************************************************)
(* What the offline commands commit-index and log find on the disk of one  *)
(* etcd member: the records of its write-ahead log (WAL), its .snap files  *)
(* and the consistent index of its db file, left behind by a server that   *)
(* appends, commits, takes and receives snapshots, stops and crashes.      *)
(*                                                                         *)
(* The server and the library that reads the files (go.etcd.io/etcd,       *)
(* packages wal and snap) are external to the repository.                  *)
(*                                                                         *)
(* The segments of the WAL are one sequence of records, with a "file"      *)
(* record where a segment begins.  An entry is its index and its term.     *)
(***************************************************************************)
EXTENDS Integers, Sequences, FiniteSetsExt

CONSTANTS
  MaxIndex,    \* bounds: indexes of entries,
  MaxTerm,     \* terms,
  MaxRestarts, \* restarts of the server,
  MaxRecords,  \* records of the WAL
  MaxFiles,    \* and segments.
  MaxWals      \* --max-wals: the segments that purging leaves, 5 by default

ASSUME BoundsAssumption ==
  /\ MaxIndex \in Nat \ {0} /\ MaxTerm \in Nat \ {0} /\ MaxRestarts \in Nat
  /\ MaxRecords \in Nat /\ MaxFiles \in Nat \ {0} /\ MaxWals \in Nat \ {0}

Index == 0..MaxIndex
Terms == 0..MaxTerm

File(i) == [k |-> "file", i |-> i, t |-> 0]       \* i: the index in its name
Entry(i, t) == [k |-> "entry", i |-> i, t |-> t]
State(c, t) == [k |-> "state", i |-> c, t |-> t]  \* commit index and term
Snap(i, t) == [k |-> "snap", i |-> i, t |-> t]
Idle == [step |-> "idle", i |-> 0, t |-> 0]

VARIABLES
  wal,       \* the records
  soft,      \* how many of the last ones are not synced
  snaps,     \* the .snap files
  db,        \* the consistent index in the db file
  server,    \* "up", "stopped" or "crashed"
  log,       \* in memory: the terms of the entries
  commit,    \* in memory: the commit index
  applied,   \* in memory: the applied index
  saving,    \* the snapshot being saved, and the last step taken
  released,  \* the index up to which segments are released
  restarts,
  revived,   \* ghost: a restarted server has taken stale entries for its log
  agreed     \* ghost: the terms of the entries the cluster has committed

disk == <<wal, soft, snaps, db>>
memory == <<log, commit, applied, saving, released>>
past == <<restarts, revived>>
walVars == <<disk, memory, server, past, agreed>>

WalInit ==
  /\ wal = <<File(0), Snap(0, 0)>> /\ soft = 0
  /\ snaps = {} /\ db = 0
  /\ server = "up"
  /\ log = <<>> /\ commit = 0 /\ applied = 0
  /\ saving = Idle /\ released = 0
  /\ restarts = 0 /\ revived = FALSE /\ agreed = <<>>

-----------------------------------------------------------------------------
(* Reading, as the commands and a restarted server do it.                  *)

\* The positions of the records of one kind.
At(recs, kind) == {p \in DOMAIN recs : recs[p].k = kind}

\* The last HardState, or the empty one.
LastState(recs) ==
  IF At(recs, "state") = {} THEN State(0, 0) ELSE recs[Max(At(recs, "state"))]

\* The segment that OpenForRead begins with: the last one whose name is not
\* above the start index.
Segments(start) == {p \in At(wal, "file") : wal[p].i <= start.i}
ErrFileNotFound(start) == Segments(start) = {}

\* (*WAL).ReadAll from a snapshot: it appends the entries after start.i, each
\* of them cutting off what was there from its index on, and gives up at an
\* entry that leaves a gap or a snapshot record of another term.  It wants to
\* meet the record of the start snapshot somewhere.
ReadAll(start) ==
  LET recs == SubSeq(wal, Max(Segments(start)), Len(wal))
      later == {p \in At(recs, "entry") : recs[p].i > start.i}
      before(p) == {q \in later : q < p}
      end(p) == IF before(p) = {} THEN start.i ELSE recs[Max(before(p))].i
      gaps == {p \in later : recs[p].i > end(p) + 1}
      matches == {p \in At(recs, "snap") : recs[p].i = start.i}
      mismatches == {p \in matches : recs[p].t # start.t}
      stops == gaps \cup mismatches
      stop == IF stops = {} THEN Len(recs) + 1 ELSE Min(stops)
      last(i) == recs[Max({p \in before(stop) : recs[p].i = i})]
      err == IF stop \in gaps THEN "ErrSliceOutOfRange"
             ELSE IF stop \in mismatches THEN "ErrSnapshotMismatch"
             ELSE IF matches = {} THEN "ErrSnapshotNotFound" ELSE "nil"
  IN  IF err = "ErrSnapshotMismatch"
      THEN [err |-> err, state |-> State(0, 0), ents |-> <<>>]
      ELSE [err |-> err,
            state |-> LastState(SubSeq(recs, 1, stop - 1)),
            ents |-> [n \in 1..(end(stop) - start.i) |-> last(start.i + n)]]

Newest(files) ==
  CHOOSE s \in files : \A r \in files : s.i > r.i \/ (s.i = r.i /\ s.t >= r.t)

\* What etcd starts from: the newest .snap file that has a record in the WAL
\* which the last HardState has reached.  The commands know no such condition.
Valid ==
  {s \in snaps : s \in {wal[p] : p \in At(wal, "snap")} /\ s.i <= LastState(wal).i}
StartsFrom == IF Valid = {} THEN Snap(0, 0) ELSE Newest(Valid)

\* The log of a server that starts from the files.
RestartLog ==
  SubSeq(agreed, 1, StartsFrom.i)
    \o [n \in DOMAIN ReadAll(StartsFrom).ents |-> ReadAll(StartsFrom).ents[n].t]

-----------------------------------------------------------------------------
(* The server.                                                             *)

Up == server = "up"
Saved == LastState(wal)
\* The raft loop is between two Ready structures, with no snapshot coming in.
Between == Up /\ commit = Saved.i /\ saving.step \in {"idle", "local"}
max(a, b) == IF a > b THEN a ELSE b

Room == Len(wal) < MaxRecords

Agrees(terms, n) ==
  \A k \in 1..n : k <= Len(agreed) => terms[k] = agreed[k]

\* The leader of term t has this member store an entry with index i and term
\* e, in place of what its log has from there on.  Entries are synced, with
\* the HardState if it has changed.
AppendEntry(i, e, t) ==
  LET entries == Append(SubSeq(log, 1, i - 1), e)
  IN  /\ Up /\ Room /\ saving.step \in {"idle", "local"}
      /\ i > commit /\ i <= Len(log) + 1
      /\ e <= t /\ Saved.t <= t
      /\ i > 1 => log[i - 1] <= e
      /\ i <= Len(log) => e # log[i] /\ log[i] < t
      /\ Agrees(entries, i)
      /\ log' = entries
      /\ wal' = wal \o <<Entry(i, e)>>
                    \o (IF State(commit, t) = Saved THEN <<>> ELSE <<State(commit, t)>>)
      /\ soft' = 0
      /\ UNCHANGED <<snaps, db, server, commit, applied, saving, released, past, agreed>>

\* Entries are known to be committed, and handed to the apply loop before the
\* HardState that says so is saved.
Commit(c) ==
  /\ Between
  /\ commit < c /\ c <= Len(log)
  /\ Agrees(log, c)
  /\ commit' = c
  /\ agreed' = IF c > Len(agreed) THEN SubSeq(log, 1, c) ELSE agreed
  /\ UNCHANGED <<disk, server, log, applied, saving, released, past>>

\* A HardState without a new term or entries is not synced.
SaveState ==
  /\ Up /\ Room /\ commit # Saved.i /\ saving.step \in {"idle", "local"}
  /\ wal' = Append(wal, State(commit, Saved.t))
  /\ soft' = soft + 1
  /\ UNCHANGED <<snaps, db, memory, server, past, agreed>>

\* The backend commits its batch with the entries, or later: with other
\* entries, a snapshot or a stop.
Apply(batched) ==
  /\ Up /\ saving.step = "idle"
  /\ applied < commit
  /\ applied' = commit
  /\ db' = IF batched THEN db ELSE max(db, commit)
  /\ UNCHANGED <<wal, soft, snaps, server, log, commit, saving, released, past, agreed>>

\* The member takes a snapshot: the db is committed, the .snap file written,
SnapFile ==
  /\ Between /\ saving.step = "idle"
  /\ StartsFrom.i < applied
  /\ db' = max(db, applied)
  /\ snaps' = snaps \cup {Snap(applied, log[applied])}
  /\ saving' = [step |-> "local", i |-> applied, t |-> log[applied]]
  /\ UNCHANGED <<wal, soft, server, log, commit, applied, released, past, agreed>>

\* and then its record, after which the segments before it are released.
SnapRecord ==
  /\ Up /\ Room /\ saving.step = "local"
  /\ wal' = Append(wal, Snap(saving.i, saving.t)) /\ soft' = 0
  /\ released' = saving.i
  /\ saving' = Idle
  /\ UNCHANGED <<snaps, db, server, log, commit, applied, past, agreed>>

\* The leader sends a snapshot beyond the end of the log: its .snap file,
ReceiveFile(i, t) ==
  /\ Between /\ saving.step = "idle"
  /\ Len(log) < i
  /\ IF i <= Len(agreed) THEN t = agreed[i]
     ELSE agreed # <<>> => agreed[Len(agreed)] <= t
  /\ agreed' = agreed \o [n \in 1..(i - Len(agreed)) |-> t]
  /\ snaps' = snaps \cup {Snap(i, t)}
  /\ saving' = [step |-> "file", i |-> i, t |-> t]
  /\ UNCHANGED <<wal, soft, db, server, log, commit, applied, released, past>>

\* its record,
ReceiveRecord ==
  /\ Up /\ Room /\ saving.step = "file"
  /\ wal' = Append(wal, Snap(saving.i, saving.t)) /\ soft' = 0
  /\ saving' = [saving EXCEPT !.step = "record"]
  /\ UNCHANGED <<snaps, db, server, log, commit, applied, released, past, agreed>>

\* the HardState that has reached it,
ReceiveState ==
  /\ Up /\ Room /\ saving.step = "record"
  /\ wal' = Append(wal, State(saving.i, max(Saved.t, saving.t))) /\ soft' = 0
  /\ saving' = [saving EXCEPT !.step = "state"]
  /\ UNCHANGED <<snaps, db, server, log, commit, applied, released, past, agreed>>

\* and its db file.
ReceiveDb ==
  /\ Up /\ saving.step = "state"
  /\ db' = max(db, saving.i)
  /\ log' = SubSeq(agreed, 1, saving.i)
  /\ commit' = saving.i /\ applied' = saving.i /\ released' = saving.i
  /\ saving' = Idle
  /\ UNCHANGED <<wal, soft, snaps, server, past, agreed>>

\* A segment is full: the next one is named for the next index and begins
\* with the last HardState.  (Not modelled: a segment that gets full after a
\* crash has left the record of a snapshot that is ahead of the log.)
Cut ==
  /\ Between /\ Room
  /\ Cardinality(At(wal, "file")) < MaxFiles
  /\ log # <<>> /\ wal[Max(At(wal, "file"))].i <= Len(log)
  /\ \A p \in At(wal, "snap") : wal[p].i <= Len(log)
  /\ wal' = wal \o <<File(Len(log) + 1), Saved>> /\ soft' = 0
  /\ UNCHANGED <<snaps, db, memory, server, past, agreed>>

\* The oldest segment is removed if the one after it begins before what is
\* released.
Purge ==
  LET files == At(wal, "file")
      second == Min(files \ {1})
  IN  /\ Up
      /\ Cardinality(files) > MaxWals
      /\ wal[second].i < released
      /\ wal' = SubSeq(wal, second, Len(wal))
      /\ UNCHANGED <<soft, snaps, db, memory, server, past, agreed>>

\* A stop that the server is asked for.
Stop ==
  /\ Between /\ saving.step = "idle"
  /\ server' = "stopped"
  /\ soft' = 0
  /\ db' = max(db, applied)
  /\ UNCHANGED <<wal, snaps, memory, past, agreed>>

\* A crash loses the memory (log stays as a ghost), and of the records that are
\* not synced all or the last ones.
Crash(lost) ==
  /\ Up
  /\ server' = "crashed"
  /\ wal' = SubSeq(wal, 1, Len(wal) - lost) /\ soft' = 0
  /\ commit' = 0 /\ applied' = 0 /\ saving' = Idle /\ released' = 0
  /\ UNCHANGED <<snaps, db, log, past, agreed>>

\* A server that cannot read its WAL, or whose log does not reach the commit
\* index, does not start.  What it reads after its snapshot may be entries that
\* its log did not have any more when a snapshot from the leader replaced it.
Restart ==
  /\ ~Up
  /\ ~ErrFileNotFound(StartsFrom) /\ ReadAll(StartsFrom).err = "nil"
  /\ Saved.i <= Len(RestartLog)
  /\ restarts < MaxRestarts /\ restarts' = restarts + 1
  /\ server' = "up"
  /\ log' = RestartLog
  /\ revived' = (revived \/ Len(RestartLog) > max(Len(log), StartsFrom.i))
  /\ commit' = Saved.i /\ applied' = StartsFrom.i
  /\ released' = StartsFrom.i + 1
  /\ db' = max(db, StartsFrom.i)
  /\ UNCHANGED <<wal, soft, snaps, saving, agreed>>

ServerNext ==
  \/ \E i \in 1..MaxIndex, e, t \in 1..MaxTerm : AppendEntry(i, e, t)
  \/ \E c \in 1..MaxIndex : Commit(c)
  \/ SaveState \/ \E batched \in BOOLEAN : Apply(batched)
  \/ SnapFile \/ SnapRecord
  \/ \E i \in 1..MaxIndex, t \in 1..MaxTerm : ReceiveFile(i, t)
  \/ ReceiveRecord \/ ReceiveState \/ ReceiveDb
  \/ Cut \/ Purge
  \/ Stop \/ \E lost \in 0..soft : Crash(lost)
  \/ Restart

WalTypeOK ==
  /\ wal \in Seq([k : {"file", "entry", "state", "snap"}, i : 0..(MaxIndex + 1), t : Terms])
  /\ wal[1].k = "file" /\ soft \in 0..Len(wal)
  /\ snaps \subseteq {Snap(i, t) : i \in Index, t \in Terms}
  /\ {db, commit, applied} \subseteq Index /\ released \in 0..(MaxIndex + 1)
  /\ server \in {"up", "stopped", "crashed"}
  /\ log \in Seq(Terms) /\ agreed \in Seq(Terms)
  /\ saving \in [step : {"idle", "local", "file", "record", "state"}, i : Index, t : Terms]
  /\ restarts \in 0..MaxRestarts /\ revived \in BOOLEAN
=============================================================================
