------------------------------ MODULE DumpLog ------------------------------
(***************************************************************************)
(* The command log on the data directory of a stopped or crashed member:   *)
(* where it starts reading, which errors of the WAL it tolerates, what it  *)
(* keeps, and the raw form.                                                *)
(***************************************************************************)
EXTENDS WalReader, EntryFilters

CONSTANTS
  Commands,  \* the command lines
  Data,      \* Data[i]: the data of the entry with index i
  NoEnd      \* the default of --end-index

Command ==
  [changed : BOOLEAN,                         \* --start-index is given
   start : 0..(MaxIndex + 1),                 \* startIndex, 0 if it is not
   end : 0..(MaxIndex + 1) \cup {NoEnd},
   snapFile : Index,                          \* the index of the file, or 0
   types : Seq({"Normal", "unknown"} \cup DOMAIN validRequest),
   raw : BOOLEAN]

ASSUME CommandsAssumption ==
  /\ Commands \subseteq Command /\ Commands # {}
  /\ \A c \in Commands : ~c.changed => c.start = 0
ASSUME DataAssumption == Data \in [1..MaxIndex -> EntryData]
ASSUME NoEndAssumption == NoEnd \notin Int

VARIABLES  \* pc is "idle", "load", "read", "list", "raw", "done" or "failed"
  cmd,      \* the command line
  ents,     \* what readUsingReadAll returns
  out       \* the rows printed

dvars == <<pc, cmd, walsnap, ents, out>>
dumpVars == <<walVars, dvars>>

DInit ==
  /\ WalInit
  /\ pc = "idle" /\ cmd = CHOOSE c \in Commands : TRUE
  /\ walsnap = Snap(0, 0) /\ ents = <<>> /\ out = <<>>

FlagsConflict(c) ==
  \/ c.snapFile # 0 /\ c.start # 0
  \/ c.raw /\ (c.snapFile # 0 \/ c.types # defaultEntryTypes)

logCommandFunc(c) ==
  /\ pc = "idle" /\ ~Up
  /\ cmd' = c
  /\ pc' = IF FlagsConflict(c) THEN "failed" ELSE IF c.raw THEN "raw" ELSE "load"
  /\ UNCHANGED <<walVars, walsnap, ents, out>>

FaultyStartSnapWraps == Snap(cmd.start - 1, 0)

\* ReadAll reads after its snapshot, so it is moved back by one; its term
\* stays 0.
StartSnap == Snap(IF cmd.start > 0 THEN cmd.start - 1 ELSE 0, 0)

\* The file --start-snap names (the file name has index and term).
Named == {s \in snaps : s.i = cmd.snapFile}

LoadStart ==
  /\ pc = "load"
  /\ IF ~cmd.changed /\ cmd.snapFile # 0 /\ Named = {}
     THEN pc' = "failed" /\ UNCHANGED walsnap
     ELSE /\ pc' = "read"
          /\ walsnap' = IF cmd.changed THEN StartSnap
                        ELSE IF cmd.snapFile # 0 THEN Newest(Named)
                        ELSE Loaded
  /\ UNCHANGED <<walVars, cmd, ents, out>>

FaultyToleratesGap(err) ==
  \/ err \in {"nil", "ErrSliceOutOfRange"}
  \/ err = "ErrSnapshotNotFound" /\ cmd.changed

FaultyToleratesNoStart(err) ==
  err = "nil" \/ (err = "ErrSliceOutOfRange" /\ cmd.end # NoEnd)

\* A start index need not be one of a snapshot, and with an end the entries
\* before a gap are good enough.
Tolerates(err) ==
  \/ err = "nil"
  \/ err = "ErrSnapshotNotFound" /\ cmd.changed
  \/ err = "ErrSliceOutOfRange" /\ cmd.end # NoEnd

FaultyBeforeEnd(read) ==
  IF cmd.end = NoEnd THEN read ELSE Pick(read, {n \in DOMAIN read : read[n].i <= cmd.end})

BeforeEnd(read) ==
  IF cmd.end = NoEnd THEN read ELSE Pick(read, {n \in DOMAIN read : read[n].i < cmd.end})

WalReads == ~ErrFileNotFound(walsnap) /\ Tolerates(ReadAll(walsnap).err)

readUsingReadAll ==
  /\ pc = "read"
  /\ IF WalReads
     THEN pc' = "list" /\ ents' = BeforeEnd(ReadAll(walsnap).ents)
     ELSE pc' = "failed" /\ UNCHANGED ents
  /\ UNCHANGED <<walVars, cmd, walsnap, out>>

List ==
  /\ pc = "list"
  /\ out' = listEntriesType(cmd.types, ents, Data)
  /\ pc' = "done"
  /\ UNCHANGED <<walVars, cmd, walsnap, ents>>

FaultyPrintsRec(rec) == rec.k = "file" \/ rec.i > cmd.start

\* Metadata and checksums, at the head of each segment, are always printed.
PrintsRec(rec) == rec.k = "file" \/ rec.i >= cmd.start

readRaw ==
  /\ pc = "raw"
  /\ out' = Pick(wal, {n \in DOMAIN wal : PrintsRec(wal[n])})
  /\ pc' = "done"
  /\ UNCHANGED <<walVars, cmd, walsnap, ents>>

DNext ==
  \/ pc = "idle" /\ ServerNext /\ UNCHANGED dvars
  \/ \E c \in Commands : logCommandFunc(c)
  \/ LoadStart \/ readUsingReadAll \/ List \/ readRaw

DSpec == DInit /\ [][DNext]_dumpVars

-----------------------------------------------------------------------------
(* Properties.                                                             *)

DTypeOK ==
  /\ WalTypeOK
  /\ pc \in {"idle", "load", "read", "list", "raw", "done", "failed"}
  /\ cmd \in Commands
  /\ walsnap \in [k : {"snap"}, i : 0..MaxIndex, t : Terms]
  /\ ents \in Seq([k : {"entry"}, i : 1..MaxIndex, t : 1..MaxTerm])
  /\ \A n \in DOMAIN out :
       \/ out[n] \in [i : 1..MaxIndex, t : 1..MaxTerm, type :
                       {"ConfigChange", "Request", "InternalRaftRequest", "UnknownNormal"}]
       \/ cmd.raw /\ out[n] \in {wal[p] : p \in DOMAIN wal}

\* The dump has been read, and is being listed.
Listed == pc \in {"list", "done"} /\ ~cmd.raw

\* A snapshot from the leader came when the member did not know whether its
\* entry i was committed: the WAL does not tell.
Overtaken(i) ==
  \E p \in At(wal, "snap") : wal[p].i >= i /\ LastState(SubSeq(wal, 1, p)).i < i

\* The log the member had when it ended.
LastLog ==
  IF Len(log) < StartsFrom.i THEN SubSeq(agreed, 1, StartsFrom.i) ELSE log
First == IF cmd.changed /\ cmd.start > 0 THEN cmd.start ELSE walsnap.i + 1
Bound == IF cmd.end = NoEnd THEN Len(LastLog) ELSE cmd.end - 1

\* Overwritten entries stay in the WAL.  All the same the entries dumped are
\* those of the log the member had: from the start index, or after the
\* snapshot, without a gap, each in its last version, and none from the end on.
\* (From a start that is after the end of the log, or that a snapshot has
\* overtaken, the dump also shows what was cut off and not written again.)
DumpIsLog ==
  Listed /\ First <= Len(LastLog) /\ ~Overtaken(First) =>
    \A n \in DOMAIN ents :
      /\ ents[n].i = First + n - 1 /\ ents[n].i <= Bound
      /\ Overtaken(ents[n].i) \/ ents[n].t = LastLog[ents[n].i]

\* A snapshot from the leader leaves a gap in the WAL.  Only a dump with an end
\* index may stop there; any other one has all the entries asked for, but for
\* those a snapshot replaces, or fails.
NothingIsMissing ==
  Listed /\ (cmd.end = NoEnd \/ ReadAll(walsnap).err # "ErrSliceOutOfRange") =>
    \A i \in First..Len(LastLog) :
      StartsFrom.i < i /\ i <= Bound => \E n \in DOMAIN ents : ents[n].i = i

\* Every entry is listed at most once, though it may pass several filters, in
\* the order of the log; and with the default types each entry is.
EveryEntryOnce ==
  pc = "done" /\ ~cmd.raw =>
    /\ \A m, n \in DOMAIN out : m < n => out[m].i < out[n].i
    /\ cmd.types = defaultEntryTypes => Len(out) = Len(ents)

\* The raw form shows the log too: of every index from the start on the last
\* record is the entry of the log, and no entry that is not in a snapshot is
\* missing.
RawShowsLog ==
  pc = "done" /\ cmd.raw =>
    \A i \in DOMAIN LastLog :
      LET shown == {n \in DOMAIN out : out[n].k = "entry" /\ out[n].i = i}
      IN  cmd.start <= i =>
            /\ shown # {} => Overtaken(i) \/ out[Max(shown)].t = LastLog[i]
            /\ i > StartsFrom.i => shown # {}

\* The reasons to fail: flags that exclude each other, no such snapshot file,
\* one that a crash has kept from getting its record, a start before what has
\* been purged, a start that follows a snapshot, and a gap without an end.
FailsForAReason ==
  pc = "failed" =>
    \/ FlagsConflict(cmd)
    \/ ErrFileNotFound(walsnap)
    \/ cmd.changed /\ \E p \in At(wal, "snap") : wal[p].i = cmd.start - 1 /\ wal[p].t > 0
    \/ ~cmd.changed /\ cmd.snapFile # 0 /\ Named = {}
    \/ ~cmd.changed /\ walsnap \notin {wal[p] : p \in At(wal, "snap")}
    \/ cmd.end = NoEnd /\ ReadAll(walsnap).err = "ErrSliceOutOfRange"

(* A statement of the code about itself that does not hold. *)

\* "the index to start dumping (inclusive)": a range can start with an entry
\* that the WAL still has, and the member knows to be committed.
StartIsInclusive ==
  cmd.changed /\ cmd.start \in 1..Saved.i /\ cmd.end # NoEnd /\ ~FlagsConflict(cmd)
    /\ (\E p \in At(wal, "entry") : wal[p].i = cmd.start)
  => pc # "failed"
=============================================================================
