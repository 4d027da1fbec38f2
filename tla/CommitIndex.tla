---------------------------- MODULE CommitIndex ----------------------------
(***************************************************************************)
(* The command commit-index on the data directory of a stopped or crashed  *)
(* member.  (The README of the repository wants the server to be stopped:  *)
(* once the command has begun it does not start again.)                    *)
(***************************************************************************)
EXTENDS WalReader

VARIABLES      \* pc is "idle", "load", "read", "db", "done" or "failed"
  commitIndex,  \* what getCommitIndex returned
  result        \* what is printed

cvars == <<pc, walsnap, commitIndex, result>>
vars == <<walVars, cvars>>

Init == WalInit /\ pc = "idle" /\ walsnap = Snap(0, 0) /\ commitIndex = 0 /\ result = 0

\* mustVerifyDir finds the directories.
Begin ==
  /\ pc = "idle" /\ ~Up
  /\ pc' = "load"
  /\ UNCHANGED <<walVars, walsnap, commitIndex, result>>

LoadSnapshot ==
  /\ pc = "load"
  /\ walsnap' = Loaded
  /\ pc' = "read"
  /\ UNCHANGED <<walVars, commitIndex, result>>

Tolerated == {"nil", "ErrSliceOutOfRange"}

WalIsRead == ~ErrFileNotFound(walsnap) /\ ReadAll(walsnap).err \in Tolerated

FaultyHardCommit(read) == walsnap.i + Len(read.ents)

HardCommit(read) == read.state.i

ReadWal ==
  /\ pc = "read"
  /\ IF WalIsRead
     THEN pc' = "db" /\ commitIndex' = HardCommit(ReadAll(walsnap))
     ELSE pc' = "failed" /\ UNCHANGED commitIndex
  /\ UNCHANGED <<walVars, walsnap, result>>

FaultyAnswerNoDb == commitIndex

FaultyAnswerNext == max(commitIndex, db) + 1

Answer == max(commitIndex, db)

\* getConsistentIndex; etcd does not store a consistent index of 0.
ReadDb ==
  /\ pc = "db"
  /\ IF db = 0
     THEN pc' = "failed" /\ UNCHANGED result
     ELSE pc' = "done" /\ result' = Answer
  /\ UNCHANGED <<walVars, walsnap, commitIndex>>

Next ==
  \/ pc = "idle" /\ ServerNext /\ UNCHANGED cvars
  \/ Begin \/ LoadSnapshot \/ ReadWal \/ ReadDb

Spec == Init /\ [][Next]_vars

-----------------------------------------------------------------------------
(* Properties.                                                             *)

TypeOK ==
  /\ WalTypeOK
  /\ pc \in {"idle", "load", "read", "db", "done", "failed"}
  /\ walsnap \in [k : {"snap"}, i : Index, t : Terms]
  /\ {commitIndex, result} \subseteq Index

\* The printed index is one that the cluster has really committed, though the
\* member's log may go on with entries that never will be.
NotAboveAgreed == pc = "done" => result <= Len(agreed)

\* Nothing the member knew is forgotten, whatever a crash has left of it: the
\* index is not below what is applied in the db, nor below the commit index
\* and the snapshot a restarted server would go on from.  A member stopped
\* in its first run gets just the commit index it stopped with.
NothingForgotten ==
  pc = "done" =>
    /\ db <= result
    /\ ~revived => Saved.i <= result /\ StartsFrom.i <= result
    /\ server = "stopped" /\ restarts = 0 => result = commit

\* The tolerated ErrSliceOutOfRange does not come up: read from the newest
\* snapshot the entries of a WAL that etcd has left are without a gap, so the
\* index is never one of a part of the WAL.  (The exception is a member that has
\* restarted on stale entries from before a segment: entries that follow them
\* are a gap in that segment.)
NeverPartial ==
  pc = "read" /\ ~revived =>
    ErrFileNotFound(walsnap) \/ ReadAll(walsnap).err # "ErrSliceOutOfRange"

\* The command fails only on a member that has not applied anything, or if the
\* newest .snap file is one that a crash has kept from getting its record.
FailsOnlyOnOrphan ==
  pc = "failed" => db = 0 \/ Newest(snaps) \notin {wal[n] : n \in At(wal, "snap")}

(* A statement of the repository about itself that does not hold. *)

\* "commit-index reads the commit index from data directory": of every
\* directory that etcd starts from and has applied something in.
StartableIsReadable == db > 0 => pc # "failed"
=============================================================================
