----------------------------- MODULE WalReader -----------------------------
(***************************************************************************)
(* What the commands commit-index and log have in common: both read the    *)
(* WAL of a member that is not running, from the newest .snap file on.     *)
(***************************************************************************)
EXTENDS Wal

VARIABLES
  pc,       \* where the command is
  walsnap   \* where the WAL is read from

FaultyLoadedOldest ==
  IF snaps = {} THEN Snap(0, 0) ELSE CHOOSE s \in snaps : \A r \in snaps : s.i <= r.i

FaultyLoadedNoTerm == IF snaps = {} THEN Snap(0, 0) ELSE Snap(Newest(snaps).i, 0)

\* snap.Snapshotter.Load looks for the newest file, and walsnap stays empty if
\* there is none.
Loaded == IF snaps = {} THEN Snap(0, 0) ELSE Newest(snaps)
=============================================================================
