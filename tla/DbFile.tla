------------------------------- MODULE DbFile -------------------------------
(***************************************************************************)
(* The offline commands that read the bolt db file (list-bucket,           *)
(* iterate-bucket, hash, consistent-index), run beside an etcd server that *)
(* starts, writes and stops on the same data directory.                    *)
(*                                                                         *)
(* All of them meet at the file's lock.  bolt (external) takes it shared   *)
(* when the file is opened read-only and exclusively otherwise, and tries  *)
(* again until its Timeout is over, for ever if that is 0.                 *)
(*                                                                         *)
(* The file is one bucket: a sequence of entries in key order.  An entry   *)
(* that the bucket's decoder cannot unmarshal is "bad".                    *)
(***************************************************************************)
EXTENDS Integers, Sequences

CONSTANTS
  Tool,       \* invocations of the command line tool
  Commands,   \* what they may be asked
  Width,      \* bits of the limit; 64 in the code
  MaxKeys,    \* the bound on the entries of the bucket
  MaxStarts,  \* the bound on the server's starts
  None

Command ==
  [cmd : {"list-bucket", "iterate-bucket", "hash", "consistent-index"},
   timeout : BOOLEAN,            \* --timeout is not 0
   limit : 0..(2 ^ Width - 1),
   decode : BOOLEAN,
   bucket : BOOLEAN]             \* the bucket (and key) that is read exists

ASSUME CommandsAssumption == Commands \subseteq Command
\* A file cannot hold more entries than 64 bits count.
ASSUME WidthAssumption == Width \in Nat /\ MaxKeys \in Nat \ {0} /\ MaxKeys <= 2 ^ Width
ASSUME StartsAssumption == MaxStarts \in Nat
ASSUME NoneAssumption == None \notin Tool /\ "server" \notin Tool /\ None # "server"

VARIABLES
  exists,     \* there is a db file
  keys,       \* its entries
  exclusive,  \* who holds the lock exclusively: "server", a tool or None
  shared,     \* the tools that hold it shared
  server,     \* "down", "opening" or "up"
  starts,
  st,         \* st[c]: "start", "opening", "reading", "done", "failed",
              \* "panic" or "killed"
  ask,        \* ask[c]: the command line
  left,       \* left[c]: the variable limit of iterateBucket
  at,         \* at[c]: the cursor; 0 when it has passed the first entry
  out,        \* out[c]: what was written
  saw         \* ghost, saw[c]: the entries when c got the lock

file == <<exists, keys>>
lock == <<exclusive, shared>>
etcd == <<server, starts>>
tool == <<st, ask, left, at, out, saw>>
vars == <<file, lock, etcd, tool>>

Init ==
  /\ keys \in UNION {[1..n -> {"good", "bad"}] : n \in 0..MaxKeys}
  /\ exists \in BOOLEAN /\ (keys # <<>> => exists)
  /\ exclusive = None /\ shared = {}
  /\ server = "down" /\ starts = 0
  /\ st = [c \in Tool |-> "start"]
  /\ ask \in [Tool -> Commands]
  /\ left = [c \in Tool |-> ask[c].limit]
  /\ at = [c \in Tool |-> 0]
  /\ out = [c \in Tool |-> <<>>]
  /\ saw = [c \in Tool |-> <<>>]

-----------------------------------------------------------------------------
(* etcd (external). *)

ServerStart ==
  /\ server = "down"
  /\ starts < MaxStarts
  /\ server' = "opening"
  /\ starts' = starts + 1
  /\ exists' = TRUE
  /\ UNCHANGED <<keys, lock, tool>>

ServerLock ==
  /\ server = "opening"
  /\ exclusive = None /\ shared = {}
  /\ exclusive' = "server"
  /\ server' = "up"
  /\ UNCHANGED <<file, shared, starts, tool>>

\* A commit of the backend: here an entry with the next key.
ServerWrite(entry) ==
  /\ server = "up"
  /\ Len(keys) < MaxKeys
  /\ keys' = Append(keys, entry)
  /\ UNCHANGED <<exists, lock, etcd, tool>>

\* It stops or crashes, and the kernel drops its lock.
ServerStop ==
  /\ server # "down"
  /\ server' = "down"
  /\ exclusive' = IF server = "up" THEN None ELSE exclusive
  /\ UNCHANGED <<file, shared, starts, tool>>

-----------------------------------------------------------------------------
(* The tool. *)

\* mustVerifyAndConvertDBPath.
Verify(c) ==
  /\ st[c] = "start"
  /\ st' = [st EXCEPT ![c] = IF exists THEN "opening" ELSE "failed"]
  /\ UNCHANGED <<file, lock, etcd, ask, left, at, out, saw>>

\* getConsistentIndex opens the file read-only.
ReadOnly(c) == ask[c].cmd = "consistent-index"

FaultyHonoursTimeout(c) == ask[c].cmd = "list-bucket"

\* Only getBuckets and iterateBucket hand --timeout to bolt.
HonoursTimeout(c) == ask[c].cmd \in {"list-bucket", "iterate-bucket"}

FaultyLockFree(c) == exclusive # "server"

LockFree(c) == exclusive = None /\ (ReadOnly(c) \/ shared = {})

\* bolt.Open gets the lock, and db.View begins with the last entry.
Open(c) ==
  /\ st[c] = "opening"
  /\ LockFree(c)
  /\ IF ReadOnly(c)
     THEN shared' = shared \cup {c} /\ UNCHANGED exclusive
     ELSE exclusive' = c /\ UNCHANGED shared
  /\ st' = [st EXCEPT ![c] = "reading"]
  /\ at' = [at EXCEPT ![c] = Len(keys)]
  /\ saw' = [saw EXCEPT ![c] = keys]
  /\ UNCHANGED <<file, etcd, ask, left, out>>

\* ErrTimeout.
GiveUp(c) ==
  /\ st[c] = "opening"
  /\ ~LockFree(c)
  /\ HonoursTimeout(c) /\ ask[c].timeout
  /\ st' = [st EXCEPT ![c] = "failed"]
  /\ UNCHANGED <<file, lock, etcd, ask, left, at, out, saw>>

FaultyRelease(c) == UNCHANGED lock

\* db.Close, or the end of the process.
Release(c) ==
  /\ exclusive' = IF exclusive = c THEN None ELSE exclusive
  /\ shared' = shared \ {c}

Ends(c, outcome) ==
  /\ st' = [st EXCEPT ![c] = outcome]
  /\ Release(c)
  /\ UNCHANGED <<file, etcd, ask, left, at, out, saw>>

\* The names of the buckets are one list.
getBuckets(c) ==
  /\ st[c] = "reading" /\ ask[c].cmd = "list-bucket"
  /\ Ends(c, "done")

\* The backend is not closed: the lock goes with the process.
getHash(c) ==
  /\ st[c] = "reading" /\ ask[c].cmd = "hash"
  /\ Ends(c, "done")

\* Neither is this db.
getConsistentIndex(c) ==
  /\ st[c] = "reading" /\ ask[c].cmd = "consistent-index"
  /\ Ends(c, IF ask[c].bucket THEN "done" ELSE "failed")

\* iterateBucket is done: the bucket is missing, empty or exhausted.
IterationEnds(c) ==
  /\ st[c] = "reading" /\ ask[c].cmd = "iterate-bucket"
  /\ ~ask[c].bucket \/ at[c] = 0
  /\ Ends(c, IF ask[c].bucket THEN "done" ELSE "failed")

FaultyLimitIsZero(c) == left[c] = 0

FaultyDecremented(n) == n - 1

\* limit-- on an unsigned integer.
Decremented(n) == (n - 1) % 2 ^ Width

\* if limit == 0 { break }, after the decrement.
LimitReached(c) == Decremented(left[c]) = 0

\* One iteration of the loop: write the entry, count it, stop or step back.
Emit(c) ==
  /\ st[c] = "reading"
  /\ ask[c].cmd = "iterate-bucket" /\ ask[c].bucket /\ at[c] > 0
  /\ ~(ask[c].decode /\ keys[at[c]] = "bad")
  /\ out' = [out EXCEPT ![c] = Append(@, keys[at[c]])]
  /\ left' = [left EXCEPT ![c] = Decremented(@)]
  /\ at' = [at EXCEPT ![c] = IF LimitReached(c) THEN 0 ELSE @ - 1]
  /\ UNCHANGED <<file, lock, etcd, st, ask, saw>>

\* The decoder panics on an entry it cannot unmarshal.
DecoderPanics(c) ==
  /\ st[c] = "reading"
  /\ ask[c].cmd = "iterate-bucket" /\ ask[c].bucket /\ at[c] > 0
  /\ ask[c].decode /\ keys[at[c]] = "bad"
  /\ Ends(c, "panic")

Kill(c) ==
  /\ st[c] \in {"start", "opening", "reading"}
  /\ Ends(c, "killed")

ToolStep(c) ==
  \/ Verify(c) \/ Open(c) \/ GiveUp(c)
  \/ getBuckets(c) \/ getHash(c) \/ getConsistentIndex(c)
  \/ Emit(c) \/ DecoderPanics(c) \/ IterationEnds(c)

Next ==
  \/ ServerStart \/ ServerLock \/ ServerStop
  \/ \E entry \in {"good", "bad"} : ServerWrite(entry)
  \/ \E c \in Tool : ToolStep(c) \/ Kill(c)

Spec == Init /\ [][Next]_vars

\* Processes take their next step; nobody has to kill one or stop the server,
\* and a server that waits for the lock tries again and again.
FairSpec == Spec /\ WF_vars(ServerLock) /\ \A c \in Tool : WF_vars(ToolStep(c))

-----------------------------------------------------------------------------
(* Properties.                                                             *)

TypeOK ==
  /\ exists \in BOOLEAN
  /\ keys \in Seq({"good", "bad"}) /\ Len(keys) <= MaxKeys
  /\ exclusive \in Tool \cup {"server", None} /\ shared \subseteq Tool
  /\ server \in {"down", "opening", "up"} /\ starts \in 0..MaxStarts
  /\ st \in [Tool -> {"start", "opening", "reading", "done", "failed", "panic", "killed"}]
  /\ ask \in [Tool -> Commands]
  /\ left \in [Tool -> 0..(2 ^ Width - 1)]
  /\ at \in [Tool -> 0..MaxKeys]
  /\ out \in [Tool -> Seq({"good", "bad"})]
  /\ saw \in [Tool -> Seq({"good", "bad"})]

\* What a tool reads is one version of the file: from the moment it has the
\* lock until it ends nobody writes, and no server runs.
ReadsOneVersion ==
  \A c \in Tool : st[c] = "reading" => keys = saw[c] /\ server # "up"

\* What iterate-bucket is to write: the entries from the last one down, limit
\* of them, or all if the limit is 0.
Wanted(c) ==
  LET n == Len(saw[c])
      count == IF ask[c].limit = 0 \/ n < ask[c].limit THEN n ELSE ask[c].limit
  IN  [k \in 1..count |-> saw[c][n + 1 - k]]

\* iterate-bucket that ends well has written just that, though its counter
\* wraps around; one that is killed or panics has written a beginning of it.
IteratesWanted ==
  \A c \in Tool :
    /\ out[c] = SubSeq(Wanted(c), 1, Len(out[c])) /\ Len(out[c]) <= Len(Wanted(c))
    /\ st[c] = "done" /\ ask[c].cmd = "iterate-bucket" => out[c] = Wanted(c)

\* A diagnosis on a data directory in use delays a starting server, and does
\* not keep it from starting.
ServerGetsLock == server = "opening" ~> server # "opening"

\* "time to wait to obtain a file lock on db file": list-bucket and
\* iterate-bucket with a timeout do not wait for ever, though the server that
\* has the lock may never give it back.  (hash and consistent-index pass no
\* timeout to bolt and may wait for ever.)
TimeoutIsHonoured ==
  \A c \in Tool :
    st[c] = "opening" /\ ask[c].timeout /\ ask[c].cmd \in {"list-bucket", "iterate-bucket"}
    ~> st[c] # "opening"
=============================================================================
