---------------------------- MODULE DbFile_proofs ----------------------------
(***************************************************************************)
(* Proofs about DbFile, for any number of tools, any width of the limit,   *)
(* every content of the file and any number of starts of the server.       *)
(***************************************************************************)
EXTENDS DbFile, SequenceTheorems, TLAPS

Entry == {"good", "bad"}

-----------------------------------------------------------------------------
(* The inductive invariant. *)

\* Who holds the lock, and how, follows from where everybody is; an exclusive
\* holder is alone.
LockInv ==
  /\ exclusive = "server" <=> server = "up"
  /\ exclusive # None => shared = {}
  /\ \A c \in Tool :
       /\ exclusive = c <=> st[c] = "reading" /\ ~ReadOnly(c)
       /\ c \in shared <=> st[c] = "reading" /\ ReadOnly(c)

\* Nobody has written since a reader got the lock.
VersionInv == \A c \in Tool : st[c] = "reading" => keys = saw[c]

\* How many entries of w the command line a wants.
Count(a, w) == IF a.limit = 0 \/ Len(w) < a.limit THEN Len(w) ELSE a.limit

\* What the counter limit holds after j entries: it counts down from the limit,
\* or from 2^Width when it has wrapped around.
CounterAfter(a, j) ==
  IF a.limit > 0 THEN a.limit - j ELSE IF j = 0 THEN 0 ELSE 2 ^ Width - j

\* Where the cursor is after j entries of w: past the first entry if that was
\* the last one wanted.
CursorAfter(a, w, j) == IF a.limit > 0 /\ j = a.limit THEN 0 ELSE Len(w) - j

\* What holds of one tool: of its command line a, where it is (s), its counter
\* l, its cursor p, its output o and the file w it saw.
Progress(a, s, l, p, o, w) ==
  /\ s \in {"start", "opening"} => o = <<>> /\ w = <<>> /\ l = a.limit
  /\ Len(w) <= MaxKeys
  /\ Len(o) <= Count(a, w)
  /\ \A k \in 1..Len(o) : o[k] = w[Len(w) + 1 - k]
  /\ s = "reading" /\ a.cmd = "iterate-bucket" =>
       l = CounterAfter(a, Len(o)) /\ p = CursorAfter(a, w, Len(o))
  /\ s = "done" /\ a.cmd = "iterate-bucket" => Len(o) = Count(a, w)

ProgressInv ==
  \A c \in Tool : Progress(ask[c], st[c], left[c], at[c], out[c], saw[c])

DInv == TypeOK /\ LockInv /\ VersionInv /\ ProgressInv

-----------------------------------------------------------------------------
(* The counter, which wraps around.                                        *)

\* A limit has 2^Width values, and at least one.
LEMMA Modulus == 2 ^ Width \in Nat /\ 2 ^ Width > 0 /\ MaxKeys \in Nat /\ MaxKeys <= 2 ^ Width
<1>1. 2 ^ Width \in Nat
  BY WidthAssumption
<1>2. QED
  BY <1>1, WidthAssumption

\* limit-- wraps around at 0 and nowhere else.
LEMMA DecrementedIs ==
  ASSUME NEW n \in 0..(2 ^ Width - 1)
  PROVE  Decremented(n) = IF n = 0 THEN 2 ^ Width - 1 ELSE n - 1
<1> DEFINE b == 2 ^ Width
<1>1. b \in Nat /\ b > 0
  BY Modulus
<1>2. n \in 0..(b - 1)
  OBVIOUS
<1> HIDE DEF b
<1>3. (n - 1) % b = IF n = 0 THEN b - 1 ELSE n - 1
  BY <1>1, <1>2
<1>4. QED
  BY <1>3 DEF b, Decremented

\* A limit of a command line fits the width.
LEMMA LimitType ==
  ASSUME NEW a \in Commands
  PROVE  a.limit \in Nat /\ a.limit < 2 ^ Width
<1>1. a.limit \in 0..(2 ^ Width - 1)
  BY CommandsAssumption DEF Command
<1>2. QED
  BY <1>1, Modulus

\* One more entry: the decremented counter is the one after j + 1 entries, and
\* it is 0 early just when the limit is reached.  The wrapped counter of a limit
\* of 0 comes to 0 as well, but not before the first entry of the file, for no
\* file has more than 2^Width entries.
LEMMA CounterStep ==
  ASSUME NEW a \in Commands, NEW S, NEW w \in Seq(S), Len(w) <= MaxKeys,
         NEW j \in Nat, j <= Count(a, w), CursorAfter(a, w, j) > 0
  PROVE  /\ j + 1 <= Count(a, w) /\ CursorAfter(a, w, j) = Len(w) - j
         /\ Decremented(CounterAfter(a, j)) = CounterAfter(a, j + 1)
         /\ CounterAfter(a, j + 1) \in 0..(2 ^ Width - 1)
         /\ CursorAfter(a, w, j + 1) =
              IF CounterAfter(a, j + 1) = 0 THEN 0 ELSE Len(w) - j - 1
<1> DEFINE b == 2 ^ Width
<1>1. b \in Nat /\ b > 0 /\ MaxKeys \in Nat /\ MaxKeys <= b
  BY Modulus
<1>2. a.limit \in Nat /\ a.limit < b
  BY LimitType
<1>3. Len(w) \in Nat /\ Len(w) <= b
  BY <1>1, LenProperties
<1>4. \A n \in 0..(b - 1) : Decremented(n) = IF n = 0 THEN b - 1 ELSE n - 1
  BY DecrementedIs
<1>5. CounterAfter(a, j) = IF a.limit > 0 THEN a.limit - j ELSE IF j = 0 THEN 0 ELSE b - j
  BY DEF CounterAfter
<1>6. CounterAfter(a, j + 1) = IF a.limit > 0 THEN a.limit - (j + 1) ELSE b - (j + 1)
  BY DEF CounterAfter
<1> HIDE DEF b
<1>7. CASE a.limit > 0
  <2>1. j # a.limit /\ j < a.limit /\ j < Len(w)
    BY <1>2, <1>3, <1>7 DEF Count, CursorAfter
  <2>2. CounterAfter(a, j) \in 0..(b - 1) /\ CounterAfter(a, j) > 0
    BY <1>1, <1>2, <1>5, <1>7, <2>1
  <2>3. Decremented(CounterAfter(a, j)) = CounterAfter(a, j) - 1
    BY <1>1, <1>4, <2>2
  <2>4. QED
    BY <1>1, <1>2, <1>3, <1>5, <1>6, <1>7, <2>1, <2>2, <2>3 DEF Count, CursorAfter, b
<1>8. CASE a.limit = 0
  <2>1. j < Len(w) /\ j < b
    BY <1>1, <1>2, <1>3, <1>8 DEF Count, CursorAfter
  <2>2. CounterAfter(a, j) \in 0..(b - 1) /\ (CounterAfter(a, j) = 0 <=> j = 0)
    BY <1>1, <1>5, <1>8, <2>1
  <2>3. Decremented(CounterAfter(a, j)) =
          IF j = 0 THEN b - 1 ELSE CounterAfter(a, j) - 1
    BY <1>1, <1>4, <2>2
  <2>4. Decremented(CounterAfter(a, j)) = CounterAfter(a, j + 1)
    BY <1>1, <1>5, <1>6, <1>8, <2>1, <2>3
  <2>5. CounterAfter(a, j + 1) \in 0..(b - 1)
    BY <1>1, <1>6, <1>8, <2>1
  <2>6. CounterAfter(a, j + 1) = 0 => j + 1 = Len(w)
    BY <1>1, <1>3, <1>6, <1>8, <2>1
  <2>7. QED
    BY <1>3, <1>8, <2>1, <2>4, <2>5, <2>6 DEF Count, CursorAfter, b
<1>9. QED
  BY <1>2, <1>7, <1>8

\* The cursor is past the first entry only when all that is wanted is written.
LEMMA CursorAtEnd ==
  ASSUME NEW a \in Commands, NEW S, NEW w \in Seq(S),
         NEW j \in Nat, j <= Count(a, w), CursorAfter(a, w, j) = 0
  PROVE  j = Count(a, w)
<1>1. a.limit \in Nat /\ Len(w) \in Nat
  BY LimitType, LenProperties
<1>2. CASE a.limit > 0 /\ j = a.limit
  BY <1>1, <1>2 DEF Count
<1>3. CASE ~(a.limit > 0 /\ j = a.limit)
  BY <1>1, <1>3 DEF Count, CursorAfter
<1>4. QED
  BY <1>2, <1>3

-----------------------------------------------------------------------------
(* Every action keeps the invariant.                                       *)

\* No tool is the server, and none is nobody.
LEMMA Names ==
  /\ None # "server"
  /\ \A c \in Tool : c # "server" /\ c # None
  BY NoneAssumption

\* The invariant holds before anything has run.
LEMMA InitDInv == Init => DInv
<1> SUFFICES ASSUME Init
             PROVE  DInv
  OBVIOUS
<1>1. keys \in Seq(Entry) /\ Len(keys) <= MaxKeys
  <2>1. PICK n \in 0..MaxKeys : keys \in [1..n -> Entry]
    BY DEF Init, Entry
  <2>2. n \in Nat /\ n <= MaxKeys /\ DOMAIN keys = 1..n
    BY <2>1, Modulus
  <2>3. QED
    BY <2>1, <2>2
<1>2. \A c \in Tool : ask[c] \in Commands /\ ask[c].limit \in 0..(2 ^ Width - 1)
  <2>1. \A c \in Tool : ask[c] \in Commands
    BY DEF Init
  <2>2. \A b \in Nat : \A x \in Nat : x < b => x \in 0..(b - 1)
    OBVIOUS
  <2>3. QED
    BY <2>1, <2>2, LimitType, Modulus
<1>3. TypeOK
  <2>1. <<>> \in Seq(Entry)
    BY EmptySeq
  <2>2. left \in [Tool -> 0..(2 ^ Width - 1)]
    BY <1>2 DEF Init
  <2>3. out \in [Tool -> Seq(Entry)] /\ saw \in [Tool -> Seq(Entry)]
    BY <2>1 DEF Init
  <2>4. at \in [Tool -> 0..MaxKeys]
    BY Modulus DEF Init
  <2>5. starts \in 0..MaxStarts
    BY StartsAssumption DEF Init
  <2>6. QED
    BY <1>1, <2>2, <2>3, <2>4, <2>5 DEF Init, TypeOK, Entry
<1>4. LockInv /\ VersionInv
  BY Names DEF Init, LockInv, VersionInv
<1>5. ProgressInv
  <2>1. SUFFICES ASSUME NEW c \in Tool
                 PROVE  Progress(ask[c], st[c], left[c], at[c], out[c], saw[c])
    BY DEF ProgressInv
  <2>2. /\ st[c] = "start" /\ left[c] = ask[c].limit /\ out[c] = <<>> /\ saw[c] = <<>>
        /\ Len(<<>>) = 0
    BY DEF Init
  <2>3. 0 <= Count(ask[c], <<>>) /\ 0 <= MaxKeys
    BY <1>2, <2>2, LimitType, Modulus DEF Count
  <2>4. QED
    BY <2>2, <2>3 DEF Progress
<1>6. QED
  BY <1>3, <1>4, <1>5 DEF DInv

\* A starting server keeps the invariant.
LEMMA ServerStartDInv == DInv /\ ServerStart => DInv'
<1> SUFFICES ASSUME DInv, ServerStart
             PROVE  DInv'
  OBVIOUS
<1>1. TypeOK'
  BY StartsAssumption DEF DInv, TypeOK, ServerStart, lock, tool
<1>2. LockInv' /\ VersionInv' /\ ProgressInv'
  BY DEF DInv, LockInv, VersionInv, ProgressInv, ReadOnly, ServerStart, lock, tool
<1>3. QED
  BY <1>1, <1>2 DEF DInv

\* A server that gets the lock keeps the invariant: it is alone.
LEMMA ServerLockDInv == DInv /\ ServerLock => DInv'
<1> SUFFICES ASSUME DInv, ServerLock
             PROVE  DInv'
  OBVIOUS
<1>1. TypeOK'
  BY DEF DInv, TypeOK, ServerLock, file, tool
<1>2. LockInv'
  BY Names DEF DInv, LockInv, ReadOnly, ServerLock, file, tool
<1>3. VersionInv' /\ ProgressInv'
  BY DEF DInv, VersionInv, ProgressInv, ServerLock, file, tool
<1>4. QED
  BY <1>1, <1>2, <1>3 DEF DInv

\* A write keeps the invariant: whoever writes holds the lock exclusively, and
\* so nobody reads.
LEMMA ServerWriteDInv == ASSUME NEW entry \in Entry PROVE DInv /\ ServerWrite(entry) => DInv'
<1> SUFFICES ASSUME DInv, ServerWrite(entry)
             PROVE  DInv'
  OBVIOUS
<1>1. keys' = Append(keys, entry) /\ Len(keys) < MaxKeys /\ keys \in Seq(Entry)
  BY DEF DInv, TypeOK, ServerWrite, Entry
<1>2. keys' \in Seq(Entry) /\ Len(keys') <= MaxKeys
  BY <1>1, AppendProperties, LenProperties, Modulus
<1>3. TypeOK'
  BY <1>2 DEF DInv, TypeOK, ServerWrite, lock, etcd, tool, Entry
<1>4. \A c \in Tool : st[c] # "reading"
  BY Names DEF DInv, LockInv, ServerWrite
<1>5. LockInv' /\ VersionInv' /\ ProgressInv'
  BY <1>4 DEF DInv, LockInv, VersionInv, ProgressInv, ReadOnly, ServerWrite, lock, etcd, tool
<1>6. QED
  BY <1>3, <1>5 DEF DInv

\* A server that stops keeps the invariant.
LEMMA ServerStopDInv == DInv /\ ServerStop => DInv'
<1> SUFFICES ASSUME DInv, ServerStop
             PROVE  DInv'
  OBVIOUS
<1>1. TypeOK'
  BY DEF DInv, TypeOK, ServerStop, file, tool
<1>2. LockInv'
  BY Names DEF DInv, LockInv, ReadOnly, ServerStop, file, tool
<1>3. VersionInv' /\ ProgressInv'
  BY DEF DInv, VersionInv, ProgressInv, ServerStop, file, tool
<1>4. QED
  BY <1>1, <1>2, <1>3 DEF DInv

\* A tool that moves on without the lock, before or in vain, keeps the
\* invariant: the check of the path, and ErrTimeout.
LEMMA NoLockDInv ==
  ASSUME NEW c \in Tool, DInv,
         \/ st[c] = "start" /\ st' \in {[st EXCEPT ![c] = "opening"], [st EXCEPT ![c] = "failed"]}
         \/ st[c] = "opening" /\ st' = [st EXCEPT ![c] = "failed"],
         UNCHANGED <<file, lock, etcd, ask, left, at, out, saw>>
  PROVE  DInv'
<1>1. /\ keys' = keys /\ exists' = exists /\ exclusive' = exclusive /\ shared' = shared
      /\ server' = server /\ starts' = starts /\ ask' = ask /\ left' = left /\ at' = at
      /\ out' = out /\ saw' = saw
  BY DEF file, lock, etcd
<1>2. PICK s \in {"opening", "failed"} :
        /\ st' = [st EXCEPT ![c] = s]
        /\ s = "opening" => st[c] = "start"
        /\ st[c] \in {"start", "opening"}
  OBVIOUS
<1>3. TypeOK'
  BY <1>1, <1>2 DEF DInv, TypeOK
<1>4. st'[c] = s /\ \A d \in Tool : d # c => st'[d] = st[d]
  BY <1>2 DEF DInv, TypeOK
<1>5. LockInv'
  BY <1>1, <1>2, <1>4 DEF DInv, LockInv, ReadOnly
<1>6. VersionInv'
  BY <1>1, <1>2, <1>4 DEF DInv, VersionInv
<1>7. ProgressInv'
  <2>1. SUFFICES ASSUME NEW d \in Tool
                 PROVE  Progress(ask[d], st'[d], left[d], at[d], out[d], saw[d])
    BY <1>1 DEF ProgressInv
  <2>2. Progress(ask[d], st[d], left[d], at[d], out[d], saw[d])
    BY DEF DInv, ProgressInv
  <2>3. CASE d = c
    BY <1>2, <1>4, <2>2, <2>3 DEF Progress
  <2>4. CASE d # c
    BY <1>4, <2>2, <2>4
  <2>5. QED
    BY <2>3, <2>4
<1>8. QED
  BY <1>3, <1>5, <1>6, <1>7 DEF DInv

\* bolt.Open keeps the invariant: whoever gets the lock shares it with readers
\* only, and sees the file as it is.
LEMMA OpenDInv == ASSUME NEW c \in Tool PROVE DInv /\ Open(c) => DInv'
<1> SUFFICES ASSUME DInv, Open(c)
             PROVE  DInv'
  OBVIOUS
<1>1. /\ keys' = keys /\ exists' = exists /\ server' = server /\ starts' = starts
      /\ ask' = ask /\ left' = left /\ out' = out
      /\ st' = [st EXCEPT ![c] = "reading"] /\ at' = [at EXCEPT ![c] = Len(keys)]
      /\ saw' = [saw EXCEPT ![c] = keys]
      /\ st[c] = "opening" /\ exclusive = None
  BY DEF Open, LockFree, file, etcd
<1>2. keys \in Seq(Entry) /\ Len(keys) \in 0..MaxKeys
  <2>1. keys \in Seq(Entry) /\ Len(keys) <= MaxKeys
    BY DEF DInv, TypeOK, Entry
  <2>2. QED
    BY <2>1, LenProperties, Modulus
<1>3. TypeOK'
  BY <1>1, <1>2 DEF DInv, TypeOK, Open, Entry
<1>4. /\ st'[c] = "reading" /\ at'[c] = Len(keys) /\ saw'[c] = keys
      /\ \A d \in Tool : d # c => st'[d] = st[d] /\ at'[d] = at[d] /\ saw'[d] = saw[d]
  BY <1>1 DEF DInv, TypeOK
<1>5. LockInv'
  <2>1. CASE ReadOnly(c)
    <3>1. exclusive' = None /\ shared' = shared \cup {c}
      BY <1>1, <2>1 DEF Open
    <3>2. server # "up"
      BY <1>1, Names DEF DInv, LockInv
    <3>3. QED
      BY <1>1, <1>4, <2>1, <3>1, <3>2, Names DEF DInv, LockInv, ReadOnly
  <2>2. CASE ~ReadOnly(c)
    <3>1. exclusive' = c /\ shared = {} /\ shared' = {}
      BY <1>1, <2>2 DEF Open, LockFree
    <3>2. server # "up" /\ \A d \in Tool : st[d] # "reading"
      BY <1>1, <3>1, Names DEF DInv, LockInv
    <3>3. QED
      BY <1>1, <1>4, <2>2, <3>1, <3>2, Names DEF LockInv, ReadOnly
  <2>3. QED
    BY <2>1, <2>2
<1>6. VersionInv'
  BY <1>1, <1>4 DEF DInv, VersionInv
<1>7. ProgressInv'
  <2>1. SUFFICES ASSUME NEW d \in Tool
                 PROVE  Progress(ask[d], st'[d], left[d], at'[d], out[d], saw'[d])
    BY <1>1 DEF ProgressInv
  <2>2. Progress(ask[d], st[d], left[d], at[d], out[d], saw[d]) /\ ask[d] \in Commands
    BY DEF DInv, TypeOK, ProgressInv
  <2>3. CASE d = c
    <3>1. out[c] = <<>> /\ Len(out[c]) = 0 /\ left[c] = ask[c].limit
      BY <1>1, <2>2, <2>3, EmptySeq DEF Progress
    <3>2. ask[c].limit \in Nat
      BY <2>2, <2>3, LimitType
    <3>3. /\ 0 <= Count(ask[c], keys)
          /\ left[c] = CounterAfter(ask[c], 0)
          /\ Len(keys) = CursorAfter(ask[c], keys, 0)
      BY <1>2, <3>1, <3>2, Modulus DEF Count, CounterAfter, CursorAfter
    <3>4. QED
      BY <1>2, <1>4, <2>3, <3>1, <3>3, Modulus DEF Progress
  <2>4. CASE d # c
    BY <1>4, <2>2, <2>4
  <2>5. QED
    BY <2>3, <2>4
<1>8. QED
  BY <1>3, <1>5, <1>6, <1>7 DEF DInv

\* A tool that ends, however, keeps the invariant: it gives back what it held
\* and nothing else.  If it is an iteration that ends well, all that was wanted
\* has been written.
LEMMA EndsDInv ==
  ASSUME NEW c \in Tool, NEW outcome \in {"done", "failed", "panic", "killed"},
         DInv, Ends(c, outcome),
         outcome = "done" /\ ask[c].cmd = "iterate-bucket" =>
           Len(out[c]) = Count(ask[c], saw[c])
  PROVE  DInv'
<1>1. /\ keys' = keys /\ exists' = exists /\ server' = server /\ starts' = starts
      /\ ask' = ask /\ left' = left /\ at' = at /\ out' = out /\ saw' = saw
      /\ st' = [st EXCEPT ![c] = outcome]
      /\ exclusive' = IF exclusive = c THEN None ELSE exclusive
      /\ shared' = shared \ {c}
  BY DEF Ends, Release, file, etcd
<1>2. st'[c] = outcome /\ outcome # "reading" /\ \A d \in Tool : d # c => st'[d] = st[d]
  BY <1>1 DEF DInv, TypeOK
<1>3. TypeOK'
  BY <1>1 DEF DInv, TypeOK
<1>4. LockInv'
  BY <1>1, <1>2, Names DEF DInv, LockInv, ReadOnly
<1>5. VersionInv'
  BY <1>1, <1>2 DEF DInv, VersionInv
<1>6. ProgressInv'
  <2>1. SUFFICES ASSUME NEW d \in Tool
                 PROVE  Progress(ask[d], st'[d], left[d], at[d], out[d], saw[d])
    BY <1>1 DEF ProgressInv
  <2>2. Progress(ask[d], st[d], left[d], at[d], out[d], saw[d])
    BY DEF DInv, ProgressInv
  <2>3. CASE d = c
    BY <1>2, <2>2, <2>3 DEF Progress
  <2>4. CASE d # c
    BY <1>2, <2>2, <2>4
  <2>5. QED
    BY <2>3, <2>4
<1>7. QED
  BY <1>3, <1>4, <1>5, <1>6 DEF DInv

\* The end of the iteration keeps the invariant: the cursor is past the first
\* entry only when all that is wanted has been written.
LEMMA IterationEndsDInv == ASSUME NEW c \in Tool PROVE DInv /\ IterationEnds(c) => DInv'
<1> SUFFICES ASSUME DInv, IterationEnds(c)
             PROVE  DInv'
  OBVIOUS
<1>1. CASE ask[c].bucket
  <2>1. st[c] = "reading" /\ ask[c].cmd = "iterate-bucket" /\ at[c] = 0
    BY <1>1 DEF IterationEnds
  <2>2. /\ Len(out[c]) <= Count(ask[c], saw[c])
        /\ at[c] = CursorAfter(ask[c], saw[c], Len(out[c]))
    BY <2>1 DEF DInv, ProgressInv, Progress
  <2>3. ask[c] \in Commands /\ saw[c] \in Seq(Entry) /\ Len(out[c]) \in Nat
    <3>1. ask[c] \in Commands /\ out[c] \in Seq(Entry) /\ saw[c] \in Seq(Entry)
      BY DEF DInv, TypeOK, Entry
    <3>2. QED
      BY <3>1, LenProperties
  <2>4. Len(out[c]) = Count(ask[c], saw[c])
    BY <2>1, <2>2, <2>3, CursorAtEnd
  <2>5. Ends(c, "done")
    BY <1>1 DEF IterationEnds
  <2>6. QED
    BY <2>4, <2>5, EndsDInv
<1>2. CASE ~ask[c].bucket
  <2>1. Ends(c, "failed")
    BY <1>2 DEF IterationEnds
  <2>2. QED
    BY <2>1, EndsDInv
<1>3. QED
  BY <1>1, <1>2

\* One iteration of the loop keeps the invariant.
LEMMA EmitDInv == ASSUME NEW c \in Tool PROVE DInv /\ Emit(c) => DInv'
<1> SUFFICES ASSUME DInv, Emit(c)
             PROVE  DInv'
  OBVIOUS
<1> DEFINE a == ask[c]
           w == saw[c]
           j == Len(out[c])
<1>1. /\ keys' = keys /\ exists' = exists /\ server' = server /\ starts' = starts
      /\ exclusive' = exclusive /\ shared' = shared
      /\ ask' = ask /\ st' = st /\ saw' = saw
      /\ st[c] = "reading" /\ a.cmd = "iterate-bucket" /\ at[c] > 0
      /\ out' = [out EXCEPT ![c] = Append(out[c], keys[at[c]])]
      /\ left' = [left EXCEPT ![c] = Decremented(left[c])]
      /\ at' = [at EXCEPT ![c] = IF LimitReached(c) THEN 0 ELSE at[c] - 1]
  BY DEF Emit, file, lock, etcd
<1>2. a \in Commands /\ out[c] \in Seq(Entry) /\ w \in Seq(Entry) /\ at[c] \in 0..MaxKeys
  BY DEF DInv, TypeOK, Entry
<1>3. Progress(a, st[c], left[c], at[c], out[c], w) /\ keys = w
  BY <1>1 DEF DInv, ProgressInv, VersionInv
<1>4. /\ Len(w) <= MaxKeys /\ j <= Count(a, w)
      /\ left[c] = CounterAfter(a, j) /\ at[c] = CursorAfter(a, w, j)
      /\ \A k \in 1..j : out[c][k] = w[Len(w) + 1 - k]
  BY <1>1, <1>3 DEF Progress
<1>5. j \in Nat /\ Len(w) \in Nat
  BY <1>2, LenProperties
<1>6. /\ j + 1 <= Count(a, w) /\ at[c] = Len(w) - j
      /\ Decremented(left[c]) = CounterAfter(a, j + 1)
      /\ CounterAfter(a, j + 1) \in 0..(2 ^ Width - 1)
      /\ CursorAfter(a, w, j + 1) =
           IF CounterAfter(a, j + 1) = 0 THEN 0 ELSE Len(w) - j - 1
  BY <1>1, <1>2, <1>4, <1>5, CounterStep
<1>7. at'[c] = CursorAfter(a, w, j + 1) /\ at'[c] \in 0..MaxKeys
  <2>1. at'[c] = IF LimitReached(c) THEN 0 ELSE at[c] - 1
    BY <1>1 DEF DInv, TypeOK
  <2>2. LimitReached(c) <=> CounterAfter(a, j + 1) = 0
    BY <1>6 DEF LimitReached
  <2>3. at'[c] = CursorAfter(a, w, j + 1)
    BY <1>6, <2>1, <2>2
  <2>4. at[c] - 1 \in 0..MaxKeys /\ 0 \in 0..MaxKeys
    BY <1>1, <1>2, Modulus
  <2>5. QED
    BY <2>1, <2>3, <2>4
<1>8. left'[c] = CounterAfter(a, j + 1) /\ left'[c] \in 0..(2 ^ Width - 1)
  BY <1>1, <1>6 DEF DInv, TypeOK
<1>9. keys[at[c]] \in Entry /\ keys[at[c]] = w[Len(w) + 1 - (j + 1)]
  <2>1. at[c] \in Nat /\ at[c] > 0 /\ at[c] = Len(w) - j
    <3>1. at[c] \in Nat
      BY <1>2, Modulus
    <3>2. QED
      BY <1>1, <1>6, <3>1
  <2>2. \A x, n, m \in Nat : x > 0 /\ x = n - m => x \in 1..n /\ x = n + 1 - (m + 1)
    OBVIOUS
  <2>3. QED
    BY <1>2, <1>3, <1>5, <2>1, <2>2, ElementOfSeq
<1>10. /\ out'[c] \in Seq(Entry) /\ Len(out'[c]) = j + 1
       /\ \A k \in 1..j : out'[c][k] = out[c][k]
       /\ out'[c][j + 1] = keys[at[c]]
  <2>1. out'[c] = Append(out[c], keys[at[c]])
    BY <1>1 DEF DInv, TypeOK
  <2>2. QED
    BY <1>2, <1>9, <2>1, AppendProperties
<1>11. \A d \in Tool : d # c => left'[d] = left[d] /\ at'[d] = at[d] /\ out'[d] = out[d]
  BY <1>1 DEF DInv, TypeOK
<1>12. TypeOK'
  <2>1. left' \in [Tool -> 0..(2 ^ Width - 1)]
    BY <1>1, <1>8 DEF DInv, TypeOK
  <2>2. at' \in [Tool -> 0..MaxKeys]
    BY <1>1, <1>7 DEF DInv, TypeOK
  <2>3. out' \in [Tool -> Seq(Entry)]
    BY <1>1, <1>10 DEF DInv, TypeOK, Entry
  <2>4. QED
    BY <1>1, <2>1, <2>2, <2>3 DEF DInv, TypeOK, Entry
<1>13. LockInv' /\ VersionInv'
  BY <1>1 DEF DInv, LockInv, VersionInv, ReadOnly
<1>14. Progress(a, st[c], left'[c], at'[c], out'[c], w)
  <2>1. \A k \in 1..(j + 1) : out'[c][k] = w[Len(w) + 1 - k]
    <3>1. \A k \in 1..(j + 1) : k \in 1..j \/ k = j + 1
      BY <1>5
    <3>2. QED
      BY <1>4, <1>9, <1>10, <3>1
  <2>2. QED
    BY <1>1, <1>4, <1>6, <1>7, <1>8, <1>10, <2>1 DEF Progress
<1>15. ProgressInv'
  BY <1>1, <1>11, <1>14 DEF DInv, ProgressInv
<1>16. QED
  BY <1>12, <1>13, <1>15 DEF DInv

\* The invariant is inductive.
LEMMA NextDInv == DInv /\ [Next]_vars => DInv'
<1> SUFFICES ASSUME DInv, [Next]_vars
             PROVE  DInv'
  OBVIOUS
<1>1. CASE ServerStart
  BY <1>1, ServerStartDInv
<1>2. CASE ServerLock
  BY <1>2, ServerLockDInv
<1>3. CASE ServerStop
  BY <1>3, ServerStopDInv
<1>4. CASE \E entry \in {"good", "bad"} : ServerWrite(entry)
  BY <1>4, ServerWriteDInv DEF Entry
<1>5. ASSUME NEW c \in Tool, ToolStep(c) \/ Kill(c)
      PROVE  DInv'
  <2>1. CASE Verify(c)
    <3>1. /\ st[c] = "start"
          /\ st' \in {[st EXCEPT ![c] = "opening"], [st EXCEPT ![c] = "failed"]}
          /\ UNCHANGED <<file, lock, etcd, ask, left, at, out, saw>>
      BY <2>1 DEF Verify
    <3>2. QED
      BY <3>1, NoLockDInv
  <2>2. CASE Open(c)
    BY <2>2, OpenDInv
  <2>3. CASE GiveUp(c)
    <3>1. /\ st[c] = "opening" /\ st' = [st EXCEPT ![c] = "failed"]
          /\ UNCHANGED <<file, lock, etcd, ask, left, at, out, saw>>
      BY <2>3 DEF GiveUp
    <3>2. QED
      BY <3>1, NoLockDInv
  <2>4. CASE getBuckets(c)
    BY <2>4, EndsDInv DEF getBuckets
  <2>5. CASE getHash(c)
    BY <2>5, EndsDInv DEF getHash
  <2>6. CASE getConsistentIndex(c)
    BY <2>6, EndsDInv DEF getConsistentIndex
  <2>7. CASE Emit(c)
    BY <2>7, EmitDInv
  <2>8. CASE DecoderPanics(c)
    BY <2>8, EndsDInv DEF DecoderPanics
  <2>9. CASE IterationEnds(c)
    BY <2>9, IterationEndsDInv
  <2>10. CASE Kill(c)
    BY <2>10, EndsDInv DEF Kill
  <2>11. QED
    BY <1>5, <2>1, <2>2, <2>3, <2>4, <2>5, <2>6, <2>7, <2>8, <2>9, <2>10 DEF ToolStep
<1>6. CASE UNCHANGED vars
  BY <1>6 DEF DInv, TypeOK, LockInv, VersionInv, ProgressInv, ReadOnly, vars, file, lock, etcd, tool
<1>7. QED
  BY <1>1, <1>2, <1>3, <1>4, <1>5, <1>6 DEF Next

\* It holds in every reachable state.
THEOREM DInvariant == Spec => []DInv
<1>1. Init => DInv
  BY InitDInv
<1>2. DInv /\ [Next]_vars => DInv'
  BY NextDInv
<1>3. QED
  BY <1>1, <1>2, PTL DEF Spec

-----------------------------------------------------------------------------
(* What follows from it.                                                   *)

\* Output that agrees with the wanted one up to its length is a beginning of it.
LEMMA BeginningOfWanted ==
  ASSUME DInv, NEW c \in Tool
  PROVE  /\ out[c] = SubSeq(Wanted(c), 1, Len(out[c]))
         /\ Len(out[c]) <= Len(Wanted(c))
         /\ Len(out[c]) = Count(ask[c], saw[c]) => out[c] = Wanted(c)
<1> DEFINE n == Len(saw[c])
           m == Count(ask[c], saw[c])
           j == Len(out[c])
<1>1. /\ ask[c] \in Commands /\ saw[c] \in Seq(Entry) /\ out[c] \in Seq(Entry)
      /\ n \in Nat /\ j \in Nat
  <2>1. ask[c] \in Commands /\ saw[c] \in Seq(Entry) /\ out[c] \in Seq(Entry)
    BY DEF DInv, TypeOK, Entry
  <2>2. QED
    BY <2>1, LenProperties
<1>2. /\ j <= m
      /\ \A k \in 1..j : out[c][k] = saw[c][n + 1 - k]
  BY DEF DInv, ProgressInv, Progress
<1>3. m \in Nat /\ m <= n
  BY <1>1, LimitType DEF Count
<1>4. Wanted(c) = [k \in 1..m |-> saw[c][n + 1 - k]]
  BY DEF Wanted, Count
<1> HIDE DEF m
<1>5. \A k \in 1..m : Wanted(c)[k] = saw[c][n + 1 - k] /\ saw[c][n + 1 - k] \in Entry
  <2>1. ASSUME NEW k \in 1..m
        PROVE  saw[c][n + 1 - k] \in Entry
    <3>1. n + 1 - k \in 1..n
      BY <1>1, <1>3
    <3>2. QED
      BY <1>1, <3>1, ElementOfSeq
  <2>2. QED
    BY <1>4, <2>1
<1>6. Wanted(c) \in Seq(Entry) /\ Len(Wanted(c)) = m
  BY <1>3, <1>4, <1>5
<1>7. /\ SubSeq(Wanted(c), 1, j) \in Seq(Entry) /\ Len(SubSeq(Wanted(c), 1, j)) = j
      /\ \A k \in 1..j : SubSeq(Wanted(c), 1, j)[k] = Wanted(c)[k]
  <2>1. \A k \in 1..j : k \in 1..m /\ Wanted(c)[k] \in Entry
    BY <1>1, <1>2, <1>3, <1>5
  <2>2. /\ SubSeq(Wanted(c), 1, j) \in Seq(Entry)
        /\ Len(SubSeq(Wanted(c), 1, j)) = IF 1 <= j THEN j - 1 + 1 ELSE 0
        /\ \A k \in 1..(j - 1 + 1) : SubSeq(Wanted(c), 1, j)[k] = Wanted(c)[1 + k - 1]
    BY <1>1, <2>1, SubSeqProperties
  <2>3. QED
    BY <1>1, <2>2
<1>8. \A k \in 1..j : k \in 1..m /\ out[c][k] = SubSeq(Wanted(c), 1, j)[k]
  BY <1>1, <1>2, <1>3, <1>5, <1>7
<1>9. out[c] = SubSeq(Wanted(c), 1, j)
  BY <1>1, <1>7, <1>8, SeqEqual
<1>10. j = m => out[c] = Wanted(c)
  BY <1>6, <1>9, SubSeqFull
<1>11. QED
  BY <1>2, <1>6, <1>9, <1>10 DEF m

\* The tools' and the server's variables keep their types; the counter limit
\* stays within its width.
THEOREM TypeCorrect == Spec => []TypeOK
<1>1. DInv => TypeOK
  BY DEF DInv
<1>2. QED
  BY <1>1, DInvariant, PTL

\* Whatever a tool reads is one version of the file, and no server runs.
THEOREM OneVersion == Spec => []ReadsOneVersion
<1>1. DInv => ReadsOneVersion
  BY Names DEF DInv, LockInv, VersionInv, ReadsOneVersion
<1>2. QED
  BY <1>1, DInvariant, PTL

\* iterate-bucket writes the last entries down from the end, as many as were
\* asked for, for every width of its counter and every number of entries.
THEOREM IterationIsRight == Spec => []IteratesWanted
<1>1. DInv => IteratesWanted
  <2>1. ASSUME DInv, NEW c \in Tool, st[c] = "done", ask[c].cmd = "iterate-bucket"
        PROVE  Len(out[c]) = Count(ask[c], saw[c])
    BY <2>1 DEF DInv, ProgressInv, Progress
  <2>2. QED
    BY <2>1, BeginningOfWanted DEF IteratesWanted
<1>2. QED
  BY <1>1, DInvariant, PTL

=============================================================================
