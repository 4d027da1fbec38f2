# A TLA+ model of etcd-diagnosis

`etcd-diagnosis` is a command line tool with two halves. `report` connects to a
running etcd cluster, runs five checks (plugins) one after the other and writes
what they found to one JSON file. The other commands are offline: they read the
db file or the write-ahead log of one member, possibly while etcd itself runs on
the same directory.

Neither half has threads of its own. What makes it hard is everything around
it: the cluster changes between two calls of one check, calls fail or never
return, checks are retried and must forget what the abandoned pass found, and
the files belong to another process that writes, crashes and restarts.

## Inventory

Paths are relative to `src/commands/`.

| component | state | operations | what can go wrong | correct means |
|---|---|---|---|---|
| endpoint-status plugin, `report/plugins/epstatus` | endpoint list, replies and summary of this pass, `shouldRetry`, `retries`, `err` | one status call per endpoint, compare with the first, retry up to 3 passes, database size, deferred failure | replies of different moments are compared; leftovers of an earlier pass; one failed call | the verdict is that of one complete pass; success is earned; no definitive finding is lost; no false alarm |
| membership plugin, `report/plugins/membership` | member lists, inconsistency flag, `err` | one member list per endpoint, compare with the first | members apply a change late; a call fails | success is exactly unanimity, and not stale; a still cluster is successful |
| read plugins, `report/plugins/read` | errors of this pass, `shouldRetry`, `retries` | a get per endpoint, retry while denied | permission, leader and members come and go | three denials in a row are reported, fewer are not |
| metrics plugin, `report/plugins/metrics` | metric map per endpoint | an HTTP get per endpoint, select families, percentiles | no deadline; NaN; truncated ranks | a percentile lies in the bucket of its rank |
| agent, `report/agent` | none | endpoint resolution (flags, DNS, member list), clients with a timeout | each plugin resolves anew | two plugins examine different endpoints only if the member list has changed in between |
| report command and engine, `report/command_report.go`, `report/engine` | the results so far, the report file | fill in certificates, run plugins, collect, marshal, write | one failing plugin, one unmarshalable result, a crash during the write | a report on disk has one result per plugin; an old report is not touched early; the command ends |
| bucket commands, `command_bucket.go` | bolt db, its lock, cursor, remaining limit | list, iterate in reverse with a limit, decode | a writing server; wrap-around; a panicking decoder | one version of the file is read; what is written is what the limit asks for |
| hash, consistent-index, `command_hash.go`, `command_consistent_index.go` | bolt db, its lock | open, read | a lock that is never given back | as above |
| commit-index, `command_commit_index.go` | db, WAL, snap files | newest snapshot, read WAL, largest of commit and consistent index | a crash of etcd between two writes; a truncated WAL | the index a recovering etcd would have |
| log, `command_log.go` | WAL, snap files | start index to snapshot, filters, raw mode | missing snapshot, truncated WAL, filter combinations | every entry in the range that a filter wants, once and in order |
| command line, `main.go`, `command_root.go`, `command_version.go` | global flags | registration | | |

How they interact: `reportCommandFunc` builds the plugins with a copy of the
flags; `engine.Diagnose` calls them in order. Every plugin calls
`agent.Endpoints` and then, for one endpoint after the other, one function of the
agent, which dials, asks and closes. Nothing is shared between plugins but the
cluster they ask. The offline commands share nothing with each other but the
files, and meet each other and etcd at the db file's lock.

## The modules

| module | models | correspondence |
|---|---|---|
| `EpStatusData` | replies, comparisons, the database rule | operators with the names of the Go functions |
| `EpStatusVerdict` | the abstract specification: one vector of answers, one verdict, in one step | `Judge` is what Diagnose promises to compute |
| `EpStatus` | the loop of `Diagnose` | variables are its locals; `Start`, `Query`, `Retry`, `Finish` are the code up to the next call, iteration or return |
| `EpStatusCluster` | EpStatus composed with an etcd cluster | `Answered` is `Query` with the reply of the member as it is then; the cluster's actions are external |
| `Membership` | the membership plugin and a cluster whose membership changes | one `Query` per iteration, `Finish` with the deferred function, `Panic` for `memberLists[0]` of an empty slice |
| `ReadChecker` | both read plugins and a cluster | as EpStatus; `linearizable` tells which plugin it is |
| `Agent` | endpoint resolution and certificates, as operators | functions of `endpoints.go` and `command_report.go` under their names |
| `Report` | `reportCommandFunc` and `engine.Diagnose`, with plugins as sequences of calls, and the report file | `Resolve`, `Call`/`TimeOut`/`CallFails`, `Return`, `Marshal`, `Truncate`/`Flush` |
| `Metrics` | the metrics plugin and its percentiles | `Query` is one iteration; `percentileFromHistogram` is the function |
| `DbFile` | the commands on the db file beside an etcd server | `Verify`, `Open`, then `getBuckets`, `getHash`, `getConsistentIndex` or `Emit` for each entry; bolt's lock is `exclusive` and `shared` |
| `Wal` | what an etcd member writes to its WAL, snap directory and db, with crashes and restarts, and how the library reads it | external; `ReadAll` and `ErrFileNotFound` are what the commands call; `agreed` and `revived` are ghosts |
| `WalReader` | what commit-index and log share: where the command is, and the snapshot it starts reading from | `Loaded` is `snap.Snapshotter.Load` as both commands use it |
| `CommitIndex` | commit-index, composed with `Wal` | `LoadSnapshot`, `ReadWal` (getCommitIndex), `ReadDb` |
| `EntryFilters` | `--entry-type`: filters, types and the choice between them, as operators | the functions and the table of `command_log.go` under their names |
| `DumpLog` | log, composed with `Wal` and `EntryFilters` | `logCommandFunc` (flags), `LoadStart`, `readUsingReadAll`, `List` (listEntriesType), `readRaw` |
| `EpStatus_proofs` (and its cluster's), `Membership_proofs`, `ReadChecker_proofs`, `Report_proofs`, `Metrics_proofs`, `DbFile_proofs`, `CommitIndex_proofs`, `DumpLog_proofs` | theorems about the module each is named after; they declare and change nothing of it | |
| `MC...` | small instances for TLC | |

Operators whose names begin with `Faulty` are plausible slips in the operator
that follows them. No action uses them; substituted for it, each makes one of the
properties fail, which shows that the property looks at that piece of code.

### What is abstracted

* The three fields `compareHardInfo` compares are one value, the five of
  `compareSoftInfo` another, and the `Errors` list is the Boolean "not empty".
  In `EpStatusCluster` the hard value is a version, the soft value a place in the
  replicated log.
* A summary line is a pair of what was found and the position it is about; its
  words are left out, and the lines of one pass are a set (a pass has at most one
  line per position and kind).
* A member list is the number of membership changes the answering member has
  applied. The list of an endpoint and the cluster ID are compared with it.
* Passing time is not modelled: a timeout may happen whenever a call is
  outstanding, and the second between two passes is a step.
* In `Report` a plugin is its calls and the kind of its result. Kinds a plugin can
  not return are left out, those it can are chosen freely.
* A bucket is a sequence of entries, each decodable or not; what is printed for
  one is the entry.
* A float of the metrics plugin is an integer, a fraction, Inf or NaN. The code's
  floats give the same ranks (p percent of a count, checked for all counts up to
  200000); the rounding of an interpolation is left out. Labels, help texts and
  durations are left out as well.
* In `Wal` the segments are one sequence of records with a "file" record where a
  segment begins; an entry is its index and term, its data a constant of `DumpLog`
  that tells what the filters can tell. A crash loses records that are not synced
  from the end. The cluster around the member is what it has agreed on so far: the
  member's leader may send any entries and snapshots that go with that.
* `Wal` leaves out some things etcd can do: damaged files; a snapshot from the
  leader that is not beyond the end of the log; entries that are applied before
  they are saved; and a segment that gets full while the record of a snapshot that
  was never installed is ahead of the log.

## What the runs check

Each cfg names the type invariant `TypeOK` as well, where the table does not.

| run | instance | properties |
|---|---|---|
| `epstatus` (MCEpStatus) | lists of up to 3 endpoints, 2 hard and 2 soft values, errors or none, 3 database shapes, 3 passes; every reply to every call | `IInv` (the inductive invariant, which has the types), `SuccessIsSound`, `ImplementsVerdict` (refinement), `DefinitiveFindingKept`, `Terminates` |
| `epstatus_cluster` (MCEpStatusCluster) | 3 members, 2 versions, a log of 2 entries, 3 passes, 4 moves of the cluster | `CTypeOK`, `TransientAlarmIsEarned`, `CalmPassIsLast`, `LagIsSeen`, `HardFindingWasMixed` |
| `membership` (MCMembership) | lists of 0 to 3 members, 2 changes | `VerdictIsOfAll`, `SuccessIsFresh`, `StillIsSuccessful` |
| `read` (MCReadChecker) | lists of 0 to 2 members, 3 passes, 3 moves | `UnsuccessfulIsPersistent`, `SuccessfulWasNotDenied` |
| `report` (MCReport) | 2 endpoints of different schemes, 48 command lines, every answer of DNS and cluster, 2 passes, one change of URLs | `ReportIsWhole`, `SameEndpoints`, `EndsOrHangsInMetrics` |
| `metrics` (MCMetrics) | up to 2 endpoints, 163 histograms of up to three buckets, gauges, a counter | `PercentilesAreRight`, `EachHasItsOwn` (no type invariant) |
| `dbfile` (MCDbFile) | 2 tools, 9 command lines, up to 4 entries, limits of 2 bits, one start of the server | `ReadsOneVersion`, `IteratesWanted`, `ServerGetsLock`, `TimeoutIsHonoured` |
| `commit_index` (MCCommitIndex) | the instance of `Wal` in the cfg, with up to 10 records and one restart | `NotAboveAgreed`, `NothingForgotten`, `NeverPartial`, `FailsOnlyOnOrphan` |
| `dump_log` (MCDumpLog) | the same without a restart, 13 command lines | `DumpIsLog`, `NothingIsMissing`, `EveryEntryOnce`, `RawShowsLog`, `FailsForAReason` |

What they show, run by run:

* **epstatus.** Whatever the calls return, the accumulated summary, the two flags
  and the re-initialisations amount to the verdict of *one* complete pass:
  nothing an abandoned pass found is left, nothing the last pass found is
  missing (but see below for the last endpoint). "Successful" implies that any two
  replies agree, although each is compared with the first only.
* **epstatus_cluster.** The members are asked at different moments. All the same,
  lag or an unreachable member is reported only if each of the three passes met a
  cluster that was moving or losing calls; one pass over a settled cluster ends
  the diagnosis. After "Successful", no member that stayed up is behind where any
  other one that stayed up was when the last pass began; of a member that came
  back during the pass nothing is said, on either side, as it may have lost what
  it had. A hard finding between two replies means that at one moment of the
  pass two running members had different versions (`mixed`), or that at one
  moment none ran (`out`): a cluster that is shut down between two calls and
  comes back upgraded is reported although no two running members ever differed.
* **membership.** "Successful" is given exactly if all lists are there and equal,
  whichever member's is missing or differs, and an alarm shows what each answered.
  The exception is part of the statement: if the last call fails, and only
  then, a failure takes the place of the verdict and of the lists. The list a success shows is at least as new as any asked member
  had when the check began.
* **read.** "Unsuccessful" needs a denial in each of three passes.
* **report.** Whatever fails, hangs or changes, and wherever the process is
  killed, a report on disk is whole, and the report of an earlier run is touched
  only when the new one is complete and marshals. Two sections of one report may be
  about different endpoints only with `--cluster`, and only if the member list
  changed after one of the two plugins had resolved its endpoints and before the
  other did (`seen` counts the changes each of them found). The command
  ends, even if no server ever answers, unless it hangs in one place: the metrics
  call.
* **metrics.** Each percentile lies in the bucket that the rank of the percentile is
  in, give or take the one observation that truncation costs, also where buckets
  are empty or the last one has no bound, and a higher percentile is never
  smaller. An endpoint that fails keeps nothing of another one.
* **dbfile.** The lock gives each tool one version of the file, the iteration
  writes exactly what the limit asks for although its counter wraps around, and
  a tool cannot keep a starting server out for ever, however it ends. The two
  commands that honour `--timeout` do not wait for ever; the other two may.
* **commit_index.** On whatever a crash leaves, the index printed is one the
  cluster has committed, and is not below what is applied in the db, nor below what
  the member would restart from. It is never taken from a part of the WAL: the
  tolerated `ErrSliceOutOfRange` does not come up when reading from the newest
  snapshot. It fails only on a member without applied entries, or over a .snap
  file without a record. The ghost `revived` of `Wal` marks one exception to
  the second and the third statement (see "Where code and words disagree"): a
  member that has restarted on stale entries.
* **dump_log.** Overwritten entries stay in the WAL, and a snapshot from the leader
  leaves a gap or cuts the log without saying so. All the same a dump has the
  entries of the log the member had, in order, each in its last version, complete
  up to the end, unless an end was given and there is a gap before it; each is
  listed once. The exceptions are in the properties: entries that a
  snapshot has overtaken (`Overtaken`), and a start beyond the end of the log.

### Why the bounds are enough

Three endpoints are the first, one compared with it, and one after a definitive
finding; two values tell agreement from disagreement. Three passes are the
code's. Four moves let the cluster disturb each of three passes and still settle
or not, and are enough for all three members to stop and one to come back with
another version within one pass. Two membership changes make three lists, so a member can be older, equal
or newer than the first one. In `report`, two passes have a first and a last one;
the real three add no new position. Two-bit limits wrap around within the four
entries a bucket may have, and 3 is below, at and above the number of entries.
In `metrics`, three buckets are a first one, one between, and the unbounded one;
a histogram without the last or with none at all is a reply too.

The `Wal` instance has indexes up to 3, two terms, two segments at a time of which
purging leaves one. That is enough for an entry to be overwritten by one of a later
term, for a snapshot by the member and one by the leader with a gap before it, and
for a start index in a segment that is gone. `MaxRecords` bounds the length of the
WAL: 10 records (with the two every WAL begins with) hold two snapshots, a cut and
an overwritten entry; `dump_log` also holds with 11. `dump_log` has no restart,
because a restarted member takes up again entries that a snapshot had overtaken,
and the log it then has is one that `LastLog` does not describe;
`commit_index` has one.

Symmetry is not used: the runs are small without it. Deadlock is not checked
because every one of these programs ends.

### Fairness

Every process of the tool is one goroutine. `EpStatus` assumes weak fairness of its
next step, because each of its calls carries a context with the command timeout
and so returns. `Report` assumes only what the code guarantees (`FairSpec`: the
process takes its next step, but an answer to a call without a deadline may never
come), and its property says where that lets it hang. In `DbFile` each tool
takes its next step, and a server that waits for the lock tries again; nobody
has to kill a tool or stop a server. The other modules state safety only.

## Where code and words disagree

Each of these runs ends with a counterexample.

| run | property | what the code does |
|---|---|---|
| `read_failure_lost` | `FailedReadIsReported` | a read that fails with anything but "permission denied" counts as successful (`read/plugin.go:97`) |
| `commit_index_orphan` | `StartableIsReadable` | the newest .snap file is taken even if a crash has kept its record from being written to the WAL; etcd starts from such a directory, `commit-index` and `log` fail with ErrSnapshotNotFound (`command_commit_index.go:65`, `command_log.go:122`) |
| `log_start` | `StartIsInclusive` | `--start-index` right after a snapshot fails with ErrSnapshotMismatch, because the term of the snapshot stays 0; at the first entry of the oldest segment it fails with ErrFileNotFound (`command_log.go:118`) |

Seen while modelling, without a run of their own:

* If the first endpoint does not answer, every other one is reported as
  "inconsistent hard endpoint info" with it, and there is no retry
  (`epstatus/plugin.go:91`).
* An error of the *last* endpoint replaces all endpoint-status findings by a
  FailedResult (`epstatus/plugin.go:79` with the deferred function 53-60), and the
  lists of the membership plugin (`membership/plugin.go:66`). `ImplementsVerdict` and
  `VerdictIsOfAll` say that the last one does and no other one; neither forbids it.
* The metrics call has no deadline, whatever `--command-timeout` says
  (`agent/agent.go:97`), and does not look at the HTTP status. `EndsOrHangsInMetrics`
  has this as its only exception.
* `hash` and `consistent-index` accept `--timeout` and ignore it
  (`command_consistent_index.go:42`, `command_hash.go:41`), though the flag's text is
  "time to wait to obtain a file lock on db file" (`command_root.go:31`);
  `TimeoutIsHonoured` leaves them out. `list-bucket`, `iterate-bucket` and `hash` open
  the db file for writing.
* A quota of 0, which is etcd's way to say "the default", makes every database too
  large (`command_report.go:57`, `epstatus/plugin.go:169`).
* `log --raw` ignores `--end-index` (`command_log.go:98`), and `--start-snap` is
  silently ignored together with an explicit `--start-index 0` (`:73`, `:112`).
* A dump that starts beyond the end of the log, or at an entry that a snapshot from
  the leader has overtaken, may show entries that were cut off (`:155`).
* `--discovery-srv` has an effect only together with `--cluster`
  (`endpoints.go:16-22`); `--user` without a password never prompts, and drops the
  user (`config.go:76-80`).
* A result that JSON cannot express (a gauge or a sum that is NaN) loses the whole
  report after a log line that sounds as if only it were skipped
  (`diagnosis.go:35-46`). `Marshal` of `Report` does so; no property forbids it.
* A single member that is listed twice (under two URLs) and upgraded between the
  two calls is reported as "inconsistent hard endpoint info" with itself: the
  smallest case of a cluster that is down in the middle of a pass (`out`).
* A snapshot from the leader overtakes entries and leaves them in the WAL. If a
  segment begins right after that snapshot and the member then crashes, a restart
  that reads from the snapshot takes the stale entries *above* it for the end of
  the log, though the new segment does not have them. Entries appended after
  them are a gap in that segment; once a later snapshot makes it the first one
  to be read, `ErrSliceOutOfRange` is tolerated (`command_commit_index.go:84`) and the
  commit index printed is one of a part of the WAL. `Wal` remembers in `revived` that
  this has happened, and `NeverPartial` and a part of `NothingForgotten` exclude it.
  It takes more records than the run `commit_index` has; the proof met it.
* An unreachable member is summed up as an "inconsistent member list"
  (`membership/plugin.go:66-68`, 84); a member list without client URLs would make
  the plugin panic (`:90`), which needs an answer that etcd's API allows and a
  serving member normally does not give.

## What is proved

`EpStatus_proofs` proves, for every set of endpoints, replies and database
shapes, every family of endpoint lists and every number of retries:

| theorem | statement |
|---|---|
| `TypeCorrect` | `Spec => []TypeOK` |
| `InductiveInvariant` | `Spec => []IInv` |
| `SuccessSound` | `Spec => []SuccessIsSound` |
| `DefinitiveKept` | `Spec => DefinitiveFindingKept` |
| `Implementation` | `Spec => ImplementsVerdict`, the refinement of `EpStatusVerdict` |

`SuccessIsSound` is not inductive: it speaks of the end only. The strengthening
`IInv` says, for every moment of the loop, that the summary is exactly
`PassFindings` of the replies so far, that `shouldRetry` is "nothing definitive
among them" and that `err` is about the last call. The heart of the proof is the
lemma that the findings of i replies are those of i - 1 plus `FindingsOf` the i-th
(the soft comparison depends on everything before it, through `shouldRetry`).
The refinement follows: all steps but the two that give a result stutter, and
there `IInv` makes the result `Judge` of the replies.

About `EpStatusCluster` it proves, for every number of members, of moves and of
retries:

| theorem | statement |
|---|---|
| `ClusterInvariant` | `CSpec => [](IInv /\ ClusterTypes)` |
| `ClusterImplementation` | `CSpec => ImplementsVerdict`: the cluster only takes choices away |
| `ClusterInductive` | `CSpec => []ClusterInv` |
| `CTypeCorrect` | `CSpec => []CTypeOK` |
| `TransientAlarm` | `CSpec => []TransientAlarmIsEarned` |
| `CalmLast` | `CSpec => CalmPassIsLast` |
| `LagSeen` | `CSpec => []LagIsSeen` |
| `HardFindingReal` | `CSpec => []HardFindingWasMixed` |

`ClusterInv` adds to `IInv` that while a pass is calm the cluster is settled and all
replies so far are those of a settled cluster (hence equal and without errors, so
the pass has no findings), and that `disturbed` counts the finished passes.
`LagSeen` adds `LagInv`: the reply of a member that stayed up is between its place
when the pass began and its place now. Since the soft values of a successful pass
are all equal, the first bound for one member and the second for another give the
property. `HardFindingReal` adds `MixedInv`: as long as in this pass no two running
members have had different versions and somebody always ran, those that run have
one version, and every reply of the pass has it.

`Membership_proofs`, for every number of members, changes and endpoint lists:

| theorem | statement |
|---|---|
| `MInvariant`, `TypeCorrect` | `Spec => []MInv`, `Spec => []TypeOK` |
| `VerdictOfAll` | `Spec => []VerdictIsOfAll` |
| `SuccessFresh` | `Spec => []SuccessIsFresh` |
| `StillSuccessful` | `Spec => []StillIsSuccessful` |

The three properties speak of the end. `MInv` says for every moment of the loop that
the flag is up exactly if one of the lists so far is missing or differs from the
first, that `err` is about the last call, that a list is between what its member knew
at the beginning and what it knows now, and, while nothing has moved, that all
lists are the agreed one.

`ReadChecker_proofs`, for every number of members, moves and retries:

| theorem | statement |
|---|---|
| `RInvariant`, `TypeCorrect` | `Spec => []RInv`, `Spec => []TypeOK` |
| `UnsuccessfulIsEarned` | `Spec => []UnsuccessfulIsPersistent` |
| `SuccessfulIsRight` | `Spec => []SuccessfulWasNotDenied` |

`RInv` says that the errors of the slice are the denials among the replies of *this*
pass, that `shouldRetry` is "one of them", and that every pass counted in `retries`
had one.

`Report_proofs`, for every set of command lines, URL lists and numbers of passes:

| theorem | statement |
|---|---|
| `PInvariant`, `TypeCorrect` | `Spec => []PInv`, `Spec => []TypeOK` |
| `WholeReport` | `Spec => []ReportIsWhole` |
| `OneSetOfEndpoints` | `Spec => []SameEndpoints` |

`PInv` counts the results against the plugin that runs, ties the state of the file to
the place in the program (it is touched only behind the last plugin and behind a
successful Marshal, so a kill at any place leaves one of three states), and says
that what a plugin has resolved is `--endpoints`, or with `--cluster` the member list
after as many changes as it has seen: the present list if it has seen them all,
and the same as that of any other plugin that has seen as many.

`Metrics_proofs`, for every set of replies, histograms of any length and counts
of any size:

| theorem | statement |
|---|---|
| `MInvariant` | `Spec => []MInv`, which has the types |
| `OwnOutputs` | `Spec => []EachHasItsOwn` |
| `PercentilesRight` | `Spec => []PercentilesAreRight` |

`MInv` is short: what the plugin keeps of an endpoint is `Kept` of its reply. The work
is in the lemmas about `percentileFromHistogram`: the first bucket that reaches the
rank exists, the interpolation stays within it, the truncation of the rank costs
less than one observation, and all of it is monotone in the percentage.

`DbFile_proofs`, for every number of commands, width of the counter and size of the
bucket:

| theorem | statement |
|---|---|
| `DInvariant`, `TypeCorrect` | `Spec => []DInv`, `Spec => []TypeOK` |
| `OneVersion` | `Spec => []ReadsOneVersion` |
| `IterationIsRight` | `Spec => []IteratesWanted` |

`DInv` says who holds the lock in which mode, that the file has not changed since a
holder got it, and that after j entries the counter is the limit minus j
modulo 2^Width and the cursor is j entries from the end.

`CommitIndex_proofs`, for every number of indexes, terms, records, segments and
restarts:

| theorem | statement |
|---|---|
| `CInvariant` | `Spec => [](ServerInv /\ CommandInv)` |
| `TypeCorrect` | `Spec => []TypeOK` |
| `NotAbove` | `Spec => []NotAboveAgreed` |
| `Remembers` | `Spec => []NothingForgotten` |
| `Complete` | `Spec => []NeverPartial` |
| `FailsForOrphans` | `Spec => []FailsOnlyOnOrphan` |

What the command gets depends on all a server did before it stopped or crashed.
`ServerInv` has five layers, each proved for all actions of the server from the ones
before it:

1. `TypeInv`: types and bounds. Everything saved or committed is agreed on, and
   records that are not synced are HardStates.
2. `OrderInv`: HardStates grow, a segment begins with one, a snapshot record is
   before the segments named beyond it; and what is on disk at each step of saving
   a snapshot.
3. `ReleaseInv`: only what a *durable* snapshot stands for is released and purged. A
   snapshot is durable if its file, its record and a synced HardState that has
   reached it are there, so that no crash takes it away.
4. `SegmentInv`: from any segment and any index that a restart or the command might
   read from, that is, not below a durable snapshot, the entries read are without a
   gap and end where the log ends, unless `revived`.
5. `ContentInv`: the last entry of every index has the term the log has, and the log
   that of the cluster as far as it is committed.

The type invariant and the bounds alone do not give them: a crash between any two
writes makes a property of the disk necessary at every intermediate step, and a
restart makes a log of what `ReadAll` reads. `NeverPartial` is layers 3 and 4,
`NotAboveAgreed` is layer 1, `NothingForgotten` needs all of them. `CommandInv` is about the
command's own variables.

`DumpLog_proofs`, for every bound, every set of command lines and all data of the entries:

| theorem | statement |
|---|---|
| `DInvariant` | `DSpec => [](ServerInv /\ Entries(wal) /\ DumpInv)` |
| `DTypeCorrect` | `DSpec => []DTypeOK` |
| `EntriesOnce` | `DSpec => []EveryEntryOnce` |
| `FailsForReasons` | `DSpec => []FailsForAReason` |
| `KeepsHistory` | `DSpec => []HistoryInv` |
| `ShowsLog` | `DSpec => [](restarts = 0 => DumpIsLog)` |
| `MissesNothing` | `DSpec => [](restarts = 0 => NothingIsMissing)` |
| `RawIsLog` | `DSpec => [](restarts = 0 => RawShowsLog)` |

The first four take `ServerInv` as it is and add what the command has read of the disk
(`DumpInv`). The last three need more than what is on the disk now: an entry in the
WAL is one of the log only if nothing written *after* it has cut it off, be it an
entry that overwrote it, one before it, or a snapshot from the leader. `HistoryInv`
says so of a member that has not restarted:

* `SnapsInv`: a snapshot in the WAL is durable and committed, or on its way in at the
  very end, or one that a crash has kept from being installed.
* `Above` and `Stepwise`: entries are above every snapshot recorded before them, and
  are preceded by the entry or a snapshot that they continue. After a gap there
  is thus no entry that belongs before it, so that what was read up to the gap is
  not cut off by what follows.
* `Continued`: what the log has above an entry was written after it. So the last entry
  read is the end of the log, even if the reading starts below the snapshot that a
  server would start from.
* `Current`: an entry of the WAL that no later one *above s* cuts off has the term the log
  has, unless s is beyond the log or a snapshot has overtaken the entry or s. That is
  what `ReadAll` from s leaves, for any s the flags allow, and with s just below
  the entry what the raw form shows last.

`HistoryInv` is stronger than `DumpIsLog` where the run taught nothing: a snapshot counts as
having overtaken an entry only if the log reaches that snapshot. Without that the proof cannot
exclude that a dump without an end goes on beyond the log after a crash has interrupted
the installation.

For members that have restarted there is no such theorem. With one restart TLC finds a
member that has taken stale entries for its log (`revived`) and violates
`NothingIsMissing`; see also the bounds of `dump_log`.

The assumptions are those the modules name: there is at least one pass, endpoint
lists are sequences of endpoints, sizes are natural numbers, nil is not a status
(`EpStatus*`, `Membership`, `ReadChecker`, `Report`); a bucket may hold an entry and
has at most 2^Width (`DbFile`); Inf and NaN are not numbers, and histograms are as
Prometheus exposes them, with growing bounds and cumulative counts (`Metrics`,
`WellFormed`); the bounds of `Wal` are natural numbers; a start index is 0 if it is not given,
and the default of the end index is no number (`DumpLog`). TLC evaluates each on the
instances of the runs.

Model-checked only:

* The liveness properties `Terminates`, `EndsOrHangsInMetrics`, `ServerGetsLock` and
  `TimeoutIsHonoured`: liveness under fairness and ENABLED are beyond this prover.

Every invariant and every action property that a passing run checks is the statement of
a theorem, those three for members that have not restarted (the run has no
others). What the command log prints is defined without a fold (`Pick`
chooses the elements at a set of positions), because what a fold or a recursive
function computes needs induction over data, which is out of this prover's reach.

No module has a RECURSIVE operator.

## Not modelled

* Damaged WAL files and what `readRaw` says of checksums that do not match; the
  order of segments is that of their names.
* Two commands in one process: the flags are package variables, but the program
  runs one command.
* `secureConfig`, `authConfig`: fields handed on to the client library; of them only
  whether certificates are named matters to `Report`.
* The text the decoders and printers write.
* `main.go`, cobra registration, version, build files.
* bolt, etcd and the client library are external: they are modelled from how this
  code uses them, in the actions named above.

## Plan

Done: all the plugins, the endpoint-status one with its abstract specification,
its composition with a cluster; the report command; the db file commands; the WAL
commands on a model of what etcd leaves behind; and the proofs of every invariant
and action property that a run checks.

Next:

1. The dump of a member that has restarted: what the log of its last run began with is
   what `ReadAll` returned then. `LastLog` and `Overtaken` would have to say so, and
   `HistoryInv` to hold across `Restart` unless `revived`.
2. An abstract specification of the read plugins (one pass over the endpoints, one
   verdict), as `EpStatusVerdict` is for the endpoint status, and the refinement proved.
