---------------------------- MODULE EpStatusData ----------------------------
(***************************************************************************)
(* The data of the endpoint-status plugin of `etcd-diagnosis report`       *)
(* (commands/report/plugins/epstatus/plugin.go): what one status call      *)
(* returns, how two replies are compared, when a database is too large.    *)
(*                                                                         *)
(* A StatusResponse is reduced to what the plugin tells apart.  The three  *)
(* fields compareHardInfo compares are one value of HardInfo, the five of  *)
(* compareSoftInfo one value of SoftInfo, the Errors list is the Boolean   *)
(* "it is not empty", and the two database sizes stay numbers.             *)
(***************************************************************************)
EXTENDS Integers, Sequences

CONSTANTS
  HardInfo,   \* values of <<ClusterId, Version, StorageVersion>>
  SoftInfo,   \* values of <<Revision, RaftTerm, RaftIndex, AppliedIndex, Leader>>
  DbInfo,     \* the possible [size, inUse] of an endpoint's database
  DbQuotaBytes,  \* --etcd-storage-quota-bytes
  LargeFree,  \* the literal 1_000_000_000 of checkDBSize
  Nil         \* the nil *StatusResponse of a failed call

ASSUME DbAssumption ==
  /\ DbInfo \subseteq [size : Nat, inUse : Nat]
  /\ DbQuotaBytes \in Nat
  /\ LargeFree \in Nat

Status == [hard : HardInfo, soft : SoftInfo, errs : BOOLEAN, db : DbInfo]

ASSUME NilAssumption == Nil \notin Status

\* What agent.EndpointStatus hands back: a status, or nil with an error.
Reply == Status \cup {Nil}

\* Operators named Faulty... are slips one could make; nothing uses them.
FaultyHardComparesAll(s1, s2) ==
  s1 # Nil /\ s2 # Nil /\ s1.hard = s2.hard /\ s1.soft = s2.soft

compareHardInfo(s1, s2) == s1 # Nil /\ s2 # Nil /\ s1.hard = s2.hard

compareSoftInfo(s1, s2) == s1 # Nil /\ s2 # Nil /\ s1.soft = s2.soft

\* The condition of checkDBSize, with its precedence: (free and free) or full.
DbTooLarge(db) ==
  LET freeSize == db.size - db.inUse
  IN  \/ freeSize > db.inUse /\ freeSize > LargeFree
      \/ db.size >= (DbQuotaBytes * 80) \div 100

(***************************************************************************)
(* One line of a result's Summary: what was found, and for which position  *)
(* of the endpoint list.  Position 0 stands for agent.Endpoints itself.    *)
(***************************************************************************)
FindingKind == {"endpoints", "failed", "errors", "hard", "soft", "db"}

Finding == FindingKind \X Nat

\* What Diagnose returns: nothing yet, an intf.FailedResult, or a checkResult
\* (Summary "Successful" is the empty set of findings).
Result == [kind : {"none", "failed", "checked"}, findings : SUBSET Finding]

NoResult == [kind |-> "none", findings |-> {}]

FailedResult(at) == [kind |-> "failed", findings |-> {at}]

CheckResult(found) == [kind |-> "checked", findings |-> found]

Successful(res) == res = CheckResult({})
=============================================================================
