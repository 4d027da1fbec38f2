----------------------------- MODULE Membership -----------------------------
(***************************************************************************)
(* The membership plugin (plugins/membership/plugin.go) in front of a      *)
(* cluster whose membership changes while it is asked.                     *)
(*                                                                         *)
(* Every endpoint is asked once, with a serializable MemberList: it        *)
(* answers from the changes it has applied itself, which is here the       *)
(* number of them, applied[n] <= agreed.  Two equal numbers are two equal  *)
(* lists (compareMembers), two different numbers two different ones.       *)
(***************************************************************************)
EXTENDS Integers, Sequences

CONSTANTS
  Endpoint,
  EpLists,     \* the lists agent.Endpoints may return; with --cluster the
               \* empty one is among them: a member list without client URLs
  MaxChanges,  \* the bound on membership changes
  Nil

ASSUME EpListsAssumption == EpLists \subseteq Seq(Endpoint)
ASSUME ChangesAssumption == MaxChanges \in Nat
ASSUME NilAssumption == Nil \notin 0..MaxChanges

VARIABLES
  pc,          \* "start", "loop", "done" or "panic"
  eps,
  memberLists,
  i,
  detectedInconsistency,
  err,
  result,
  agreed,      \* membership changes the cluster has committed
  applied,     \* how many of them each member has applied
  still,       \* ghost: all members agreed, and nothing changed or was lost,
               \* since the first call
  from         \* ghost: applied when the first call was made

plugin == <<pc, eps, memberLists, i, detectedInconsistency, err, result>>
cluster == <<agreed, applied>>
ghosts == <<still, from>>
vars == <<plugin, cluster, ghosts>>

Reply == 0..MaxChanges \cup {Nil}

Kind == {"none", "failed", "inconsistent", "successful"}
NoResult == [kind |-> "none", lists |-> <<>>]

Init ==
  /\ pc = "start"
  /\ eps = <<>>
  /\ memberLists = <<>>
  /\ i = 1
  /\ detectedInconsistency = FALSE
  /\ err = FALSE
  /\ result = NoResult
  /\ agreed = 0
  /\ applied = [n \in Endpoint |-> 0]
  /\ still = FALSE
  /\ from = applied

-----------------------------------------------------------------------------
(* The cluster (external). *)

Change ==
  /\ pc \in {"start", "loop"}
  /\ agreed < MaxChanges
  /\ agreed' = agreed + 1
  /\ still' = FALSE
  /\ UNCHANGED <<plugin, applied, from>>

Apply(n) ==
  /\ pc \in {"start", "loop"}
  /\ applied[n] < agreed
  /\ applied' = [applied EXCEPT ![n] = @ + 1]
  /\ still' = FALSE
  /\ UNCHANGED <<plugin, agreed, from>>

-----------------------------------------------------------------------------
(* The plugin. *)

FaultySlots(n) == <<>>

\* make([]*MemberListResponse, n)
Slots(n) == [k \in 1..n |-> Nil]

compareMembers(m1, m2) == m1 # Nil /\ m2 # Nil /\ m1 = m2

FaultyDetectLast(r) ==
  \/ r = Nil
  \/ i > 1 /\ ~compareMembers(memberLists[1], r)

FaultyDetectFirst(r) ==
  detectedInconsistency \/ r = Nil \/ ~compareMembers(memberLists[1], r)

FaultyDetectIgnoresError(r) ==
  detectedInconsistency \/ (r # Nil /\ i > 1 /\ ~compareMembers(memberLists[1], r))

\* What one iteration does to the flag: an error sets it, a difference sets it.
DetectedAfter(r) ==
  \/ detectedInconsistency
  \/ r = Nil
  \/ i > 1 /\ ~compareMembers(memberLists[1], r)

\* The result built after the loop.
CheckResult ==
  IF detectedInconsistency
  THEN [kind |-> "inconsistent", lists |-> memberLists]
  ELSE [kind |-> "successful", lists |-> <<memberLists[1]>>]

EndpointsFail ==
  /\ pc = "start"
  /\ pc' = "done"
  /\ err' = TRUE
  /\ result' = [kind |-> "failed", lists |-> <<>>]
  /\ UNCHANGED <<eps, memberLists, i, detectedInconsistency, cluster, ghosts>>

Start(es) ==
  /\ pc = "start"
  /\ pc' = "loop"
  /\ eps' = es
  /\ memberLists' = Slots(Len(es))
  /\ still' = (\A n \in Endpoint : applied[n] = agreed)
  /\ from' = applied
  /\ UNCHANGED <<i, detectedInconsistency, err, result, cluster>>

\* agent.MemberList(eps[i]) returns r.
Query(r) ==
  /\ pc = "loop"
  /\ i <= Len(eps)
  /\ memberLists' = [memberLists EXCEPT ![i] = r]
  /\ err' = (r = Nil)
  /\ detectedInconsistency' = DetectedAfter(r)
  /\ i' = i + 1
  /\ UNCHANGED <<pc, eps, result, cluster>>

Answered == i <= Len(eps) /\ Query(applied[eps[i]]) /\ UNCHANGED ghosts

\* The member is down or answers too late.
Lost == Query(Nil) /\ still' = FALSE /\ UNCHANGED from

\* The end of Diagnose with its deferred function: err is the last call's.
Finish ==
  /\ pc = "loop"
  /\ i > Len(eps)
  /\ detectedInconsistency \/ memberLists # <<>>
  /\ pc' = "done"
  /\ result' = IF err THEN [kind |-> "failed", lists |-> <<>>] ELSE CheckResult
  /\ UNCHANGED <<eps, memberLists, i, detectedInconsistency, err, cluster, ghosts>>

\* memberLists[0] of an empty slice.
Panic ==
  /\ pc = "loop"
  /\ i > Len(eps)
  /\ ~detectedInconsistency /\ memberLists = <<>>
  /\ pc' = "panic"
  /\ UNCHANGED <<eps, memberLists, i, detectedInconsistency, err, result, cluster, ghosts>>

Next ==
  \/ EndpointsFail
  \/ \E es \in EpLists : Start(es)
  \/ Answered
  \/ Lost
  \/ Finish
  \/ Panic
  \/ Change
  \/ \E n \in Endpoint : Apply(n)

Spec == Init /\ [][Next]_vars

-----------------------------------------------------------------------------
(* Properties.                                                             *)

TypeOK ==
  /\ pc \in {"start", "loop", "done", "panic"}
  /\ eps \in Seq(Endpoint)
  /\ memberLists \in Seq(Reply)
  /\ Len(memberLists) = Len(eps)
  /\ i \in 1..Len(eps) + 1
  /\ detectedInconsistency \in BOOLEAN /\ err \in BOOLEAN /\ still \in BOOLEAN
  /\ result \in [kind : Kind, lists : Seq(Reply)]
  /\ agreed \in 0..MaxChanges
  /\ applied \in [Endpoint -> 0..agreed] /\ from \in [Endpoint -> 0..agreed]

\* The verdict is of everybody, wherever in the order somebody is missing or
\* differs: "Successful" is given exactly if all endpoints have answered with one
\* list, and shows that list; the alarm shows what each of them answered.  The
\* exception is the last call: its error, and no other one, takes the place of
\* the verdict.
VerdictIsOfAll ==
  pc = "done" /\ eps # <<>> =>
    /\ result.kind = "failed" <=> memberLists[Len(eps)] = Nil
    /\ result.kind = "successful" <=>
         \A k \in 1..Len(eps) : memberLists[k] # Nil /\ memberLists[k] = memberLists[1]
    /\ result.kind = "successful" => result.lists = <<memberLists[1]>>
    /\ result.kind = "inconsistent" => result.lists = memberLists

\* The list a "Successful" report shows is not stale, although the members are
\* asked one by one and answer from what they know: none of them had a newer
\* list when the diagnosis began, and all of them have it when it ends.
SuccessIsFresh ==
  result.kind = "successful" =>
    \A k \in 1..Len(eps) :
      from[eps[k]] <= result.lists[1] /\ result.lists[1] <= applied[eps[k]]

\* No false alarm: the plugin does not retry, so only a cluster that is still
\* the whole time is sure of a clean verdict - but it is.
StillIsSuccessful ==
  pc = "done" /\ eps # <<>> /\ still => result.kind = "successful"
=============================================================================
