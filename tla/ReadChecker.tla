---------------------------- MODULE ReadChecker -----------------------------
(***************************************************************************)
(* The two read plugins (plugins/read/plugin.go): a get of the key         *)
(* "health" on every endpoint, serializable or linearizable, repeated      *)
(* while an endpoint denies it, at most maxRetries times.                  *)
(*                                                                         *)
(* The replies come from a cluster that gains and loses its leader, whose  *)
(* members die and come back, and where the permission on the key may be   *)
(* granted or revoked meanwhile.                                           *)
(***************************************************************************)
EXTENDS Integers, Sequences

CONSTANTS
  Endpoint,
  EpLists,     \* the lists agent.Endpoints may return
  maxRetries,  \* 3 in the code
  MaxMoves     \* the bound on the cluster's steps

ASSUME EpListsAssumption == EpLists \subseteq Seq(Endpoint)
ASSUME RetryAssumption == maxRetries \in Nat \ {0}
ASSUME MovesAssumption == MaxMoves \in Nat

VARIABLES
  linearizable, \* which of the two plugins this is
  pc,           \* "start", "pass" or "done"
  eps,
  errors,       \* ReadResponses[k].Error is not empty
  i,
  shouldRetry,
  retries,
  result,       \* "none", "failed", "Successful" or "Unsuccessful"
  up, leader, granted, moves,  \* the cluster
  asked,        \* ghost: what each endpoint's last call returned
  everDenied    \* ghost: in each finished pass somebody denied the read

plugin == <<linearizable, pc, eps, errors, i, shouldRetry, retries, result>>
cluster == <<up, leader, granted, moves>>
ghosts == <<asked, everDenied>>
vars == <<plugin, cluster, ghosts>>

\* nil, ErrPermissionDenied, or any other error of agent.Read: no client, no
\* connection, no leader, a timeout.
Reply == {"ok", "denied", "error"}

Init ==
  /\ linearizable \in BOOLEAN
  /\ pc = "start"
  /\ eps = <<>>
  /\ errors = <<>>
  /\ i = 1
  /\ shouldRetry = FALSE
  /\ retries = 0
  /\ result = "none"
  /\ up = Endpoint
  /\ leader \in BOOLEAN
  /\ granted \in BOOLEAN
  /\ moves = 0
  /\ asked = <<>>
  /\ everDenied = TRUE

-----------------------------------------------------------------------------
(* The cluster (external). *)

Move(u, l, g) ==
  /\ pc # "done"
  /\ moves < MaxMoves
  /\ <<u, l, g>> # <<up, leader, granted>>
  /\ up' = u /\ leader' = l /\ granted' = g
  /\ moves' = moves + 1
  /\ UNCHANGED <<plugin, ghosts>>

ClusterStep ==
  \/ \E n \in Endpoint : Move(up \ {n}, leader, granted)
  \/ \E n \in Endpoint : Move(up \cup {n}, leader, granted)
  \/ Move(up, ~leader, granted)
  \/ Move(up, leader, ~granted)

\* A linearizable get needs the leader; the permission is checked after that.
Answer(n) ==
  IF n \notin up \/ (linearizable /\ ~leader) THEN "error"
  ELSE IF granted THEN "ok" ELSE "denied"

-----------------------------------------------------------------------------
(* The plugin. *)

FaultyKeepErrors(n) == IF errors = <<>> THEN [k \in 1..n |-> FALSE] ELSE errors

initCheckResult(n) == [k \in 1..n |-> FALSE]

RetryAfter(r) == shouldRetry \/ r = "denied"

RetriesAfterPass == retries + 1

FaultyFinalOffByOne == ~shouldRetry \/ RetriesAfterPass > maxRetries

PassIsFinal == ~shouldRetry \/ RetriesAfterPass >= maxRetries

FaultySummaryFirst ==
  IF errors # <<>> /\ errors[1] THEN "Unsuccessful" ELSE "Successful"

Summary == IF \E k \in 1..Len(errors) : errors[k] THEN "Unsuccessful" ELSE "Successful"

EndpointsFail ==
  /\ pc = "start"
  /\ pc' = "done"
  /\ result' = "failed"
  /\ UNCHANGED <<linearizable, eps, errors, i, shouldRetry, retries, cluster, ghosts>>

Start(es) ==
  /\ pc = "start"
  /\ pc' = "pass"
  /\ eps' = es
  /\ errors' = initCheckResult(Len(es))
  /\ asked' = [k \in 1..Len(es) |-> "ok"]
  /\ UNCHANGED <<linearizable, i, shouldRetry, retries, result, cluster, everDenied>>

\* One read.  Only a denial is written down; the inner err is a variable of
\* its own, which the deferred function does not see.
Query(r) ==
  /\ pc = "pass"
  /\ i <= Len(eps)
  /\ errors' = [errors EXCEPT ![i] = @ \/ r = "denied"]
  /\ shouldRetry' = RetryAfter(r)
  /\ i' = i + 1
  /\ asked' = [asked EXCEPT ![i] = r]
  /\ UNCHANGED <<linearizable, pc, eps, retries, result, cluster, everDenied>>

Answered == i <= Len(eps) /\ Query(Answer(eps[i]))

TimedOut == Query("error")

PassOver ==
  everDenied' = (everDenied /\ \E k \in 1..Len(eps) : asked[k] = "denied")

Retry ==
  /\ pc = "pass"
  /\ i > Len(eps)
  /\ ~PassIsFinal
  /\ retries' = RetriesAfterPass
  /\ errors' = initCheckResult(Len(eps))
  /\ shouldRetry' = FALSE
  /\ i' = 1
  /\ PassOver
  /\ UNCHANGED <<linearizable, pc, eps, result, cluster, asked>>

Finish ==
  /\ pc = "pass"
  /\ i > Len(eps)
  /\ PassIsFinal
  /\ pc' = "done"
  /\ retries' = RetriesAfterPass
  /\ result' = Summary
  /\ PassOver
  /\ UNCHANGED <<linearizable, eps, errors, i, shouldRetry, cluster, asked>>

PluginStep ==
  \/ EndpointsFail
  \/ \E es \in EpLists : Start(es)
  \/ Answered
  \/ TimedOut
  \/ Retry
  \/ Finish

Next == PluginStep \/ ClusterStep

Spec == Init /\ [][Next]_vars

-----------------------------------------------------------------------------
(* Properties.                                                             *)

TypeOK ==
  /\ linearizable \in BOOLEAN
  /\ pc \in {"start", "pass", "done"}
  /\ eps \in Seq(Endpoint)
  /\ errors \in Seq(BOOLEAN) /\ Len(errors) = Len(eps)
  /\ asked \in Seq(Reply) /\ Len(asked) = Len(eps)
  /\ i \in 1..Len(eps) + 1
  /\ shouldRetry \in BOOLEAN
  /\ retries \in 0..maxRetries /\ everDenied \in BOOLEAN
  /\ result \in {"none", "failed", "Successful", "Unsuccessful"}
  /\ up \subseteq Endpoint /\ leader \in BOOLEAN /\ granted \in BOOLEAN
  /\ moves \in 0..MaxMoves

\* "Unsuccessful" is earned: in every one of the maxRetries passes somebody
\* denied the read, and nobody's denial of an earlier pass is in the result.
UnsuccessfulIsPersistent ==
  result = "Unsuccessful" =>
    /\ everDenied /\ retries = maxRetries
    /\ \A k \in 1..Len(eps) : errors[k] = (asked[k] = "denied")

\* "Successful" means at least that nobody denied the last pass.
SuccessfulWasNotDenied ==
  result = "Successful" => \A k \in 1..Len(eps) : asked[k] # "denied"

(* A statement of the code about itself that does not hold. *)

\* "If it fails to do the diagnosis for any reason, it gets the detailed reason
\* included in the diagnosis result": a read that failed is in the result.
FailedReadIsReported ==
  \A k \in 1..Len(eps) : result = "Successful" => asked[k] = "ok"
=============================================================================
