-------------------------- MODULE EpStatusCluster ---------------------------
(***************************************************************************)
(* The endpoint-status plugin in front of a cluster that moves.  EpStatus  *)
(* lets every status call return anything; here the reply is read off the  *)
(* state one etcd member has at the moment of the call, and between two    *)
(* calls members commit, lag, crash, come back with another version, and   *)
(* lose and elect their leader.                                            *)
(*                                                                         *)
(* The cluster is not part of the repository: it is modelled from what the *)
(* plugin reads of it (Version, the indexes, the Errors list, which etcd   *)
(* fills with "no leader").  HardInfo is the member's version, SoftInfo    *)
(* its place in the replicated log.                                        *)
(***************************************************************************)
EXTENDS EpStatus, FiniteSets

CONSTANT MaxMoves   \* the bound on the cluster's steps during one diagnosis

ASSUME SoftAssumption ==
  SoftInfo \subseteq Nat /\ 0 \in SoftInfo /\ \A p \in SoftInfo : 0..p \subseteq SoftInfo
ASSUME EndpointAssumption == IsFiniteSet(Endpoint)
ASSUME MovesAssumption == MaxMoves \in Nat

VARIABLES
  up,        \* the members that run
  ver,       \* their version
  pos,       \* how far each has got in the replicated log
  head,      \* the end of the replicated log
  leader,    \* whether there is one
  moves,     \* steps the cluster has taken
  calm,      \* ghost: the cluster has been settled since the pass began
  disturbed, \* ghost: how many finished passes were not calm
  from,      \* ghost: pos when the pass began
  back,      \* ghost: the members that came back during the pass
  mixed,     \* ghost: at some moment of the pass two members ran different
             \* versions
  out        \* ghost: at some moment of the pass no member ran

cluster == <<up, ver, pos, head, leader, moves>>
ghosts == <<calm, disturbed, from, back, mixed, out>>
allVars == <<vars, cluster, ghosts>>

Quorum == 2 * Cardinality(up) > Cardinality(Endpoint)

\* Everybody runs the same version, has the whole log, and knows the leader.
Settled ==
  /\ up = Endpoint /\ leader
  /\ \A m, n \in Endpoint : ver[m] = ver[n]
  /\ \A n \in Endpoint : pos[n] = head

\* Two members that run now have different versions.
Mixed == \E m, n \in up : ver[m] # ver[n]

CInit ==
  /\ Init
  /\ up = Endpoint
  /\ ver \in [Endpoint -> HardInfo]
  /\ head = 0
  /\ pos = [n \in Endpoint |-> 0]
  /\ leader = TRUE
  /\ moves = 0
  /\ calm = FALSE
  /\ disturbed = 0
  /\ from = pos
  /\ back = {}
  /\ mixed = Mixed
  /\ out = (up = {})

-----------------------------------------------------------------------------
(* The cluster's steps.  It is of no interest once the result is given.    *)

Move ==
  /\ pc # "done"
  /\ moves < MaxMoves
  /\ moves' = moves + 1
  /\ calm' = FALSE
  /\ UNCHANGED <<vars, disturbed, from>>

\* The leader commits an entry.
Commit ==
  /\ Move
  /\ leader /\ Quorum /\ head + 1 \in SoftInfo
  /\ head' = head + 1
  /\ UNCHANGED <<up, ver, pos, leader, back, mixed, out>>

\* A member applies the next entry.
Apply(n) ==
  /\ Move
  /\ n \in up /\ pos[n] < head
  /\ pos' = [pos EXCEPT ![n] = @ + 1]
  /\ UNCHANGED <<up, ver, head, leader, back, mixed, out>>

\* A member dies; it may have been the leader.
Crash(n) ==
  /\ Move
  /\ n \in up
  /\ up' = up \ {n}
  /\ leader' \in {leader, FALSE}
  /\ out' = (out \/ up' = {})
  /\ UNCHANGED <<ver, pos, head, back, mixed>>

\* It comes back, perhaps upgraded, perhaps with an older commit index than it
\* had: a HardState that only moves Commit is not synced.
Restart(n, v, p) ==
  /\ Move
  /\ n \notin up
  /\ up' = up \cup {n}
  /\ ver' = [ver EXCEPT ![n] = v]
  /\ p <= pos[n] /\ pos' = [pos EXCEPT ![n] = p]
  /\ back' = back \cup {n}
  /\ mixed' = (mixed \/ \E m \in up : ver[m] # v)
  /\ UNCHANGED <<head, leader, out>>

LoseLeader ==
  /\ Move
  /\ leader
  /\ leader' = FALSE
  /\ UNCHANGED <<up, ver, pos, head, back, mixed, out>>

\* A new leader starts its term with an entry of its own.
Elect ==
  /\ Move
  /\ ~leader /\ Quorum /\ head + 1 \in SoftInfo
  /\ leader' = TRUE
  /\ head' = head + 1
  /\ UNCHANGED <<up, ver, pos, back, mixed, out>>

ClusterStep ==
  \/ Commit \/ LoseLeader \/ Elect
  \/ \E n \in Endpoint : Apply(n) \/ Crash(n)
  \/ \E n \in Endpoint, v \in HardInfo, p \in SoftInfo : Restart(n, v, p)

-----------------------------------------------------------------------------
(* The plugin's steps.                                                     *)

\* What Status answers on member n: etcd adds ErrNoLeader to Errors when it
\* knows no leader.
StatusOf(n, db) == [hard |-> ver[n], soft |-> pos[n], errs |-> ~leader, db |-> db]

CEndpointsFail == EndpointsFail /\ UNCHANGED <<cluster, ghosts>>

\* A pass begins.
Began ==
  /\ calm' = Settled
  /\ from' = pos
  /\ back' = {}
  /\ mixed' = Mixed
  /\ out' = (up = {})

CStart(es) ==
  /\ Start(es)
  /\ Began
  /\ UNCHANGED <<cluster, disturbed>>

\* The member asked runs and answers in time.
Answered(db) ==
  /\ i <= Len(eps) /\ eps[i] \in up
  /\ Query(StatusOf(eps[i], db))
  /\ UNCHANGED <<cluster, ghosts>>

\* It is down, or its answer comes after the command timeout.
Lost ==
  /\ Query(Nil)
  /\ calm' = FALSE
  /\ UNCHANGED <<cluster, disturbed, from, back, mixed, out>>

PassOver == disturbed' = disturbed + (IF calm THEN 0 ELSE 1)

CRetry ==
  /\ Retry
  /\ Began
  /\ PassOver
  /\ UNCHANGED cluster

CFinish ==
  /\ Finish
  /\ PassOver
  /\ UNCHANGED <<cluster, calm, from, back, mixed, out>>

CNext ==
  \/ CEndpointsFail
  \/ \E es \in EpLists : CStart(es)
  \/ \E db \in DbInfo : Answered(db)
  \/ Lost
  \/ CRetry
  \/ CFinish
  \/ ClusterStep

CSpec == CInit /\ [][CNext]_allVars

-----------------------------------------------------------------------------
(* Properties.                                                             *)

CTypeOK ==
  /\ TypeOK
  /\ up \subseteq Endpoint
  /\ ver \in [Endpoint -> HardInfo]
  /\ pos \in [Endpoint -> SoftInfo] /\ head \in SoftInfo
  /\ leader \in BOOLEAN
  /\ moves \in 0..MaxMoves
  /\ calm \in BOOLEAN /\ mixed \in BOOLEAN /\ out \in BOOLEAN
  /\ disturbed \in 0..maxRetries
  /\ from \in [Endpoint -> SoftInfo] /\ back \subseteq Endpoint

\* No false alarm: the plugin reports lag or an unreachable member, and nothing
\* definitive, only if each of its maxRetries passes met a cluster that was
\* moving, not converged, or losing calls.  One pass over a settled cluster
\* ends the diagnosis with "Successful".
TransientAlarmIsEarned ==
  pc = "done" /\ list # <<>> /\ Verdict!Definitive(list, Len(list)) = {}
    /\ Verdict!PassFindings(list, Len(list)) # {}
  => disturbed = maxRetries

\* A settled pass is never thrown away, and is the last one.
CalmPassIsLast == [][Retry => ~calm]_allVars

\* Lag is seen although the members are asked one after the other: after
\* "Successful", no member that stayed up during the last pass is behind the
\* place that another one which stayed up had when that pass began.  (Nothing is
\* said of a member that came back in that pass, on either side: it may have
\* lost what it had.)
LagIsSeen ==
  pc = "done" /\ Successful(result) =>
    \A j, k \in 1..Len(eps) :
      eps[k] \notin back => pos[eps[k]] >= from[eps[j]] \/ eps[j] \in back

\* A hard finding between two members that both answered is real, even though
\* the two replies are from different moments: at one and the same moment of
\* that pass two members ran different versions - or the whole cluster was down
\* in the middle of the pass, and came back upgraded.
HardFindingWasMixed ==
  \A k \in 1..Len(list) :
    <<"hard", k>> \in summary /\ list[1] # Nil => mixed \/ out
=============================================================================
