------------------------------ MODULE EpStatus ------------------------------
(***************************************************************************)
(* The endpoint-status plugin (plugins/epstatus/plugin.go): Diagnose asks  *)
(* every endpoint for its status, one after the other, compares each reply *)
(* with the first one, and repeats the pass, up to MaxRetries times, while *)
(* all it found may be transient.                                          *)
(*                                                                         *)
(* The variables are the locals of Diagnose.  A step is one status call    *)
(* with the work up to the next call; between two steps the cluster may    *)
(* change, which here is the free choice of the reply (EpStatusCluster     *)
(* replaces it by a cluster that moves).                                   *)
(***************************************************************************)
EXTENDS EpStatusData

CONSTANTS
  Endpoint,    \* the endpoint names
  EpLists,     \* the endpoint lists agent.Endpoints may return
  maxRetries   \* 3 in the code

ASSUME EpListsAssumption == EpLists \subseteq Seq(Endpoint)
ASSUME RetryAssumption == maxRetries \in Nat \ {0}

VARIABLES
  pc,           \* "start", "pass" (inside the loop) or "done"
  eps,          \* the endpoint list
  list,         \* chkResult.EpStatusList: the replies of this pass
  summary,      \* chkResult.Summary: the findings of this pass
  i,            \* the position asked next
  shouldRetry,
  retries,
  err,          \* the variable err that the deferred function reads
  result        \* what Diagnose returned

vars == <<pc, eps, list, summary, i, shouldRetry, retries, err, result>>

Init ==
  /\ pc = "start"
  /\ eps = <<>>
  /\ list = <<>>
  /\ summary = {}
  /\ i = 1
  /\ shouldRetry = TRUE
  /\ retries = 0
  /\ err = FALSE
  /\ result = NoResult

-----------------------------------------------------------------------------
(* The pieces of the loop.  The operators whose name begins with Faulty are  *)
(* slips one could make in that line; no action uses them.                   *)

FaultyInitKeepsSummary(n) == [summary |-> summary, list |-> [k \in 1..n |-> Nil]]

\* An empty Summary and a slice of n zero epStatus values.
initCheckResult(n) == [summary |-> {}, list |-> [k \in 1..n |-> Nil]]

FaultyFindingsSkipNil(r) ==
  IF r = Nil THEN {}
  ELSE IF r.errs THEN {<<"errors", i>>}
  ELSE IF i = 1 THEN {}
  ELSE IF ~compareHardInfo(list[1], r) THEN {<<"hard", i>>}
  ELSE IF shouldRetry /\ ~compareSoftInfo(list[1], r) THEN {<<"soft", i>>}
  ELSE {}

FaultyFindingsSoftInverted(r) ==
  IF r = Nil THEN {<<"failed", i>>}
  ELSE IF r.errs THEN {<<"errors", i>>}
  ELSE IF i = 1 THEN {}
  ELSE IF ~compareHardInfo(list[1], r) THEN {<<"hard", i>>}
  ELSE IF ~shouldRetry /\ ~compareSoftInfo(list[1], r) THEN {<<"soft", i>>}
  ELSE {}

\* What the loop body appends to the Summary for reply r at position i.
FindingsOf(r) ==
  IF r = Nil THEN {<<"failed", i>>}
  ELSE IF r.errs THEN {<<"errors", i>>}
  ELSE IF i = 1 THEN {}
  ELSE IF ~compareHardInfo(list[1], r) THEN {<<"hard", i>>}
  ELSE IF shouldRetry /\ ~compareSoftInfo(list[1], r) THEN {<<"soft", i>>}
  ELSE {}

FaultyRetriesNotCounted == retries

RetriesAfterPass == retries + 1

FaultyFinalOffByOne == summary = {} \/ ~shouldRetry \/ RetriesAfterPass > maxRetries

FaultyFinalTooSoon == summary = {} \/ ~shouldRetry \/ RetriesAfterPass + 1 >= maxRetries

FaultyFinalRetriesAll == summary = {} \/ RetriesAfterPass >= maxRetries

\* The break condition of the outer loop.
PassIsFinal == summary = {} \/ ~shouldRetry \/ RetriesAfterPass >= maxRetries

\* checkDBSize: the endpoints of this pass whose database is too large.
checkDBSize ==
  {<<"db", k>> : k \in {j \in 1..Len(list) : list[j] # Nil /\ DbTooLarge(list[j].db)}}

FaultyErrSticks(r) == err \/ r = Nil

\* The assignment err = ... of the status call.
ErrAfter(r) == r = Nil

-----------------------------------------------------------------------------
\* agent.Endpoints fails: the deferred function returns a FailedResult.
EndpointsFail ==
  /\ pc = "start"
  /\ pc' = "done"
  /\ err' = TRUE
  /\ result' = FailedResult(<<"endpoints", 0>>)
  /\ UNCHANGED <<eps, list, summary, i, shouldRetry, retries>>

\* agent.Endpoints returns the list es: the first pass starts.
Start(es) ==
  /\ pc = "start"
  /\ pc' = "pass"
  /\ eps' = es
  /\ list' = initCheckResult(Len(es)).list
  /\ UNCHANGED <<summary, i, shouldRetry, retries, err, result>>

\* One iteration of the inner loop: agent.EndpointStatus(eps[i]) returns r.
Query(r) ==
  /\ pc = "pass"
  /\ i <= Len(eps)
  /\ list' = [list EXCEPT ![i] = r]
  /\ err' = ErrAfter(r)
  /\ summary' = summary \cup FindingsOf(r)
  /\ shouldRetry' = (shouldRetry /\ FindingsOf(r) \cap {<<"errors", i>>, <<"hard", i>>} = {})
  /\ i' = i + 1
  /\ UNCHANGED <<pc, eps, retries, result>>

\* The pass ends, and all it found may be transient: start over with a fresh
\* result, a second later.
Retry ==
  /\ pc = "pass"
  /\ i > Len(eps)
  /\ ~PassIsFinal
  /\ retries' = RetriesAfterPass
  /\ list' = initCheckResult(Len(eps)).list
  /\ summary' = initCheckResult(Len(eps)).summary
  /\ i' = 1
  /\ UNCHANGED <<pc, eps, shouldRetry, err, result>>

\* The last pass ends: checkDBSize, then the deferred function, which puts a
\* FailedResult in the place of the result if err is set.
Finish ==
  /\ pc = "pass"
  /\ i > Len(eps)
  /\ PassIsFinal
  /\ pc' = "done"
  /\ retries' = RetriesAfterPass
  /\ summary' = summary \cup checkDBSize
  /\ result' = IF err THEN FailedResult(<<"failed", Len(eps)>>)
                      ELSE CheckResult(summary')
  /\ UNCHANGED <<eps, list, i, shouldRetry, err>>

Next ==
  \/ EndpointsFail
  \/ \E es \in EpLists : Start(es)
  \/ \E r \in Reply : Query(r)
  \/ Retry
  \/ Finish

Spec == Init /\ [][Next]_vars

\* One goroutine runs Diagnose, every call is bounded by its context's timeout
\* and the pause is one second: the plugin always takes its next step.
FairSpec == Spec /\ WF_vars(Next)

-----------------------------------------------------------------------------
(* Properties.                                                             *)

TypeOK ==
  /\ pc \in {"start", "pass", "done"}
  /\ eps \in Seq(Endpoint)
  /\ list \in Seq(Reply)
  /\ summary \in SUBSET Finding
  /\ i \in Nat \ {0}
  /\ shouldRetry \in BOOLEAN
  /\ retries \in 0..maxRetries
  /\ err \in BOOLEAN
  /\ result \in Result

\* The verdict is about the replies of the last pass, once it is given.
Verdict == INSTANCE EpStatusVerdict
             WITH answers <- IF pc = "done" THEN list ELSE <<>>

\* The whole loop, with its accumulated summary, its flags and its resets,
\* gives the verdict that one complete pass over the endpoints calls for, and
\* nothing an abandoned pass found is left in it.
ImplementsVerdict == Verdict!Spec

\* Inside the loop: the summary and the flag say exactly what the replies so
\* far say, and err is about the last call (after the first one of a pass).
PassInv ==
  pc = "pass" =>
    /\ Len(list) = Len(eps)
    /\ i \in 1..Len(eps) + 1
    /\ retries < maxRetries
    /\ summary = Verdict!PassFindings(list, i - 1)
    /\ shouldRetry = (Verdict!Definitive(list, i - 1) = {})
    /\ i > 1 => err = (list[i - 1] = Nil)
    /\ eps = <<>> => ~err
    /\ result = NoResult

StartInv ==
  pc = "start" =>
    /\ eps = <<>> /\ list = <<>> /\ summary = {} /\ i = 1
    /\ shouldRetry /\ retries = 0 /\ ~err /\ result = NoResult

DoneInv ==
  pc = "done" =>
    /\ Len(list) = Len(eps)
    /\ \/ list = <<>> /\ result = FailedResult(<<"endpoints", 0>>)
       \/ result = Verdict!Judge(list)

\* The inductive invariant: the state of the loop is a function of the replies
\* of the current pass, so nothing of an earlier pass can reach the result.
IInv == TypeOK /\ StartInv /\ PassInv /\ DoneInv

\* "Successful" is earned: every endpoint of the list answered in the last
\* pass, without errors, with a database below the limits, and any two of
\* them agree on the hard and on the soft information.
SuccessIsSound ==
  pc = "done" /\ Successful(result) =>
    /\ Len(list) = Len(eps)
    /\ \A j \in 1..Len(eps) :
         list[j] # Nil /\ ~list[j].errs /\ ~DbTooLarge(list[j].db)
    /\ \A j, k \in 1..Len(eps) :
         list[j].hard = list[k].hard /\ list[j].soft = list[k].soft

\* An endpoint's errors and a hard inconsistency are never thrown away by a
\* retry: once in the summary they stay there.
DefinitiveFindingKept ==
  [][\A f \in summary : f[1] \in {"errors", "hard"} => f \in summary']_vars

\* The plugin returns, however many calls fail or disagree.
Terminates == <>(pc = "done")
=============================================================================
