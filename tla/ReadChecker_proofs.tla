------------------------- MODULE ReadChecker_proofs --------------------------
(***************************************************************************)
(* Proofs about ReadChecker, for every set of endpoints, every endpoint    *)
(* list, every number of retries and every behaviour of the cluster.       *)
(***************************************************************************)
EXTENDS ReadChecker, SequenceTheorems, TLAPS

-----------------------------------------------------------------------------
(* The inductive invariant. *)

\* Nothing has been asked before the first pass.
StartInv ==
  pc = "start" =>
    eps = <<>> /\ i = 1 /\ ~shouldRetry /\ retries = 0 /\ result = "none" /\ everDenied

\* What the slice of errors holds: the denials of this pass, and of no other.
ErrorsInv ==
  \A k \in 1..Len(eps) : errors[k] <=> k < i /\ asked[k] = "denied"

\* In a pass the flag says whether somebody has denied the read in it; a pass
\* has a successor only if somebody had.
PassInv ==
  pc = "pass" =>
    /\ result = "none" /\ retries < maxRetries /\ everDenied
    /\ shouldRetry <=> \E k \in 1..Len(eps) : k < i /\ asked[k] = "denied"

\* The result is of a whole pass, and an unsuccessful one of the last possible.
DoneInv ==
  pc = "done" =>
    \/ result = "failed" /\ eps = <<>>
    \/ /\ i = Len(eps) + 1
       /\ result = Summary
       /\ result = "Unsuccessful" => everDenied /\ retries = maxRetries

RInv == TypeOK /\ StartInv /\ ErrorsInv /\ PassInv /\ DoneInv

-----------------------------------------------------------------------------
(* Every action keeps the invariant.                                       *)

\* The loop index stays within one more than the endpoints.
LEMMA IndexRange ==
  ASSUME TypeOK
  PROVE  Len(eps) \in Nat /\ i \in Nat /\ 1 <= i /\ i <= Len(eps) + 1
  BY LenProperties DEF TypeOK

\* A fresh slice of n errors holds none.
LEMMA FreshErrors ==
  ASSUME NEW n \in Nat
  PROVE  /\ initCheckResult(n) \in Seq(BOOLEAN) /\ Len(initCheckResult(n)) = n
         /\ \A k \in 1..n : ~initCheckResult(n)[k]
  BY DEF initCheckResult

\* The invariant holds before Diagnose starts.
LEMMA InitRInv == Init => RInv
<1> SUFFICES ASSUME Init
             PROVE  RInv
  OBVIOUS
<1>1. /\ <<>> \in Seq(Endpoint) /\ <<>> \in Seq(BOOLEAN) /\ <<>> \in Seq(Reply)
      /\ Len(<<>>) = 0
  BY EmptySeq
<1>2. i \in 1..Len(eps) + 1
  BY <1>1 DEF Init
<1>3. retries \in 0..maxRetries /\ moves \in 0..MaxMoves
  BY RetryAssumption, MovesAssumption DEF Init
<1>4. TypeOK
  BY <1>1, <1>2, <1>3 DEF Init, TypeOK
<1>5. StartInv /\ PassInv /\ DoneInv
  BY DEF Init, StartInv, PassInv, DoneInv
<1>6. ErrorsInv
  BY <1>1 DEF Init, ErrorsInv
<1>7. QED
  BY <1>4, <1>5, <1>6 DEF RInv

\* A failing agent.Endpoints keeps the invariant.
LEMMA EndpointsFailRInv == RInv /\ EndpointsFail => RInv'
<1> SUFFICES ASSUME RInv, EndpointsFail
             PROVE  RInv'
  OBVIOUS
<1>1. TypeOK'
  BY DEF RInv, TypeOK, EndpointsFail, cluster, ghosts
<1>2. StartInv' /\ ErrorsInv' /\ PassInv' /\ DoneInv'
  BY DEF RInv, StartInv, ErrorsInv, PassInv, DoneInv, EndpointsFail, ghosts
<1>3. QED
  BY <1>1, <1>2 DEF RInv

\* The first pass begins with nothing found.
LEMMA StartRInv == ASSUME NEW es \in EpLists PROVE RInv /\ Start(es) => RInv'
<1> SUFFICES ASSUME RInv, Start(es)
             PROVE  RInv'
  OBVIOUS
<1>1. es \in Seq(Endpoint) /\ Len(es) \in Nat
  BY EpListsAssumption, LenProperties
<1>2. /\ pc' = "pass" /\ eps' = es /\ i' = 1 /\ shouldRetry' = FALSE /\ retries' = 0
      /\ result' = "none" /\ everDenied' = TRUE
      /\ errors' = initCheckResult(Len(es)) /\ asked' = [k \in 1..Len(es) |-> "ok"]
  BY DEF RInv, TypeOK, StartInv, Start
<1>3. /\ errors' \in Seq(BOOLEAN) /\ Len(errors') = Len(es)
      /\ \A k \in 1..Len(es) : ~errors'[k]
  BY <1>1, <1>2, FreshErrors
<1>4. asked' \in Seq(Reply) /\ Len(asked') = Len(es) /\ \A k \in 1..Len(es) : asked'[k] = "ok"
  BY <1>1, <1>2 DEF Reply
<1>5. TypeOK'
  BY <1>1, <1>2, <1>3, <1>4, RetryAssumption DEF RInv, TypeOK, Start, cluster
<1>6. ErrorsInv'
  BY <1>2, <1>3, <1>4 DEF ErrorsInv
<1>7. StartInv' /\ PassInv' /\ DoneInv'
  BY <1>2, <1>4, RetryAssumption DEF StartInv, PassInv, DoneInv
<1>8. QED
  BY <1>5, <1>6, <1>7 DEF RInv

\* One read keeps the invariant, whatever it returns.
LEMMA QueryRInv == ASSUME NEW r \in Reply PROVE RInv /\ Query(r) => RInv'
<1> SUFFICES ASSUME RInv, Query(r)
             PROVE  RInv'
  OBVIOUS
<1>1. /\ pc = "pass" /\ pc' = "pass" /\ eps' = eps /\ retries' = retries /\ result' = result
      /\ everDenied' = everDenied /\ i' = i + 1
      /\ errors' = [errors EXCEPT ![i] = errors[i] \/ r = "denied"]
      /\ asked' = [asked EXCEPT ![i] = r]
      /\ shouldRetry' = (shouldRetry \/ r = "denied")
      /\ i \in 1..Len(eps) /\ i \in Nat /\ Len(eps) \in Nat
  BY IndexRange DEF RInv, Query, RetryAfter
<1>2. /\ errors \in Seq(BOOLEAN) /\ Len(errors) = Len(eps)
      /\ asked \in Seq(Reply) /\ Len(asked) = Len(eps)
  BY DEF RInv, TypeOK
<1>3. /\ errors' \in Seq(BOOLEAN) /\ Len(errors') = Len(eps)
      /\ \A k \in 1..Len(eps) : k # i => errors'[k] = errors[k]
      /\ errors'[i] = (errors[i] \/ r = "denied")
  <2>1. (errors[i] \/ r = "denied") \in BOOLEAN
    OBVIOUS
  <2>2. QED
    BY <1>1, <1>2, <2>1, ExceptSeq
<1>4. /\ asked' \in Seq(Reply) /\ Len(asked') = Len(eps)
      /\ \A k \in 1..Len(eps) : k # i => asked'[k] = asked[k]
      /\ asked'[i] = r
  BY <1>1, <1>2, ExceptSeq
<1>5. TypeOK'
  <2>1. i' \in 1..(Len(eps) + 1) /\ shouldRetry' \in BOOLEAN
    BY <1>1
  <2>2. QED
    BY <1>1, <1>3, <1>4, <2>1 DEF RInv, TypeOK, Query, cluster
<1>6. \A k \in 1..Len(eps) : k < i' <=> k < i \/ k = i
  BY <1>1
<1>7. ErrorsInv'
  <2>1. SUFFICES ASSUME NEW k \in 1..Len(eps)
                 PROVE  errors'[k] <=> k < i' /\ asked'[k] = "denied"
    BY <1>1 DEF ErrorsInv
  <2>2. errors[k] <=> k < i /\ asked[k] = "denied"
    BY DEF RInv, ErrorsInv
  <2>3. CASE k = i
    <3>1. ~(k < i)
      BY <1>1, <2>3
    <3>2. QED
      BY <1>3, <1>4, <1>6, <2>2, <2>3, <3>1
  <2>4. CASE k # i
    BY <1>3, <1>4, <1>6, <2>2, <2>4
  <2>5. QED
    BY <2>3, <2>4
<1>8. PassInv'
  <2>1. /\ result = "none" /\ retries < maxRetries /\ everDenied
        /\ shouldRetry <=> \E k \in 1..Len(eps) : k < i /\ asked[k] = "denied"
    BY <1>1 DEF RInv, PassInv
  <2>2. \A k \in 1..Len(eps) : k < i => k # i
    BY <1>1
  <2>3. (\E k \in 1..Len(eps) : k < i' /\ asked'[k] = "denied") <=>
          (\E k \in 1..Len(eps) : k < i /\ asked[k] = "denied") \/ r = "denied"
    BY <1>1, <1>4, <1>6, <2>2
  <2>4. QED
    BY <1>1, <2>1, <2>3 DEF PassInv
<1>9. StartInv' /\ DoneInv'
  BY <1>1 DEF StartInv, DoneInv
<1>10. QED
  BY <1>5, <1>7, <1>8, <1>9 DEF RInv

\* Somebody has denied the pass just when the flag is set, at its end.
LEMMA PassEnd ==
  ASSUME RInv, pc = "pass", i > Len(eps)
  PROVE  /\ i = Len(eps) + 1
         /\ \A k \in 1..Len(eps) : k < i
         /\ shouldRetry <=> \E k \in 1..Len(eps) : asked[k] = "denied"
<1>1. i = Len(eps) + 1 /\ Len(eps) \in Nat
  BY IndexRange DEF RInv
<1>2. \A k \in 1..Len(eps) : k < i
  BY <1>1
<1>3. QED
  BY <1>1, <1>2 DEF RInv, PassInv

\* Another pass begins with nothing found, and everDenied still holds.
LEMMA RetryRInv == RInv /\ Retry => RInv'
<1> SUFFICES ASSUME RInv, Retry
             PROVE  RInv'
  OBVIOUS
<1>1. /\ pc = "pass" /\ pc' = "pass" /\ i > Len(eps) /\ eps' = eps /\ result' = result
      /\ asked' = asked /\ retries' = retries + 1 /\ i' = 1 /\ shouldRetry' = FALSE
      /\ errors' = initCheckResult(Len(eps)) /\ ~PassIsFinal
      /\ everDenied' = (everDenied /\ \E k \in 1..Len(eps) : asked[k] = "denied")
  BY DEF Retry, RetriesAfterPass, PassOver
<1>2. shouldRetry /\ retries \in Nat /\ maxRetries \in Nat /\ retries + 1 < maxRetries
  BY <1>1, RetryAssumption DEF PassIsFinal, RetriesAfterPass, RInv, TypeOK
<1>3. Len(eps) \in Nat
  BY IndexRange DEF RInv
<1>4. /\ errors' \in Seq(BOOLEAN) /\ Len(errors') = Len(eps)
      /\ \A k \in 1..Len(eps) : ~errors'[k]
  BY <1>1, <1>3, FreshErrors
<1>5. everDenied' = TRUE
  <2>1. everDenied /\ \E k \in 1..Len(eps) : asked[k] = "denied"
    BY <1>1, <1>2, PassEnd DEF RInv, PassInv
  <2>2. QED
    BY <1>1, <2>1
<1>6. TypeOK'
  <2>1. i' \in 1..(Len(eps) + 1) /\ retries' \in 0..maxRetries
    BY <1>1, <1>2, <1>3
  <2>2. QED
    BY <1>1, <1>4, <1>5, <2>1 DEF RInv, TypeOK, Retry, cluster
<1>7. \A k \in 1..Len(eps) : ~(k < 1)
  BY <1>3
<1>8. ErrorsInv'
  BY <1>1, <1>4, <1>7 DEF ErrorsInv
<1>9. PassInv'
  BY <1>1, <1>2, <1>5, <1>7 DEF RInv, PassInv
<1>10. StartInv' /\ DoneInv'
  BY <1>1 DEF StartInv, DoneInv
<1>11. QED
  BY <1>6, <1>8, <1>9, <1>10 DEF RInv

\* The end of the last pass keeps the invariant.
LEMMA FinishRInv == RInv /\ Finish => RInv'
<1> SUFFICES ASSUME RInv, Finish
             PROVE  RInv'
  OBVIOUS
<1>1. /\ pc = "pass" /\ pc' = "done" /\ i > Len(eps) /\ eps' = eps /\ i' = i
      /\ errors' = errors /\ shouldRetry' = shouldRetry /\ asked' = asked
      /\ retries' = retries + 1 /\ result' = Summary /\ PassIsFinal
      /\ everDenied' = (everDenied /\ \E k \in 1..Len(eps) : asked[k] = "denied")
  BY DEF Finish, RetriesAfterPass, PassOver
<1>2. /\ retries \in Nat /\ maxRetries \in Nat /\ retries < maxRetries /\ everDenied
      /\ shouldRetry => retries + 1 = maxRetries
  <2>1. retries \in Nat /\ maxRetries \in Nat /\ retries < maxRetries /\ everDenied
    BY <1>1, RetryAssumption DEF RInv, TypeOK, PassInv
  <2>2. shouldRetry => retries + 1 >= maxRetries
    BY <1>1 DEF PassIsFinal, RetriesAfterPass
  <2>3. QED
    BY <2>1, <2>2
<1>3. /\ i = Len(eps) + 1 /\ \A k \in 1..Len(eps) : k < i
      /\ shouldRetry <=> \E k \in 1..Len(eps) : asked[k] = "denied"
  BY <1>1, PassEnd
<1>4. TypeOK'
  <2>1. everDenied' \in BOOLEAN /\ retries' \in 0..maxRetries
    BY <1>1, <1>2
  <2>2. result' \in {"none", "failed", "Successful", "Unsuccessful"}
    BY <1>1 DEF Summary
  <2>3. QED
    BY <1>1, <2>1, <2>2 DEF RInv, TypeOK, Finish, cluster
<1>5. DoneInv'
  <2>1. Summary' = Summary
    BY <1>1 DEF Summary
  <2>2. ASSUME Summary = "Unsuccessful"
        PROVE  everDenied' /\ retries' = maxRetries
    <3>1. PICK k \in 1..Len(errors) : errors[k]
      BY <2>2 DEF Summary
    <3>2. k \in 1..Len(eps) /\ asked[k] = "denied"
      BY <3>1 DEF RInv, TypeOK, ErrorsInv
    <3>3. QED
      BY <1>1, <1>2, <1>3, <3>2
  <2>3. QED
    BY <1>1, <1>3, <2>1, <2>2 DEF DoneInv
<1>6. StartInv' /\ ErrorsInv' /\ PassInv'
  BY <1>1 DEF RInv, StartInv, ErrorsInv, PassInv
<1>7. QED
  BY <1>4, <1>5, <1>6 DEF RInv

\* Whatever the cluster does keeps the invariant.
LEMMA MoveRInv ==
  ASSUME NEW u \in SUBSET Endpoint, NEW l \in BOOLEAN, NEW g \in BOOLEAN
  PROVE  RInv /\ Move(u, l, g) => RInv'
<1> SUFFICES ASSUME RInv, Move(u, l, g)
             PROVE  RInv'
  OBVIOUS
<1>1. /\ linearizable' = linearizable /\ pc' = pc /\ eps' = eps /\ errors' = errors /\ i' = i
      /\ shouldRetry' = shouldRetry /\ retries' = retries /\ result' = result
      /\ asked' = asked /\ everDenied' = everDenied
      /\ up' = u /\ leader' = l /\ granted' = g /\ moves < MaxMoves /\ moves' = moves + 1
  BY DEF Move, plugin, ghosts
<1>2. moves' \in 0..MaxMoves
  BY <1>1, MovesAssumption DEF RInv, TypeOK
<1>3. TypeOK'
  BY <1>1, <1>2 DEF RInv, TypeOK
<1>4. StartInv' /\ ErrorsInv' /\ PassInv' /\ DoneInv'
  BY <1>1 DEF RInv, StartInv, ErrorsInv, PassInv, DoneInv, Summary
<1>5. QED
  BY <1>3, <1>4 DEF RInv

\* The invariant is inductive.
LEMMA NextRInv == RInv /\ [Next]_vars => RInv'
<1> SUFFICES ASSUME RInv, [Next]_vars
             PROVE  RInv'
  OBVIOUS
<1>1. CASE EndpointsFail
  BY <1>1, EndpointsFailRInv
<1>2. CASE \E es \in EpLists : Start(es)
  BY <1>2, StartRInv
<1>3. CASE Answered
  <2>1. Answer(eps[i]) \in Reply /\ Query(Answer(eps[i]))
    BY <1>3 DEF Answered, Answer, Reply
  <2>2. QED
    BY <2>1, QueryRInv
<1>4. CASE TimedOut
  <2>1. "error" \in Reply /\ Query("error")
    BY <1>4 DEF TimedOut, Reply
  <2>2. QED
    BY <2>1, QueryRInv
<1>5. CASE Retry
  BY <1>5, RetryRInv
<1>6. CASE Finish
  BY <1>6, FinishRInv
<1>7. CASE ClusterStep
  <2>1. up \subseteq Endpoint /\ leader \in BOOLEAN /\ granted \in BOOLEAN
    BY DEF RInv, TypeOK
  <2>2. PICK u \in SUBSET Endpoint, l \in BOOLEAN, g \in BOOLEAN : Move(u, l, g)
    BY <1>7, <2>1 DEF ClusterStep
  <2>3. QED
    BY <2>2, MoveRInv
<1>8. CASE UNCHANGED vars
  BY <1>8 DEF RInv, TypeOK, StartInv, ErrorsInv, PassInv, DoneInv, Summary,
              vars, plugin, cluster, ghosts
<1>9. QED
  BY <1>1, <1>2, <1>3, <1>4, <1>5, <1>6, <1>7, <1>8 DEF Next, PluginStep

\* It holds in every reachable state.
THEOREM RInvariant == Spec => []RInv
<1>1. Init => RInv
  BY InitRInv
<1>2. RInv /\ [Next]_vars => RInv'
  BY NextRInv
<1>3. QED
  BY <1>1, <1>2, PTL DEF Spec

-----------------------------------------------------------------------------
(* What follows from it.                                                   *)

\* A verdict is of a whole pass: the errors are its denials.
LEMMA VerdictErrors ==
  ASSUME RInv, result \in {"Successful", "Unsuccessful"}
  PROVE  /\ pc = "done" /\ result = Summary /\ Len(errors) = Len(eps)
         /\ \A k \in 1..Len(eps) : errors[k] <=> asked[k] = "denied"
<1>1. pc = "done"
  BY DEF RInv, TypeOK, StartInv, PassInv
<1>2. i = Len(eps) + 1 /\ result = Summary /\ Len(errors) = Len(eps)
  BY <1>1 DEF RInv, TypeOK, DoneInv
<1>3. \A k \in 1..Len(eps) : k < i
  BY <1>2, IndexRange DEF RInv
<1>4. QED
  BY <1>1, <1>2, <1>3 DEF RInv, ErrorsInv

\* The plugin's and the cluster's variables keep their types: no index is ever
\* out of its slice, and there are never more than maxRetries passes.
THEOREM TypeCorrect == Spec => []TypeOK
<1>1. RInv => TypeOK
  BY DEF RInv
<1>2. QED
  BY <1>1, RInvariant, PTL

\* An unsuccessful verdict is earned in every one of the maxRetries passes, and
\* shows the denials of the last one only.
THEOREM UnsuccessfulIsEarned == Spec => []UnsuccessfulIsPersistent
<1>1. RInv => UnsuccessfulIsPersistent
  <2>1. SUFFICES ASSUME RInv, result = "Unsuccessful"
                 PROVE  /\ everDenied /\ retries = maxRetries
                        /\ \A k \in 1..Len(eps) : errors[k] = (asked[k] = "denied")
    BY DEF UnsuccessfulIsPersistent
  <2>2. /\ pc = "done" /\ Len(errors) = Len(eps)
        /\ \A k \in 1..Len(eps) : errors[k] <=> asked[k] = "denied"
    BY <2>1, VerdictErrors
  <2>3. everDenied /\ retries = maxRetries
    BY <2>1, <2>2 DEF RInv, DoneInv
  <2>4. \A k \in 1..Len(eps) : errors[k] \in BOOLEAN
    BY <2>1, <2>2, ElementOfSeq DEF RInv, TypeOK
  <2>5. QED
    BY <2>2, <2>3, <2>4
<1>2. QED
  BY <1>1, RInvariant, PTL

\* After a successful verdict nobody has denied the last pass.
THEOREM SuccessfulIsRight == Spec => []SuccessfulWasNotDenied
<1>1. RInv => SuccessfulWasNotDenied
  <2>1. SUFFICES ASSUME RInv, result = "Successful", NEW k \in 1..Len(eps)
                 PROVE  asked[k] # "denied"
    BY DEF SuccessfulWasNotDenied
  <2>2. result = Summary /\ Len(errors) = Len(eps) /\ (errors[k] <=> asked[k] = "denied")
    BY <2>1, VerdictErrors
  <2>3. QED
    BY <2>1, <2>2 DEF Summary
<1>2. QED
  BY <1>1, RInvariant, PTL

=============================================================================
