--------------------------- MODULE EpStatus_proofs ---------------------------
(***************************************************************************)
(* Proofs about EpStatus, for every set of endpoints, every endpoint list, *)
(* every number of retries and every sequence of replies; and about the    *)
(* plugin in front of a moving cluster: the composition still implements   *)
(* the one-pass verdict, and a transient alarm means that every one of the *)
(* maxRetries passes was disturbed.                                        *)
(***************************************************************************)
EXTENDS EpStatusCluster, TLAPS

-----------------------------------------------------------------------------
(* How one more reply changes what a pass has found.                       *)

\* B is A with the reply r at position k; later positions do not matter.
OneMore(A, k, r, B) ==
  /\ k \in Nat \ {0}
  /\ r \in Reply
  /\ B[k] = r
  /\ \A j \in 1..(k - 1) : B[j] = A[j]

\* One more answer adds its own position to the unreachable ones if it is nil.
LEMMA UnreachableStep ==
  ASSUME NEW A, NEW k, NEW r, NEW B, OneMore(A, k, r, B)
  PROVE  Verdict!Unreachable(B, k) =
           Verdict!Unreachable(A, k - 1) \cup (IF r = Nil THEN {k} ELSE {})
  BY DEF OneMore, Verdict!Unreachable

\* One more answer adds its own position to the erroneous ones if it carries
\* errors.
LEMMA ErroneousStep ==
  ASSUME NEW A, NEW k, NEW r, NEW B, OneMore(A, k, r, B)
  PROVE  Verdict!Erroneous(B, k) =
           Verdict!Erroneous(A, k - 1) \cup (IF r # Nil /\ r.errs THEN {k} ELSE {})
  BY DEF OneMore, Verdict!Erroneous

\* r is compared with the first reply, and the hard information differs.
NewHard(A, k, r) == k > 1 /\ r # Nil /\ ~r.errs /\ ~compareHardInfo(A[1], r)

\* One more answer is a hard mismatch just when the loop compares it with the
\* first reply and finds it different.
LEMMA HardStep ==
  ASSUME NEW A, NEW k, NEW r, NEW B, OneMore(A, k, r, B)
  PROVE  Verdict!HardMismatch(B, k) =
           Verdict!HardMismatch(A, k - 1) \cup (IF NewHard(A, k, r) THEN {k} ELSE {})
  BY DEF OneMore, NewHard, Verdict!HardMismatch, Verdict!Compared,
         Verdict!compareHardInfo, compareHardInfo

\* r is a definitive finding.
NewDefinitive(A, k, r) == (r # Nil /\ r.errs) \/ NewHard(A, k, r)

\* Hence what one more answer does to the definitive findings, which are what
\* the flag shouldRetry records.
LEMMA DefinitiveStep ==
  ASSUME NEW A, NEW k, NEW r, NEW B, OneMore(A, k, r, B)
  PROVE  Verdict!Definitive(B, k) =
           Verdict!Definitive(A, k - 1) \cup (IF NewDefinitive(A, k, r) THEN {k} ELSE {})
<1>1. Verdict!Erroneous(B, k) =
        Verdict!Erroneous(A, k - 1) \cup (IF r # Nil /\ r.errs THEN {k} ELSE {})
  BY ErroneousStep
<1>2. Verdict!HardMismatch(B, k) =
        Verdict!HardMismatch(A, k - 1) \cup (IF NewHard(A, k, r) THEN {k} ELSE {})
  BY HardStep
<1>3. QED
  BY <1>1, <1>2, Zenon DEF Verdict!Definitive, NewDefinitive

\* The positions before k see the same definitive findings.
LEMMA DefinitiveBefore ==
  ASSUME NEW A, NEW k, NEW r, NEW B, OneMore(A, k, r, B), NEW j \in 0..(k - 1)
  PROVE  Verdict!Definitive(B, j) = Verdict!Definitive(A, j)
<1>1. k \in Nat /\ j \in Nat /\ \A l \in 1..j : B[l] = A[l]
  BY DEF OneMore
<1>2. Verdict!Erroneous(B, j) = Verdict!Erroneous(A, j)
  BY <1>1 DEF Verdict!Erroneous
<1>3. Verdict!HardMismatch(B, j) = Verdict!HardMismatch(A, j)
  BY <1>1 DEF Verdict!HardMismatch, Verdict!Compared, Verdict!compareHardInfo
<1>4. QED
  BY <1>2, <1>3 DEF Verdict!Definitive

\* r is compared with the first reply, nothing definitive was found before,
\* and only the soft information differs.
NewSoft(A, k, r) ==
  /\ k > 1 /\ r # Nil /\ ~r.errs /\ compareHardInfo(A[1], r)
  /\ Verdict!Definitive(A, k - 1) = {}
  /\ ~compareSoftInfo(A[1], r)

\* One more answer is a soft mismatch just when nothing definitive was found up
\* to it and it differs from the first reply.
LEMMA SoftStep ==
  ASSUME NEW A, NEW k, NEW r, NEW B, OneMore(A, k, r, B)
  PROVE  Verdict!SoftMismatch(B, k) =
           Verdict!SoftMismatch(A, k - 1) \cup (IF NewSoft(A, k, r) THEN {k} ELSE {})
<1>1. ASSUME NEW j \in 1..(k - 1)
      PROVE  j \in Verdict!SoftMismatch(B, k) <=> j \in Verdict!SoftMismatch(A, k - 1)
  <2>1. Verdict!Definitive(B, j) = Verdict!Definitive(A, j)
    BY DefinitiveBefore DEF OneMore
  <2>2. k \in Nat /\ B[j] = A[j] /\ B[1] = A[1]
    BY DEF OneMore
  <2>3. QED
    BY <2>1, <2>2 DEF Verdict!SoftMismatch, Verdict!Compared, Verdict!compareSoftInfo
<1>2. k \in Verdict!SoftMismatch(B, k) <=> NewSoft(A, k, r)
  <2>1. Verdict!Definitive(B, k) = {} <=>
          Verdict!Definitive(A, k - 1) = {} /\ ~NewDefinitive(A, k, r)
    <3>1. Verdict!Definitive(B, k) =
            Verdict!Definitive(A, k - 1) \cup (IF NewDefinitive(A, k, r) THEN {k} ELSE {})
      BY DefinitiveStep
    <3>2. QED
      BY <3>1
  <2>2. k \in Nat \ {0} /\ B[k] = r /\ (k > 1 => B[1] = A[1])
    BY DEF OneMore
  <2>3. QED
    BY <2>1, <2>2
       DEF Verdict!SoftMismatch, Verdict!Compared, Verdict!compareSoftInfo,
           compareSoftInfo, NewSoft, NewHard, NewDefinitive
<1>3. /\ Verdict!SoftMismatch(B, k) \subseteq 1..k
      /\ Verdict!SoftMismatch(A, k - 1) \subseteq 1..(k - 1)
  BY DEF OneMore, Verdict!SoftMismatch, Verdict!Compared
<1>4. k \notin 1..(k - 1) /\ \A j \in 1..k : j = k \/ j \in 1..(k - 1)
  BY DEF OneMore
<1>5. \A j \in 1..(k - 1) : j \in 1..k
  BY DEF OneMore
<1>6. QED
  BY <1>1, <1>2, <1>3, <1>4, <1>5, Zenon

\* One iteration of the loop adds to the findings of the replies so far just
\* what the plugin appends to its summary.
LEMMA PassFindingsStep ==
  ASSUME NEW A, NEW k, NEW r, NEW B, OneMore(A, k, r, B)
  PROVE  Verdict!PassFindings(B, k) =
           Verdict!PassFindings(A, k - 1) \cup
             (IF r = Nil THEN {<<"failed", k>>}
              ELSE IF r.errs THEN {<<"errors", k>>}
              ELSE IF NewHard(A, k, r) THEN {<<"hard", k>>}
              ELSE IF NewSoft(A, k, r) THEN {<<"soft", k>>}
              ELSE {})
<1>1. Verdict!Unreachable(B, k) =
        Verdict!Unreachable(A, k - 1) \cup (IF r = Nil THEN {k} ELSE {})
  BY UnreachableStep
<1>2. Verdict!Erroneous(B, k) =
        Verdict!Erroneous(A, k - 1) \cup (IF r # Nil /\ r.errs THEN {k} ELSE {})
  BY ErroneousStep
<1>3. Verdict!HardMismatch(B, k) =
        Verdict!HardMismatch(A, k - 1) \cup (IF NewHard(A, k, r) THEN {k} ELSE {})
  BY HardStep
<1>4. Verdict!SoftMismatch(B, k) =
        Verdict!SoftMismatch(A, k - 1) \cup (IF NewSoft(A, k, r) THEN {k} ELSE {})
  BY SoftStep
<1>5. NewHard(A, k, r) => r # Nil /\ ~r.errs /\ ~NewSoft(A, k, r)
  BY DEF NewHard, NewSoft
<1>6. NewSoft(A, k, r) => r # Nil /\ ~r.errs
  BY DEF NewSoft
<1>7. QED
  BY <1>1, <1>2, <1>3, <1>4, <1>5, <1>6 DEF Verdict!PassFindings

\* A pass that has asked nobody has found nothing.
LEMMA EmptyPass ==
  ASSUME NEW A
  PROVE  Verdict!PassFindings(A, 0) = {} /\ Verdict!Definitive(A, 0) = {}
  BY DEF Verdict!PassFindings, Verdict!Definitive, Verdict!Unreachable,
         Verdict!Erroneous, Verdict!HardMismatch, Verdict!SoftMismatch,
         Verdict!Compared

-----------------------------------------------------------------------------
(* The inductive invariant.                                                *)

\* The three ways a result is built give results.
LEMMA ResultType ==
  /\ NoResult \in Result
  /\ \A kd \in FindingKind, n \in Nat : FailedResult(<<kd, n>>) \in Result
  /\ \A found \in SUBSET Finding : CheckResult(found) \in Result
<1>1. \A found \in SUBSET Finding, kind \in {"none", "failed", "checked"} :
        [kind |-> kind, findings |-> found] \in Result
  BY DEF Result
<1>2. \A kd \in FindingKind, n \in Nat : {<<kd, n>>} \in SUBSET Finding
  BY DEF Finding
<1>3. {} \in SUBSET Finding
  OBVIOUS
<1>4. QED
  BY <1>1, <1>2, <1>3 DEF NoResult, FailedResult, CheckResult

\* The invariant holds before Diagnose starts.
LEMMA InitIInv == Init => IInv
<1> SUFFICES ASSUME Init
             PROVE  IInv
  OBVIOUS
<1>1. <<>> \in Seq(Endpoint) /\ <<>> \in Seq(Reply) /\ {} \in SUBSET Finding
  OBVIOUS
<1>2. NoResult \in Result
  BY ResultType
<1>3. TypeOK
  <2>1. 0 \in 0..maxRetries /\ 1 \in Nat \ {0}
    BY RetryAssumption
  <2>2. QED
    BY <1>1, <1>2, <2>1, Zenon DEF Init, TypeOK
<1>4. QED
  BY <1>3 DEF Init, IInv, StartInv, PassInv, DoneInv

\* A failing agent.Endpoints keeps the invariant.
LEMMA EndpointsFailIInv == IInv /\ EndpointsFail => IInv'
<1> SUFFICES ASSUME IInv, EndpointsFail
             PROVE  IInv'
  OBVIOUS
<1>1. result' \in Result
  BY ResultType DEF EndpointsFail, FindingKind
<1>2. TypeOK'
  BY <1>1 DEF IInv, TypeOK, EndpointsFail
<1>3. StartInv' /\ PassInv' /\ DoneInv'
  BY DEF IInv, StartInv, PassInv, DoneInv, EndpointsFail
<1>4. QED
  BY <1>2, <1>3 DEF IInv

\* The start of the first pass establishes the invariant of the loop.
LEMMA StartIInv == ASSUME NEW es \in EpLists PROVE IInv /\ Start(es) => IInv'
<1> SUFFICES ASSUME IInv, Start(es)
             PROVE  IInv'
  OBVIOUS
<1>1. es \in Seq(Endpoint) /\ Len(es) \in Nat
  BY EpListsAssumption
<1>2. list' = [k \in 1..Len(es) |-> Nil]
  BY DEF Start, initCheckResult
<1>3. list' \in Seq(Reply) /\ Len(list') = Len(es)
  BY <1>1, <1>2 DEF Reply
<1>4. TypeOK'
  BY <1>1, <1>3 DEF IInv, TypeOK, Start
<1>5. /\ pc = "start" /\ pc' = "pass" /\ eps' = es /\ i' = 1 /\ summary' = {}
      /\ shouldRetry' = TRUE /\ err' = FALSE /\ retries' = 0 /\ result' = NoResult
  BY DEF IInv, TypeOK, StartInv, Start
<1>6. PassInv'
  <2>1. Verdict!PassFindings(list', 0) = {} /\ Verdict!Definitive(list', 0) = {}
    BY EmptyPass
  <2>2. /\ i' - 1 = 0 /\ i' \in 1..(Len(eps') + 1) /\ ~(i' > 1)
        /\ retries' < maxRetries
    BY <1>1, <1>5, RetryAssumption
  <2>3. QED
    BY <1>3, <1>5, <2>1, <2>2 DEF PassInv
<1>7. StartInv' /\ DoneInv'
  BY <1>5 DEF StartInv, DoneInv
<1>8. QED
  BY <1>4, <1>6, <1>7 DEF IInv

\* One status call keeps the invariant: summary and flag follow the replies.
LEMMA QueryIInv == ASSUME NEW r \in Reply PROVE IInv /\ Query(r) => IInv'
<1> SUFFICES ASSUME IInv, Query(r)
             PROVE  IInv'
  OBVIOUS
<1>1. /\ pc = "pass" /\ pc' = "pass" /\ i' = i + 1
      /\ i \in 1..Len(eps) /\ i \in Nat \ {0}
      /\ Len(list) = Len(eps) /\ eps' = eps /\ retries' = retries
      /\ result' = result /\ result = NoResult /\ err' = (r = Nil)
      /\ list' = [list EXCEPT ![i] = r]
      /\ retries < maxRetries
  BY DEF IInv, TypeOK, PassInv, Query, ErrAfter
<1>2. list' \in Seq(Reply) /\ Len(list') = Len(eps) /\ list'[i] = r
  BY <1>1 DEF IInv, TypeOK
<1>3. OneMore(list, i, r, list')
  BY <1>1, <1>2 DEF OneMore, IInv, TypeOK
<1>4. FindingsOf(r) \in SUBSET Finding
  BY <1>1 DEF FindingsOf, Finding, FindingKind
<1>5. TypeOK'
  BY <1>1, <1>2, <1>4 DEF IInv, TypeOK, Query
<1>6. summary' = Verdict!PassFindings(list', i)
  <2>1. summary' = Verdict!PassFindings(list, i - 1) \cup FindingsOf(r)
    BY <1>1 DEF IInv, PassInv, Query
  <2>2. shouldRetry = (Verdict!Definitive(list, i - 1) = {})
    BY <1>1 DEF IInv, PassInv
  <2>3. FindingsOf(r) =
          IF r = Nil THEN {<<"failed", i>>}
          ELSE IF r.errs THEN {<<"errors", i>>}
          ELSE IF NewHard(list, i, r) THEN {<<"hard", i>>}
          ELSE IF NewSoft(list, i, r) THEN {<<"soft", i>>}
          ELSE {}
    <3>1. i > 1 <=> i # 1
      BY <1>1
    <3>2. QED
      BY <2>2, <3>1, Zenon DEF FindingsOf, NewHard, NewSoft
  <2>4. QED
    BY <1>3, <2>1, <2>3, PassFindingsStep
<1>7. shouldRetry' = (Verdict!Definitive(list', i) = {})
  <2>1. Verdict!Definitive(list', i) =
          Verdict!Definitive(list, i - 1) \cup (IF NewDefinitive(list, i, r) THEN {i} ELSE {})
    BY <1>3, DefinitiveStep
  <2>2. FindingsOf(r) \cap {<<"errors", i>>, <<"hard", i>>} = {} <=> ~NewDefinitive(list, i, r)
    <3>1. i > 1 <=> i # 1
      BY <1>1
    <3>2. NewDefinitive(list, i, r) =>
            FindingsOf(r) = {<<"errors", i>>} \/ FindingsOf(r) = {<<"hard", i>>}
      BY <3>1, Zenon DEF FindingsOf, NewDefinitive, NewHard
    <3>3. ~NewDefinitive(list, i, r) =>
            FindingsOf(r) \in {{<<"failed", i>>}, {<<"soft", i>>}, {}}
      BY <3>1, Zenon DEF FindingsOf, NewDefinitive, NewHard
    <3>4. CASE NewDefinitive(list, i, r)
      BY <3>2, <3>4, Zenon
    <3>5. CASE ~NewDefinitive(list, i, r)
      <4>1. /\ <<"failed", i>> \notin {<<"errors", i>>, <<"hard", i>>}
            /\ <<"soft", i>> \notin {<<"errors", i>>, <<"hard", i>>}
        OBVIOUS
      <4>2. QED
        BY <3>3, <3>5, <4>1, Zenon
    <3>6. QED
      BY <3>4, <3>5
  <2>3. QED
    BY <1>1, <2>1, <2>2 DEF IInv, PassInv, Query
<1>8. PassInv'
  <2>1. i' - 1 = i /\ i' \in 1..(Len(eps') + 1) /\ eps' # <<>>
    BY <1>1 DEF IInv, TypeOK
  <2>2. QED
    BY <1>1, <1>2, <1>6, <1>7, <2>1 DEF PassInv
<1>9. StartInv' /\ DoneInv'
  BY <1>1 DEF StartInv, DoneInv
<1>10. QED
  BY <1>5, <1>8, <1>9 DEF IInv

\* Starting over keeps the invariant: initCheckResult clears what it must.
LEMMA RetryIInv == IInv /\ Retry => IInv'
<1> SUFFICES ASSUME IInv, Retry
             PROVE  IInv'
  OBVIOUS
<1>1. /\ pc = "pass" /\ pc' = "pass" /\ i' = 1 /\ summary' = {} /\ eps' = eps
      /\ Len(eps) \in Nat /\ result' = result /\ result = NoResult
      /\ shouldRetry' = TRUE /\ retries' = retries + 1 /\ retries' < maxRetries
      /\ err' = err
  BY RetryAssumption
     DEF IInv, TypeOK, PassInv, Retry, PassIsFinal, RetriesAfterPass, initCheckResult
<1>2. list' = [k \in 1..Len(eps) |-> Nil]
  BY DEF Retry, initCheckResult
<1>3. list' \in Seq(Reply) /\ Len(list') = Len(eps)
  BY <1>1, <1>2 DEF Reply
<1>4. TypeOK'
  BY <1>1, <1>3, RetryAssumption DEF IInv, TypeOK
<1>5. PassInv'
  <2>1. Verdict!PassFindings(list', 0) = {} /\ Verdict!Definitive(list', 0) = {}
    BY EmptyPass
  <2>2. i' - 1 = 0 /\ i' \in 1..(Len(eps') + 1) /\ ~(i' > 1)
    BY <1>1
  <2>3. eps' = <<>> => ~err'
    BY <1>1 DEF IInv, PassInv
  <2>4. QED
    BY <1>1, <1>3, <2>1, <2>2, <2>3 DEF PassInv
<1>6. StartInv' /\ DoneInv'
  BY <1>1 DEF StartInv, DoneInv
<1>7. QED
  BY <1>4, <1>5, <1>6 DEF IInv

\* The step that gives the result gives the verdict of the last pass.
LEMMA FinishGivesJudge == IInv /\ Finish => result' = Verdict!Judge(list)
<1> SUFFICES ASSUME IInv, Finish
             PROVE  result' = Verdict!Judge(list)
  OBVIOUS
<1>1. /\ pc = "pass" /\ Len(list) = Len(eps) /\ Len(eps) \in Nat /\ i = Len(eps) + 1
  BY DEF IInv, TypeOK, PassInv, Finish
<1>2. summary' = Verdict!PassFindings(list, Len(list)) \cup Verdict!DbFindings(list)
  <2>1. summary = Verdict!PassFindings(list, Len(list))
    BY <1>1 DEF IInv, PassInv
  <2>2. checkDBSize = Verdict!DbFindings(list)
    BY DEF checkDBSize, Verdict!DbFindings, Verdict!DbTooLarge, DbTooLarge
  <2>3. QED
    BY <2>1, <2>2 DEF Finish
<1>3. err <=> Len(list) > 0 /\ list[Len(list)] = Nil
  <2>1. CASE Len(eps) > 0
    BY <1>1, <2>1 DEF IInv, PassInv, TypeOK
  <2>2. CASE Len(eps) = 0
    BY <1>1, <2>2 DEF IInv, PassInv, TypeOK
  <2>3. QED
    BY <1>1, <2>1, <2>2
<1>4. QED
  BY <1>1, <1>2, <1>3
     DEF Finish, Verdict!Judge, FailedResult, CheckResult,
         Verdict!FailedResult, Verdict!CheckResult

\* The end of the last pass keeps the invariant.
LEMMA FinishIInv == IInv /\ Finish => IInv'
<1> SUFFICES ASSUME IInv, Finish
             PROVE  IInv'
  OBVIOUS
<1>1. /\ pc = "pass" /\ pc' = "done" /\ list' = list /\ eps' = eps
      /\ Len(list) = Len(eps) /\ retries < maxRetries /\ Len(eps) \in Nat
  BY DEF IInv, TypeOK, PassInv, Finish
<1>2. summary' \in SUBSET Finding
  <2>1. checkDBSize \in SUBSET Finding
    BY DEF checkDBSize, Finding, FindingKind
  <2>2. QED
    BY <2>1 DEF IInv, TypeOK, Finish
<1>3. result' \in Result
  BY <1>1, <1>2, ResultType DEF Finish, FindingKind
<1>4. TypeOK'
  BY <1>1, <1>2, <1>3, RetryAssumption DEF IInv, TypeOK, Finish, RetriesAfterPass
<1>5. DoneInv'
  BY <1>1, FinishGivesJudge DEF DoneInv, Verdict!Judge, Verdict!PassFindings,
     Verdict!DbFindings
<1>6. StartInv' /\ PassInv'
  BY <1>1 DEF StartInv, PassInv
<1>7. QED
  BY <1>4, <1>5, <1>6 DEF IInv

\* A stuttering step keeps the invariant.
LEMMA StutterIInv == IInv /\ UNCHANGED vars => IInv'
<1> SUFFICES ASSUME IInv, UNCHANGED vars
             PROVE  IInv'
  OBVIOUS
<1>1. TypeOK'
  BY DEF IInv, TypeOK, vars
<1>2. StartInv'
  BY DEF IInv, StartInv, vars
<1>3. PassInv'
  BY DEF IInv, PassInv, vars
<1>4. DoneInv'
  BY DEF IInv, DoneInv, vars
<1>5. QED
  BY <1>1, <1>2, <1>3, <1>4 DEF IInv

\* The state of the loop is always a function of the current pass's replies.
THEOREM InductiveInvariant == Spec => []IInv
<1>1. IInv /\ [Next]_vars => IInv'
  BY EndpointsFailIInv, StartIInv, QueryIInv, RetryIInv, FinishIInv, StutterIInv
     DEF Next
<1>2. QED
  BY <1>1, InitIInv, PTL DEF Spec

\* Every variable keeps its type; in particular no more than maxRetries passes
\* are ever counted.
THEOREM TypeCorrect == Spec => []TypeOK
<1>1. IInv => TypeOK
  BY DEF IInv
<1>2. QED
  BY <1>1, InductiveInvariant, PTL

-----------------------------------------------------------------------------
(* "Successful" is earned.                                                 *)

\* A pass that found nothing: everybody answered, and agrees with the first.
LEMMA CleanPass ==
  ASSUME NEW A, NEW n \in Nat, Verdict!PassFindings(A, n) = {}
  PROVE  \A j \in 1..n : /\ A[j] # Nil /\ ~A[j].errs
                         /\ A[j].hard = A[1].hard /\ A[j].soft = A[1].soft
<1>1. /\ Verdict!Unreachable(A, n) = {} /\ Verdict!Erroneous(A, n) = {}
      /\ Verdict!HardMismatch(A, n) = {} /\ Verdict!SoftMismatch(A, n) = {}
  BY Zenon DEF Verdict!PassFindings
<1>2. \A j \in 1..n : A[j] # Nil /\ ~A[j].errs
  BY <1>1 DEF Verdict!Unreachable, Verdict!Erroneous
<1>3. \A j \in 2..n : compareHardInfo(A[1], A[j])
  BY <1>1, <1>2 DEF Verdict!HardMismatch, Verdict!Compared,
                    Verdict!compareHardInfo, compareHardInfo
<1>4. \A j \in 2..n : Verdict!Definitive(A, j) = {}
  BY <1>2, <1>3 DEF Verdict!Definitive, Verdict!Erroneous, Verdict!HardMismatch,
                    Verdict!Compared, Verdict!compareHardInfo, compareHardInfo
<1>5. \A j \in 2..n : compareSoftInfo(A[1], A[j])
  BY <1>1, <1>2, <1>4 DEF Verdict!SoftMismatch, Verdict!Compared,
                          Verdict!compareSoftInfo, compareSoftInfo
<1>6. QED
  BY <1>2, <1>3, <1>5 DEF compareHardInfo, compareSoftInfo

\* The inductive invariant is strong enough for SuccessIsSound.
LEMMA IInvSuccessIsSound == IInv => SuccessIsSound
<1> SUFFICES ASSUME IInv, pc = "done", Successful(result)
             PROVE  /\ Len(list) = Len(eps)
                    /\ \A j \in 1..Len(eps) :
                         list[j] # Nil /\ ~list[j].errs /\ ~DbTooLarge(list[j].db)
                    /\ \A j, k \in 1..Len(eps) :
                         list[j].hard = list[k].hard /\ list[j].soft = list[k].soft
  BY DEF SuccessIsSound
<1>1. Len(list) = Len(eps) /\ Len(list) \in Nat /\ result = Verdict!Judge(list)
  BY DEF IInv, TypeOK, DoneInv, Successful, CheckResult, FailedResult
<1>2. Verdict!PassFindings(list, Len(list)) = {} /\ Verdict!DbFindings(list) = {}
  BY <1>1 DEF Verdict!Judge, Successful, CheckResult, Verdict!CheckResult,
              Verdict!FailedResult
<1>3. \A j \in 1..Len(list) :
        /\ list[j] # Nil /\ ~list[j].errs
        /\ list[j].hard = list[1].hard /\ list[j].soft = list[1].soft
  BY <1>1, <1>2, CleanPass
<1>4. \A j \in 1..Len(list) : ~DbTooLarge(list[j].db)
  BY <1>2, <1>3 DEF Verdict!DbFindings, Verdict!DbTooLarge, DbTooLarge
<1>5. QED
  BY <1>1, <1>3, <1>4

\* When the plugin says "Successful", every endpoint of the list answered in
\* one and the same pass, without errors, and all of them agree.
THEOREM SuccessSound == Spec => []SuccessIsSound
  BY InductiveInvariant, IInvSuccessIsSound, PTL

\* An endpoint's errors and a hard inconsistency survive every retry.
THEOREM DefinitiveKept == Spec => DefinitiveFindingKept
<1> DEFINE Kept == \A f \in summary : f[1] \in {"errors", "hard"} => f \in summary'
<1>1. IInv /\ [Next]_vars => [Kept]_vars
  <2> SUFFICES ASSUME IInv, Next
               PROVE  Kept
    OBVIOUS
  <2>1. CASE EndpointsFail
    BY <2>1 DEF EndpointsFail
  <2>2. ASSUME NEW es \in EpLists, Start(es)
        PROVE  Kept
    BY <2>2 DEF Start
  <2>3. ASSUME NEW r \in Reply, Query(r)
        PROVE  Kept
    BY <2>3 DEF Query
  <2>4. CASE Retry
    <3>a. Len(eps) \in Nat /\ i \in Nat /\ i \in 1..Len(eps) + 1 /\ i > Len(eps)
      BY <2>4 DEF IInv, TypeOK, PassInv, Retry
    <3>b. i - 1 = Len(eps)
      BY <3>a
    <3>c. shouldRetry
      BY <2>4 DEF Retry, PassIsFinal
    <3>d. shouldRetry = (Verdict!Definitive(list, i - 1) = {})
      BY <2>4 DEF IInv, PassInv, Retry
    <3>1. Len(eps) \in Nat /\ i - 1 = Len(eps) /\ Verdict!Definitive(list, Len(eps)) = {}
      BY <3>a, <3>b, <3>c, <3>d
    <3>2. summary = Verdict!PassFindings(list, Len(eps))
      BY <2>4, <3>1 DEF IInv, PassInv, Retry
    <3>3. \A f \in summary : f[1] \notin {"errors", "hard"}
      BY <3>1, <3>2 DEF Verdict!PassFindings, Verdict!Definitive
    <3>4. QED
      BY <3>3
  <2>5. CASE Finish
    BY <2>5 DEF Finish
  <2>6. QED
    BY <2>1, <2>2, <2>3, <2>4, <2>5 DEF Next
<1>2. QED
  BY <1>1, InductiveInvariant, PTL DEF Spec, DefinitiveFindingKept

-----------------------------------------------------------------------------
(* The loop implements the one-pass verdict.                               *)

\* Diagnose starts where the abstract verdict starts.
LEMMA InitRefines == Init => Verdict!Init
  BY DEF Init, Verdict!Init, NoResult, Verdict!NoResult

\* Every step of Diagnose is a step of the abstract verdict or leaves it alone:
\* only the two steps that give the result show.
LEMMA StepRefines == IInv /\ IInv' /\ [Next]_vars => [Verdict!Next]_Verdict!vars
<1> SUFFICES ASSUME IInv, IInv', [Next]_vars
             PROVE  [Verdict!Next]_Verdict!vars
  OBVIOUS
<1>1. CASE EndpointsFail
  <2>1. Verdict!NoEndpoints
    BY <1>1 DEF EndpointsFail, Verdict!NoEndpoints, IInv, StartInv,
                NoResult, Verdict!NoResult, FailedResult, Verdict!FailedResult
  <2>2. QED
    BY <2>1 DEF Verdict!Next
<1>2. ASSUME NEW es \in EpLists, Start(es)
      PROVE  UNCHANGED Verdict!vars
  BY <1>2 DEF Start, Verdict!vars
<1>3. ASSUME NEW r \in Reply, Query(r)
      PROVE  UNCHANGED Verdict!vars
  BY <1>3 DEF Query, Verdict!vars
<1>4. CASE Retry
  BY <1>4 DEF Retry, Verdict!vars
<1>5. CASE Finish
  <2>1. pc' = "done" /\ list' = list /\ result = NoResult
    BY <1>5 DEF IInv, PassInv, Finish
  <2>2. list \in Seq(Verdict!Reply)
    BY DEF IInv, TypeOK, Reply, Verdict!Reply, Status, Verdict!Status
  <2>3. result' = Verdict!Judge(list)
    BY <1>5, FinishGivesJudge
  <2>4. Verdict!Conclude
    BY <2>1, <2>2, <2>3 DEF Verdict!Conclude, NoResult, Verdict!NoResult
  <2>5. QED
    BY <2>4 DEF Verdict!Next
<1>6. CASE UNCHANGED vars
  BY <1>6 DEF vars, Verdict!vars
<1>7. QED
  BY <1>1, <1>2, <1>3, <1>4, <1>5, <1>6 DEF Next

\* Diagnose, with its loop and retries, only ever returns the verdict of one
\* complete pass over the endpoints.
THEOREM Implementation == Spec => ImplementsVerdict
  BY InductiveInvariant, InitRefines, StepRefines, PTL
     DEF Spec, ImplementsVerdict, Verdict!Spec

-----------------------------------------------------------------------------
(* The types of the cluster's variables, as far as a reply depends on them. *)

ClusterTypes ==
  /\ up \subseteq Endpoint
  /\ ver \in [Endpoint -> HardInfo]
  /\ pos \in [Endpoint -> SoftInfo]
  /\ head \in SoftInfo
  /\ leader \in BOOLEAN

\* The cluster starts well typed.
LEMMA InitClusterTypes == CInit => ClusterTypes
  BY SoftAssumption DEF CInit, ClusterTypes

\* A step of the cluster leaves the plugin alone and its own types intact.
LEMMA ClusterStepTypes ==
  ClusterTypes /\ ClusterStep => UNCHANGED vars /\ ClusterTypes'
<1> SUFFICES ASSUME ClusterTypes, ClusterStep
             PROVE  UNCHANGED vars /\ ClusterTypes'
  OBVIOUS
<1> USE DEF ClusterTypes, Move
<1>1. CASE Commit
  BY <1>1 DEF Commit
<1>2. CASE LoseLeader
  BY <1>2 DEF LoseLeader
<1>3. CASE Elect
  BY <1>3 DEF Elect
<1>4. ASSUME NEW n \in Endpoint, Apply(n)
      PROVE  UNCHANGED vars /\ ClusterTypes'
  <2>1. pos[n] \in Nat /\ head \in Nat /\ pos[n] < head /\ 0..head \subseteq SoftInfo
    BY <1>4, SoftAssumption DEF Apply
  <2>2. pos[n] + 1 \in SoftInfo
    BY <2>1
  <2>3. QED
    BY <1>4, <2>2 DEF Apply
<1>5. ASSUME NEW n \in Endpoint, Crash(n)
      PROVE  UNCHANGED vars /\ ClusterTypes'
  BY <1>5 DEF Crash
<1>6. ASSUME NEW n \in Endpoint, NEW v \in HardInfo, NEW p \in SoftInfo, Restart(n, v, p)
      PROVE  UNCHANGED vars /\ ClusterTypes'
  BY <1>6 DEF Restart
<1>7. QED
  BY <1>1, <1>2, <1>3, <1>4, <1>5, <1>6 DEF ClusterStep

\* The plugin's steps do not touch the cluster.
LEMMA PluginStepTypes ==
  ClusterTypes /\ UNCHANGED cluster => ClusterTypes'
  BY DEF ClusterTypes, cluster

\* What a member answers is a reply in the sense of EpStatus.
LEMMA StatusIsReply ==
  ASSUME ClusterTypes, NEW n \in Endpoint, NEW db \in DbInfo
  PROVE  StatusOf(n, db) \in Status
  BY DEF ClusterTypes, StatusOf, Status

\* A step of the composition is a step of EpStatus, or one that it does not
\* see, and keeps the types.
LEMMA CNextIsNext ==
  IInv /\ ClusterTypes /\ [CNext]_allVars => [Next]_vars /\ ClusterTypes'
<1> SUFFICES ASSUME IInv, ClusterTypes, [CNext]_allVars
             PROVE  [Next]_vars /\ ClusterTypes'
  OBVIOUS
<1>1. CASE CEndpointsFail
  BY <1>1, PluginStepTypes DEF CEndpointsFail, Next
<1>2. ASSUME NEW es \in EpLists, CStart(es)
      PROVE  [Next]_vars /\ ClusterTypes'
  BY <1>2, PluginStepTypes DEF CStart, Next
<1>3. ASSUME NEW db \in DbInfo, Answered(db)
      PROVE  [Next]_vars /\ ClusterTypes'
  <2>1. eps[i] \in Endpoint
    BY <1>3 DEF Answered, ClusterTypes
  <2>2. StatusOf(eps[i], db) \in Reply
    BY <2>1, StatusIsReply DEF Reply
  <2>3. QED
    BY <1>3, <2>2, PluginStepTypes DEF Answered, Next
<1>4. CASE Lost
  <2>1. Nil \in Reply
    BY DEF Reply
  <2>2. QED
    BY <1>4, <2>1, PluginStepTypes DEF Lost, Next
<1>5. CASE CRetry
  BY <1>5, PluginStepTypes DEF CRetry, Next
<1>6. CASE CFinish
  BY <1>6, PluginStepTypes DEF CFinish, Next
<1>7. CASE ClusterStep
  BY <1>7, ClusterStepTypes
<1>8. CASE UNCHANGED allVars
  BY <1>8, PluginStepTypes DEF allVars
<1>9. QED
  BY <1>1, <1>2, <1>3, <1>4, <1>5, <1>6, <1>7, <1>8 DEF CNext

\* The composition keeps the plugin's inductive invariant.
LEMMA CIInv == IInv /\ ClusterTypes /\ [CNext]_allVars => IInv'
<1> SUFFICES ASSUME IInv, ClusterTypes, [CNext]_allVars
             PROVE  IInv'
  OBVIOUS
<1>1. [Next]_vars
  BY CNextIsNext
<1>2. QED
  BY <1>1, InitIInv, EndpointsFailIInv, StartIInv, QueryIInv, RetryIInv, FinishIInv,
     StutterIInv DEF Next

\* In every behaviour of the composition both invariants hold.
THEOREM ClusterInvariant == CSpec => [](IInv /\ ClusterTypes)
<1>1. CInit => IInv /\ ClusterTypes
  BY InitIInv, InitClusterTypes DEF CInit
<1>2. IInv /\ ClusterTypes /\ [CNext]_allVars => (IInv /\ ClusterTypes)'
  BY CIInv, CNextIsNext
<1>3. QED
  BY <1>1, <1>2, PTL DEF CSpec

\* In front of a cluster that moves between any two calls, Diagnose still only
\* returns the verdict of one complete pass over its replies.
THEOREM ClusterImplementation == CSpec => ImplementsVerdict
<1>1. CInit => Init
  BY DEF CInit
<1>2. IInv /\ ClusterTypes /\ [CNext]_allVars => [Next]_vars
  BY CNextIsNext
<1>3. CSpec => Spec
  BY <1>1, <1>2, ClusterInvariant, PTL DEF CSpec, Spec
<1>4. QED
  BY <1>3, Implementation, PTL

-----------------------------------------------------------------------------
(* A transient alarm is earned.                                            *)

\* In a calm pass every reply so far is what the member would still answer.
CalmInv ==
  pc = "pass" /\ calm =>
    /\ Settled
    /\ \A k \in 1..(i - 1) :
         /\ eps[k] \in Endpoint /\ list[k] # Nil /\ ~list[k].errs
         /\ list[k].hard = ver[eps[k]] /\ list[k].soft = pos[eps[k]]

\* Every pass that was repeated was disturbed, and so was the last one if its
\* findings are transient.
DisturbedInv ==
  /\ pc = "start" => disturbed = 0
  /\ pc = "pass" => disturbed = retries
  /\ TransientAlarmIsEarned

ClusterInv == IInv /\ ClusterTypes /\ CalmInv /\ DisturbedInv

\* A whole pass over a settled cluster finds nothing.
LEMMA CalmPassIsClean ==
  ClusterInv /\ pc = "pass" /\ calm /\ i > Len(eps)
    => Verdict!PassFindings(list, Len(eps)) = {}
<1> SUFFICES ASSUME ClusterInv, pc = "pass", calm, i > Len(eps)
             PROVE  Verdict!PassFindings(list, Len(eps)) = {}
  OBVIOUS
<1>1. Len(eps) \in Nat /\ i \in Nat /\ i \in 1..Len(eps) + 1
  BY DEF ClusterInv, IInv, TypeOK, PassInv
<1>2. i - 1 = Len(eps)
  BY <1>1
<1>3. /\ Settled
      /\ \A k \in 1..Len(eps) :
           /\ eps[k] \in Endpoint /\ list[k] # Nil /\ ~list[k].errs
           /\ list[k].hard = ver[eps[k]] /\ list[k].soft = pos[eps[k]]
  BY <1>2 DEF ClusterInv, CalmInv
<1>4. \A j, k \in 1..Len(eps) :
        list[j].hard = list[k].hard /\ list[j].soft = list[k].soft
  BY <1>3 DEF Settled
<1>5. Verdict!Unreachable(list, Len(eps)) = {} /\ Verdict!Erroneous(list, Len(eps)) = {}
  BY <1>3 DEF Verdict!Unreachable, Verdict!Erroneous
<1>6. \A k \in 2..Len(eps) :
        compareHardInfo(list[1], list[k]) /\ compareSoftInfo(list[1], list[k])
  BY <1>1, <1>3, <1>4 DEF compareHardInfo, compareSoftInfo
<1>7. Verdict!HardMismatch(list, Len(eps)) = {} /\ Verdict!SoftMismatch(list, Len(eps)) = {}
  BY <1>6 DEF Verdict!HardMismatch, Verdict!SoftMismatch, Verdict!Compared,
              compareHardInfo, Verdict!compareHardInfo,
              compareSoftInfo, Verdict!compareSoftInfo
<1>8. QED
  BY <1>5, <1>7 DEF Verdict!PassFindings

\* A finding of a pass is in the summary the plugin keeps.
LEMMA PassSummary ==
  ClusterInv /\ pc = "pass" /\ i > Len(eps)
    => /\ summary = Verdict!PassFindings(list, Len(eps))
       /\ shouldRetry = (Verdict!Definitive(list, Len(eps)) = {})
       /\ Len(list) = Len(eps)
<1> SUFFICES ASSUME ClusterInv, pc = "pass", i > Len(eps)
             PROVE  /\ summary = Verdict!PassFindings(list, Len(eps))
                    /\ shouldRetry = (Verdict!Definitive(list, Len(eps)) = {})
                    /\ Len(list) = Len(eps)
  OBVIOUS
<1>1. Len(eps) \in Nat /\ i \in Nat /\ i \in 1..Len(eps) + 1
  BY DEF ClusterInv, IInv, TypeOK, PassInv
<1>2. i - 1 = Len(eps)
  BY <1>1
<1>3. QED
  BY <1>2 DEF ClusterInv, IInv, PassInv

\* A calm pass is the last one.
LEMMA RetryNotCalm == ClusterInv /\ Retry => ~calm
<1> SUFFICES ASSUME ClusterInv, Retry, calm
             PROVE  FALSE
  OBVIOUS
<1>1. pc = "pass" /\ i > Len(eps) /\ summary # {}
  BY DEF Retry, PassIsFinal
<1>2. QED
  BY <1>1, CalmPassIsClean, PassSummary

\* The start of a pass is calm just when the cluster is settled.
LEMMA CalmBegins ==
  ASSUME ClusterInv, UNCHANGED cluster, calm' = Settled, i' = 1
  PROVE  CalmInv'
<1>1. 1..(i' - 1) = {}
  BY DEF CalmInv
<1>2. Settled' = Settled
  BY DEF cluster, Settled
<1>3. QED
  BY <1>1, <1>2 DEF CalmInv

\* No step makes CalmInv false.
LEMMA CalmStep == ClusterInv /\ [CNext]_allVars => CalmInv'
<1> SUFFICES ASSUME ClusterInv, [CNext]_allVars
             PROVE  CalmInv'
  OBVIOUS
<1>1. CASE CEndpointsFail
  BY <1>1 DEF CEndpointsFail, EndpointsFail, CalmInv
<1>2. ASSUME NEW es \in EpLists, CStart(es)
      PROVE  CalmInv'
  <2>1. i' = 1
    BY <1>2 DEF CStart, Start, ClusterInv, IInv, StartInv
  <2>2. QED
    BY <1>2, <2>1, CalmBegins DEF CStart, Began, cluster
<1>3. ASSUME NEW db \in DbInfo, Answered(db)
      PROVE  CalmInv'
  <2> SUFFICES ASSUME calm
               PROVE  CalmInv'
    BY <1>3 DEF Answered, ghosts, CalmInv
  <2>1. pc = "pass" /\ i <= Len(eps) /\ i \in Nat \ {0} /\ Len(list) = Len(eps)
    BY <1>3 DEF Answered, Query, ClusterInv, IInv, TypeOK, PassInv
  <2>2. list \in Seq(Reply) /\ Len(eps) \in Nat
    BY DEF ClusterInv, IInv, TypeOK
  <2>3. list' = [list EXCEPT ![i] = StatusOf(eps[i], db)] /\ i' = i + 1 /\ eps' = eps
    BY <1>3 DEF Answered, Query
  <2>4. Settled
    BY <2>1 DEF ClusterInv, CalmInv
  <2>5. Settled' /\ ver' = ver /\ pos' = pos
    BY <1>3, <2>4 DEF Answered, cluster, Settled
  <2>6. eps[i] \in Endpoint /\ StatusOf(eps[i], db) \in Status /\ leader
    BY <1>3, <2>4, StatusIsReply DEF Answered, ClusterInv, ClusterTypes, Settled
  <2>7. /\ list'[i] = StatusOf(eps[i], db)
        /\ \A k \in 1..(i - 1) : list'[k] = list[k]
    BY <2>1, <2>2, <2>3
  <2>8. /\ list'[i] # Nil /\ ~list'[i].errs
        /\ list'[i].hard = ver[eps[i]] /\ list'[i].soft = pos[eps[i]]
    <3>1. StatusOf(eps[i], db) # Nil
      BY <2>6, NilAssumption
    <3>2. leader = TRUE
      BY <2>6 DEF ClusterInv, ClusterTypes
    <3>3. StatusOf(eps[i], db).errs = FALSE
      BY <3>2 DEF StatusOf
    <3>4. StatusOf(eps[i], db).hard = ver[eps[i]] /\ StatusOf(eps[i], db).soft = pos[eps[i]]
      BY DEF StatusOf
    <3>5. QED
      BY <2>7, <3>1, <3>3, <3>4
  <2>9. \A k \in 1..(i - 1) :
          /\ eps[k] \in Endpoint /\ list'[k] # Nil /\ ~list'[k].errs
          /\ list'[k].hard = ver[eps[k]] /\ list'[k].soft = pos[eps[k]]
    BY <2>1, <2>7 DEF ClusterInv, CalmInv
  <2>10. \A k \in 1..(i' - 1) : k \in 1..(i - 1) \/ k = i
    BY <2>1, <2>3
  <2>11. \A k \in 1..(i' - 1) :
          /\ eps'[k] \in Endpoint /\ list'[k] # Nil /\ ~list'[k].errs
          /\ list'[k].hard = ver'[eps'[k]] /\ list'[k].soft = pos'[eps'[k]]
    BY <2>3, <2>5, <2>6, <2>8, <2>9, <2>10
  <2>12. QED
    BY <2>5, <2>11 DEF CalmInv
<1>4. CASE Lost
  BY <1>4 DEF Lost, CalmInv
<1>5. CASE CRetry
  <2>1. i' = 1
    BY <1>5 DEF CRetry, Retry
  <2>2. QED
    BY <1>5, <2>1, CalmBegins DEF CRetry, Began, cluster
<1>6. CASE CFinish
  BY <1>6 DEF CFinish, Finish, CalmInv
<1>7. CASE ClusterStep
  BY <1>7 DEF ClusterStep, Commit, LoseLeader, Elect, Apply, Crash, Restart, Move, CalmInv
<1>8. CASE UNCHANGED allVars
  BY <1>8 DEF allVars, vars, cluster, ghosts, CalmInv, ClusterInv, Settled
<1>9. QED
  BY <1>1, <1>2, <1>3, <1>4, <1>5, <1>6, <1>7, <1>8 DEF CNext

\* A finding of the empty pass is no finding.
LEMMA NothingAsked == list = <<>> => TransientAlarmIsEarned
  BY DEF TransientAlarmIsEarned

\* No step makes DisturbedInv false.
LEMMA DisturbedStep == ClusterInv /\ [CNext]_allVars => DisturbedInv'
<1> SUFFICES ASSUME ClusterInv, [CNext]_allVars
             PROVE  DisturbedInv'
  OBVIOUS
<1> USE DEF DisturbedInv
<1>1. CASE CEndpointsFail
  BY <1>1 DEF CEndpointsFail, EndpointsFail, ghosts, ClusterInv, IInv, StartInv,
              TransientAlarmIsEarned
<1>2. ASSUME NEW es \in EpLists, CStart(es)
      PROVE  DisturbedInv'
  BY <1>2 DEF CStart, Start, ClusterInv, IInv, StartInv, TransientAlarmIsEarned
<1>3. ASSUME NEW db \in DbInfo, Answered(db)
      PROVE  DisturbedInv'
  BY <1>3 DEF Answered, Query, ghosts, ClusterInv, TransientAlarmIsEarned
<1>4. CASE Lost
  BY <1>4 DEF Lost, Query, ClusterInv, TransientAlarmIsEarned
<1>5. CASE CRetry
  <2>1. ~calm
    BY <1>5, RetryNotCalm DEF CRetry
  <2>2. disturbed = retries /\ retries \in Nat
    BY <1>5 DEF CRetry, Retry, ClusterInv, IInv, TypeOK
  <2>3. disturbed' = retries' /\ pc' = "pass"
    BY <1>5, <2>1, <2>2 DEF CRetry, Retry, PassOver, RetriesAfterPass
  <2>4. QED
    BY <2>3 DEF TransientAlarmIsEarned
<1>6. CASE CFinish
  <2>1. /\ pc = "pass" /\ i > Len(eps) /\ PassIsFinal
        /\ pc' = "done" /\ list' = list /\ eps' = eps
    BY <1>6 DEF CFinish, Finish
  <2>2. /\ summary = Verdict!PassFindings(list, Len(list))
        /\ shouldRetry = (Verdict!Definitive(list, Len(list)) = {})
        /\ Len(list) = Len(eps)
    BY <2>1, PassSummary
  <2>3. SUFFICES ASSUME Verdict!Definitive(list, Len(list)) = {},
                        Verdict!PassFindings(list, Len(list)) # {}
                 PROVE  disturbed' = maxRetries
    BY <2>1 DEF TransientAlarmIsEarned
  <2>4. ~calm
    BY <2>1, <2>2, <2>3, CalmPassIsClean
  <2>5. RetriesAfterPass >= maxRetries
    BY <2>1, <2>2, <2>3 DEF PassIsFinal
  <2>6. disturbed = retries /\ retries \in Nat /\ retries < maxRetries
    BY <2>1 DEF ClusterInv, IInv, TypeOK, PassInv
  <2>7. disturbed' = retries + 1
    BY <1>6, <2>4, <2>6 DEF CFinish, PassOver
  <2>8. QED
    BY <2>5, <2>6, <2>7, RetryAssumption DEF RetriesAfterPass
<1>7. CASE ClusterStep
  <2>1. UNCHANGED <<pc, list, retries, disturbed>>
    BY <1>7 DEF ClusterStep, Commit, LoseLeader, Elect, Apply, Crash, Restart, Move, vars
  <2>2. QED
    BY <2>1 DEF ClusterInv, TransientAlarmIsEarned
<1>8. CASE UNCHANGED allVars
  BY <1>8 DEF allVars, vars, ghosts, ClusterInv, TransientAlarmIsEarned
<1>9. QED
  BY <1>1, <1>2, <1>3, <1>4, <1>5, <1>6, <1>7, <1>8 DEF CNext

\* The two hold in every reachable state.
THEOREM ClusterInductive == CSpec => []ClusterInv
<1>1. CInit => ClusterInv
  BY InitIInv, InitClusterTypes
     DEF CInit, Init, ClusterInv, CalmInv, DisturbedInv, TransientAlarmIsEarned
<1>2. ClusterInv /\ [CNext]_allVars => ClusterInv'
  BY CIInv, CNextIsNext, CalmStep, DisturbedStep DEF ClusterInv
<1>3. QED
  BY <1>1, <1>2, PTL DEF CSpec

\* The plugin reports nothing but lag or unreachable members only if each of
\* its maxRetries passes was disturbed by the cluster or by a lost call.
THEOREM TransientAlarm == CSpec => []TransientAlarmIsEarned
<1>1. ClusterInv => TransientAlarmIsEarned
  BY DEF ClusterInv, DisturbedInv
<1>2. QED
  BY <1>1, ClusterInductive, PTL

\* One pass over a settled cluster is enough: it is never repeated.
THEOREM CalmLast == CSpec => CalmPassIsLast
<1>1. ClusterInv => [Retry => ~calm]_allVars
  BY RetryNotCalm
<1>2. QED
  BY <1>1, ClusterInductive, PTL DEF CSpec, CalmPassIsLast

-----------------------------------------------------------------------------
(* The types of the rest: the counters and the ghosts.                     *)

GhostTypes ==
  /\ moves \in 0..MaxMoves
  /\ calm \in BOOLEAN /\ mixed \in BOOLEAN /\ out \in BOOLEAN
  /\ disturbed \in 0..maxRetries
  /\ from \in [Endpoint -> SoftInfo] /\ back \subseteq Endpoint

\* A step of the cluster keeps the ghosts' types.
LEMMA ClusterStepGhosts == GhostTypes /\ ClusterStep => GhostTypes'
<1> SUFFICES ASSUME GhostTypes, ClusterStep
             PROVE  GhostTypes'
  OBVIOUS
<1>1. /\ moves < MaxMoves /\ moves' = moves + 1 /\ calm' = FALSE
      /\ disturbed' = disturbed /\ from' = from
      /\ mixed' \in BOOLEAN /\ out' \in BOOLEAN /\ back' \subseteq Endpoint
  BY DEF GhostTypes, ClusterStep, Commit, LoseLeader, Elect, Apply, Crash, Restart, Move
<1>2. moves' \in 0..MaxMoves
  BY <1>1, MovesAssumption DEF GhostTypes
<1>3. QED
  BY <1>1, <1>2 DEF GhostTypes

\* No step makes GhostTypes false; a pass that is over is counted once, and
\* there are at most maxRetries of them.
LEMMA GhostStep == ClusterInv /\ GhostTypes /\ [CNext]_allVars => GhostTypes'
<1> SUFFICES ASSUME ClusterInv, GhostTypes, [CNext]_allVars
             PROVE  GhostTypes'
  OBVIOUS
<1>1. Settled \in BOOLEAN /\ pos \in [Endpoint -> SoftInfo]
  BY DEF Settled, ClusterInv, ClusterTypes
<1>2. CASE CEndpointsFail
  BY <1>2 DEF CEndpointsFail, cluster, ghosts, GhostTypes
<1>3. ASSUME NEW es \in EpLists, CStart(es)
      PROVE  GhostTypes'
  BY <1>1, <1>3 DEF CStart, Began, Mixed, cluster, GhostTypes
<1>4. ASSUME NEW db \in DbInfo, Answered(db)
      PROVE  GhostTypes'
  BY <1>4 DEF Answered, cluster, ghosts, GhostTypes
<1>5. CASE Lost
  BY <1>5 DEF Lost, cluster, GhostTypes
<1>6. CASE CRetry \/ CFinish
  <2>1. disturbed = retries /\ retries \in Nat /\ retries < maxRetries
    BY <1>6 DEF CRetry, CFinish, Retry, Finish, ClusterInv, DisturbedInv, IInv, TypeOK, PassInv
  <2>2. disturbed' \in {disturbed, disturbed + 1}
    BY <1>6, <2>1 DEF CRetry, CFinish, PassOver
  <2>3. disturbed' \in 0..maxRetries
    BY <2>1, <2>2, RetryAssumption
  <2>4. /\ moves' = moves /\ mixed' \in BOOLEAN /\ out' \in BOOLEAN /\ calm' \in BOOLEAN
        /\ from' \in [Endpoint -> SoftInfo] /\ back' \subseteq Endpoint
    BY <1>1, <1>6 DEF CRetry, CFinish, Began, Mixed, cluster, GhostTypes
  <2>5. QED
    BY <2>3, <2>4 DEF GhostTypes
<1>7. CASE ClusterStep
  BY <1>7, ClusterStepGhosts
<1>8. CASE UNCHANGED allVars
  BY <1>8 DEF allVars, cluster, ghosts, GhostTypes
<1>9. QED
  BY <1>2, <1>3, <1>4, <1>5, <1>6, <1>7, <1>8 DEF CNext

\* The ghosts start well typed.
LEMMA InitGhostTypes == CInit => GhostTypes
<1> SUFFICES ASSUME CInit
             PROVE  GhostTypes
  OBVIOUS
<1>1. moves \in 0..MaxMoves /\ disturbed \in 0..maxRetries
  BY MovesAssumption, RetryAssumption DEF CInit
<1>2. calm \in BOOLEAN /\ mixed \in BOOLEAN /\ out \in BOOLEAN /\ back \subseteq Endpoint
  BY DEF CInit, Mixed
<1>3. from \in [Endpoint -> SoftInfo]
  BY InitClusterTypes DEF CInit, ClusterTypes
<1>4. QED
  BY <1>1, <1>2, <1>3 DEF GhostTypes

\* Every variable of the composition keeps its type; in particular there are
\* never more disturbed passes than maxRetries.
THEOREM CTypeCorrect == CSpec => []CTypeOK
<1>1. CInit => GhostTypes
  BY InitGhostTypes
<1>2. ClusterInv /\ GhostTypes /\ [CNext]_allVars => GhostTypes'
  BY GhostStep
<1>3. ClusterInv /\ GhostTypes => CTypeOK
  BY DEF ClusterInv, IInv, ClusterTypes, GhostTypes, CTypeOK
<1>4. QED
  BY <1>1, <1>2, <1>3, ClusterInductive, PTL DEF CSpec

-----------------------------------------------------------------------------
(* What the slice of replies holds after each step of the composition.     *)

\* The slice is fresh after a step that begins a pass.
LEMMA FreshList ==
  ASSUME ClusterInv, (\E es \in EpLists : Start(es)) \/ Retry
  PROVE  \A k \in 1..Len(list') : list'[k] = Nil
<1>1. ASSUME NEW n \in Nat, list' = initCheckResult(n).list
      PROVE  \A k \in 1..Len(list') : list'[k] = Nil
  BY <1>1 DEF initCheckResult
<1>2. \A es \in EpLists : Len(es) \in Nat
  BY EpListsAssumption
<1>3. Len(eps) \in Nat
  BY DEF ClusterInv, IInv, TypeOK
<1>4. QED
  BY <1>1, <1>2, <1>3 DEF Start, Retry

\* A call fills the next place of the slice, with nil or with what the member
\* asked is like at this moment, and leaves the others alone.
LEMMA FilledList ==
  ASSUME ClusterInv, Lost \/ \E db \in DbInfo : Answered(db)
  PROVE  /\ Len(list') = Len(list) /\ i \in 1..Len(list) /\ eps' = eps
         /\ \A k \in 1..Len(list) : k # i => list'[k] = list[k]
         /\ list'[i] # Nil =>
              /\ eps[i] \in up
              /\ list'[i].hard = ver[eps[i]] /\ list'[i].soft = pos[eps[i]]
<1>1. PICK r \in Reply :
        /\ Query(r)
        /\ r # Nil => eps[i] \in up /\ r.hard = ver[eps[i]] /\ r.soft = pos[eps[i]]
  <2>1. CASE Lost
    BY <2>1 DEF Lost, Reply
  <2>2. ASSUME NEW db \in DbInfo, Answered(db)
        PROVE  \E r \in Reply :
                 /\ Query(r)
                 /\ r # Nil => eps[i] \in up /\ r.hard = ver[eps[i]] /\ r.soft = pos[eps[i]]
    <3>1. eps[i] \in up /\ eps[i] \in Endpoint /\ Query(StatusOf(eps[i], db))
      BY <2>2 DEF Answered, ClusterInv, ClusterTypes
    <3>2. StatusOf(eps[i], db) \in Reply
      BY <3>1, StatusIsReply DEF Reply, ClusterInv
    <3>3. StatusOf(eps[i], db).hard = ver[eps[i]] /\ StatusOf(eps[i], db).soft = pos[eps[i]]
      BY DEF StatusOf
    <3>4. QED
      BY <3>1, <3>2, <3>3
  <2>3. QED
    BY <2>1, <2>2
<1>2. /\ list \in Seq(Reply) /\ i \in 1..Len(list) /\ eps' = eps
      /\ list' = [list EXCEPT ![i] = r]
  BY <1>1 DEF Query, ClusterInv, IInv, TypeOK, PassInv
<1>3. Len(list') = Len(list) /\ list'[i] = r /\ \A k \in 1..Len(list) : k # i => list'[k] = list[k]
  BY <1>2
<1>4. QED
  BY <1>1, <1>2, <1>3

\* The other steps leave the slice, the endpoints and the summary's hard
\* findings alone.
LEMMA KeptList ==
  ASSUME ClusterInv, CEndpointsFail \/ CFinish \/ ClusterStep \/ UNCHANGED allVars
  PROVE  list' = list /\ eps' = eps
  BY DEF CEndpointsFail, EndpointsFail, CFinish, Finish, ClusterStep, Commit, LoseLeader,
         Elect, Apply, Crash, Restart, Move, allVars, vars

-----------------------------------------------------------------------------
(* Lag is seen.                                                            *)

\* A member that has stayed up since the pass began has not gone back, and its
\* reply is between where it was then and where it is now.
LagInv ==
  /\ pc = "pass" => \A n \in Endpoint : n \notin back => from[n] <= pos[n]
  /\ \A k \in 1..Len(list) :
       list[k] # Nil /\ eps[k] \notin back =>
         from[eps[k]] <= list[k].soft /\ list[k].soft <= pos[eps[k]]

\* The slice and the endpoint list have the same length, and what is in them
\* is a reply and an endpoint.
LEMMA ListTypes ==
  ASSUME ClusterInv
  PROVE  /\ list \in Seq(Reply) /\ eps \in Seq(Endpoint)
         /\ Len(list) \in Nat /\ Len(eps) \in Nat
         /\ pc # "start" => Len(list) = Len(eps)
         /\ pc = "start" => list = <<>>
         /\ \A k \in 1..Len(list) : eps[k] \in Endpoint
         /\ \A k \in 1..Len(list) : list[k] # Nil => list[k].soft \in Nat
<1>1. /\ list \in Seq(Reply) /\ eps \in Seq(Endpoint)
      /\ Len(list) \in Nat /\ Len(eps) \in Nat
  BY DEF ClusterInv, IInv, TypeOK
<1>2. pc # "start" => Len(list) = Len(eps)
  BY DEF ClusterInv, IInv, TypeOK, PassInv, DoneInv
<1>3. pc = "start" => list = <<>>
  BY DEF ClusterInv, IInv, StartInv
<1>4. \A k \in 1..Len(list) : eps[k] \in Endpoint
  BY <1>1, <1>2, <1>3
<1>5. \A k \in 1..Len(list) : list[k] \in Reply
  BY <1>1
<1>6. \A k \in 1..Len(list) : list[k] # Nil => list[k].soft \in Nat
  BY <1>5, SoftAssumption DEF Reply, Status
<1>7. QED
  BY <1>1, <1>2, <1>3, <1>4, <1>6

\* A step of the cluster moves a member back only when it comes back.
LEMMA ClusterForward ==
  ASSUME ClusterInv, ClusterStep
  PROVE  /\ from' = from /\ pc' = pc
         /\ \A n \in Endpoint : n \notin back' => n \notin back /\ pos[n] <= pos'[n]
<1>1. \A n \in Endpoint : pos[n] \in Nat
  BY SoftAssumption DEF ClusterInv, ClusterTypes
<1>2. from' = from /\ pc' = pc
  BY DEF ClusterStep, Commit, LoseLeader, Elect, Apply, Crash, Restart, Move, vars
<1>3. CASE Commit \/ LoseLeader \/ Elect \/ \E n \in Endpoint : Crash(n)
  <2>1. back' = back /\ pos' = pos
    BY <1>3 DEF Commit, LoseLeader, Elect, Crash
  <2>2. \A n \in Endpoint : pos[n] <= pos[n]
    BY <1>1
  <2>3. QED
    BY <1>2, <2>1, <2>2
<1>4. ASSUME NEW n \in Endpoint, Apply(n)
      PROVE  \A m \in Endpoint : m \notin back' => m \notin back /\ pos[m] <= pos'[m]
  BY <1>1, <1>4 DEF Apply, ClusterInv, ClusterTypes
<1>5. ASSUME NEW n \in Endpoint, NEW v \in HardInfo, NEW p \in SoftInfo, Restart(n, v, p)
      PROVE  \A m \in Endpoint : m \notin back' => m \notin back /\ pos[m] <= pos'[m]
  BY <1>1, <1>5 DEF Restart, ClusterInv, ClusterTypes
<1>6. QED
  BY <1>2, <1>3, <1>4, <1>5 DEF ClusterStep

\* No step makes LagInv false.
LEMMA LagStep == ClusterInv /\ GhostTypes /\ LagInv /\ [CNext]_allVars => LagInv'
<1> SUFFICES ASSUME ClusterInv, GhostTypes, LagInv, [CNext]_allVars
             PROVE  LagInv'
  OBVIOUS
<1>1. \A n \in Endpoint : pos[n] \in Nat /\ from[n] \in Nat
  BY SoftAssumption DEF ClusterInv, ClusterTypes, GhostTypes
<1>2. CASE (\E es \in EpLists : CStart(es)) \/ CRetry
  <2>1. /\ \A k \in 1..Len(list') : list'[k] = Nil
        /\ from' = pos /\ pos' = pos
    BY <1>2, FreshList DEF CStart, CRetry, Began, cluster
  <2>2. QED
    BY <1>1, <2>1 DEF LagInv
<1>3. CASE Lost \/ \E db \in DbInfo : Answered(db)
  <2>1. /\ Len(list') = Len(list) /\ i \in 1..Len(list) /\ eps' = eps
        /\ \A k \in 1..Len(list) : k # i => list'[k] = list[k]
        /\ list'[i] # Nil => list'[i].soft = pos[eps[i]]
    BY <1>3, FilledList
  <2>2. /\ pc = "pass" /\ pc' = pc
        /\ from' = from /\ back' = back /\ pos' = pos
    BY <1>3 DEF Lost, Answered, Query, cluster, ghosts
  <2>3. \A k \in 1..Len(list) : eps[k] \in Endpoint
    BY ListTypes
  <2>4. list'[i] # Nil /\ eps[i] \notin back =>
          from[eps[i]] <= list'[i].soft /\ list'[i].soft <= pos[eps[i]]
    BY <1>1, <2>1, <2>2, <2>3 DEF LagInv
  <2>5. \A k \in 1..Len(list') : list'[k] # Nil /\ eps'[k] \notin back' =>
          from'[eps'[k]] <= list'[k].soft /\ list'[k].soft <= pos'[eps'[k]]
    BY <2>1, <2>2, <2>4 DEF LagInv
  <2>6. QED
    BY <2>2, <2>5 DEF LagInv
<1>4. CASE CEndpointsFail \/ CFinish \/ UNCHANGED allVars
  <2>1. /\ list' = list /\ eps' = eps
        /\ pc' \in {pc, "done"}
        /\ from' = from /\ back' = back /\ pos' = pos
    BY <1>4, KeptList DEF CEndpointsFail, EndpointsFail, CFinish, Finish, allVars, vars,
                          cluster, ghosts
  <2>2. QED
    BY <2>1 DEF LagInv
<1>5. CASE ClusterStep
  <2>1. list' = list /\ eps' = eps
    BY <1>5, KeptList
  <2>2. /\ from' = from /\ pc' = pc
        /\ \A n \in Endpoint : n \notin back' => n \notin back /\ pos[n] <= pos'[n]
    BY <1>5, ClusterForward
  <2>3. \A n \in Endpoint : pos'[n] \in Nat
    BY <1>5, ClusterStepTypes, SoftAssumption DEF ClusterInv, ClusterTypes
  <2>4. pc' = "pass" => \A n \in Endpoint : n \notin back' => from'[n] <= pos'[n]
    BY <1>1, <2>2, <2>3 DEF LagInv
  <2>5. ASSUME NEW k \in 1..Len(list), list[k] # Nil, eps[k] \notin back'
        PROVE  from[eps[k]] <= list[k].soft /\ list[k].soft <= pos'[eps[k]]
    <3>1. eps[k] \in Endpoint /\ list[k].soft \in Nat
      BY <2>5, ListTypes
    <3>2. from[eps[k]] <= list[k].soft /\ list[k].soft <= pos[eps[k]]
      BY <2>2, <2>5, <3>1 DEF LagInv
    <3>3. QED
      BY <1>1, <2>2, <2>3, <2>5, <3>1, <3>2
  <2>6. QED
    BY <2>1, <2>2, <2>4, <2>5 DEF LagInv
<1>6. QED
  BY <1>2, <1>3, <1>4, <1>5 DEF CNext

\* Lag is seen although the members are asked at different moments: after
\* "Successful" no member that stayed up is behind the place any other had
\* when the last pass began.
THEOREM LagSeen == CSpec => []LagIsSeen
<1>1. CInit => LagInv
  BY DEF CInit, Init, LagInv
<1>2. CInit => GhostTypes
  BY InitGhostTypes
<1>3. ClusterInv /\ GhostTypes /\ LagInv => LagIsSeen
  <2> SUFFICES ASSUME ClusterInv, GhostTypes, LagInv, pc = "done", Successful(result),
                      NEW j \in 1..Len(eps), NEW k \in 1..Len(eps), eps[k] \notin back,
                      eps[j] \notin back
               PROVE  pos[eps[k]] >= from[eps[j]]
    BY DEF LagIsSeen
  <2>1. SuccessIsSound
    BY IInvSuccessIsSound DEF ClusterInv
  <2>2. /\ Len(list) = Len(eps)
        /\ list[j] # Nil /\ list[k] # Nil /\ list[j].soft = list[k].soft
    BY <2>1 DEF SuccessIsSound
  <2>3. from[eps[j]] <= list[j].soft /\ list[k].soft <= pos[eps[k]]
    BY <2>2 DEF LagInv
  <2>4. eps[j] \in Endpoint /\ eps[k] \in Endpoint /\ list[j].soft \in Nat
    BY <2>2, ListTypes
  <2>5. pos[eps[k]] \in Nat /\ from[eps[j]] \in Nat
    BY <2>4, SoftAssumption DEF ClusterInv, ClusterTypes, GhostTypes
  <2>6. QED
    BY <2>2, <2>3, <2>4, <2>5
<1>4. QED
  BY <1>1, <1>2, <1>3, GhostStep, LagStep, ClusterInductive, PTL DEF CSpec

-----------------------------------------------------------------------------
(* A hard finding is real.                                                 *)

\* Until two members that ran have had different versions at one moment of the
\* pass, or nobody ran, somebody runs, all who do have one version, and it is in
\* every reply of the pass.
MixedInv ==
  ~mixed /\ ~out =>
    /\ up # {}
    /\ \A m, n \in up : ver[m] = ver[n]
    /\ \A k \in 1..Len(list) : list[k] # Nil => \A m \in up : list[k].hard = ver[m]

\* While no two members differ and not all are down, a step of the cluster
\* leaves the version that runs what it was: a member that comes back has it.
LEMMA VersionsKept ==
  ASSUME ClusterInv, MixedInv, ClusterStep, ~mixed', ~out'
  PROVE  /\ ~mixed /\ ~out /\ up' # {}
         /\ \A m \in up', n \in up : ver'[m] = ver[n]
<1>1. CASE Commit \/ LoseLeader \/ Elect \/ \E n \in Endpoint : Apply(n)
  <2>1. mixed' = mixed /\ out' = out /\ up' = up /\ ver' = ver
    BY <1>1 DEF Commit, LoseLeader, Elect, Apply
  <2>2. QED
    BY <2>1 DEF MixedInv
<1>2. ASSUME NEW n \in Endpoint, Crash(n)
      PROVE  /\ ~mixed /\ ~out /\ up' # {}
             /\ \A m \in up', k \in up : ver'[m] = ver[k]
  <2>1. mixed' = mixed /\ out' = (out \/ up' = {}) /\ up' \subseteq up /\ ver' = ver
    BY <1>2 DEF Crash
  <2>2. QED
    BY <2>1 DEF MixedInv
<1>3. ASSUME NEW n \in Endpoint, NEW v \in HardInfo, NEW p \in SoftInfo, Restart(n, v, p)
      PROVE  /\ ~mixed /\ ~out /\ up' # {}
             /\ \A m \in up', k \in up : ver'[m] = ver[k]
  <2>1. /\ n \notin up /\ up' = up \cup {n} /\ ver' = [ver EXCEPT ![n] = v]
        /\ mixed' = (mixed \/ \E m \in up : ver[m] # v) /\ out' = out
    BY <1>3 DEF Restart
  <2>2. ~mixed /\ ~out /\ \A m \in up : ver[m] = v
    BY <2>1
  <2>3. ver \in [Endpoint -> HardInfo] /\ up \subseteq Endpoint
    BY DEF ClusterInv, ClusterTypes
  <2>4. \A m \in up' : ver'[m] = v
    BY <2>1, <2>2, <2>3
  <2>5. QED
    BY <2>1, <2>2, <2>4
<1>4. QED
  BY <1>1, <1>2, <1>3 DEF ClusterStep

\* No step makes MixedInv false.
LEMMA MixedStep == ClusterInv /\ MixedInv /\ [CNext]_allVars => MixedInv'
<1> SUFFICES ASSUME ClusterInv, MixedInv, [CNext]_allVars, ~mixed', ~out'
             PROVE  /\ up' # {}
                    /\ \A m, n \in up' : ver'[m] = ver'[n]
                    /\ \A k \in 1..Len(list') :
                         list'[k] # Nil => \A m \in up' : list'[k].hard = ver'[m]
  BY DEF MixedInv
<1>1. CASE (\E es \in EpLists : CStart(es)) \/ CRetry
  <2>1. \A k \in 1..Len(list') : list'[k] = Nil
    BY <1>1, FreshList DEF CStart, CRetry
  <2>2. mixed' = Mixed /\ out' = (up = {}) /\ up' = up /\ ver' = ver
    BY <1>1 DEF CStart, CRetry, Began, cluster
  <2>3. QED
    BY <2>1, <2>2 DEF Mixed
<1>2. CASE Lost \/ \E db \in DbInfo : Answered(db)
  <2>1. /\ Len(list') = Len(list) /\ i \in 1..Len(list)
        /\ \A k \in 1..Len(list) : k # i => list'[k] = list[k]
        /\ list'[i] # Nil => eps[i] \in up /\ list'[i].hard = ver[eps[i]]
    BY <1>2, FilledList
  <2>2. mixed' = mixed /\ out' = out /\ up' = up /\ ver' = ver
    BY <1>2 DEF Lost, Answered, cluster, ghosts
  <2>3. QED
    BY <2>1, <2>2 DEF MixedInv
<1>3. CASE CEndpointsFail \/ CFinish \/ UNCHANGED allVars
  <2>1. list' = list /\ mixed' = mixed /\ out' = out /\ up' = up /\ ver' = ver
    BY <1>3, KeptList DEF CEndpointsFail, CFinish, allVars, cluster, ghosts
  <2>2. QED
    BY <2>1 DEF MixedInv
<1>4. CASE ClusterStep
  <2>1. list' = list
    BY <1>4, KeptList
  <2>2. ~mixed /\ ~out /\ up' # {} /\ \A m \in up', n \in up : ver'[m] = ver[n]
    BY <1>4, VersionsKept
  <2>3. up # {} /\ \A k \in 1..Len(list) : list[k] # Nil => \A m \in up : list[k].hard = ver[m]
    BY <2>2 DEF MixedInv
  <2>4. QED
    BY <2>1, <2>2, <2>3
<1>5. QED
  BY <1>1, <1>2, <1>3, <1>4 DEF CNext

\* The result's hard findings stay what they were in the last pass.
HardInv == pc = "done" => HardFindingWasMixed

\* Until the result is there, the hard findings of the summary are between
\* two replies that differ.
LEMMA HardBeforeResult ==
  ASSUME ClusterInv, MixedInv, pc # "done"
  PROVE  HardFindingWasMixed
<1> SUFFICES ASSUME NEW k \in 1..Len(list), <<"hard", k>> \in summary, list[1] # Nil
             PROVE  mixed \/ out
  BY DEF HardFindingWasMixed
<1>1. pc = "pass"
  BY DEF ClusterInv, IInv, StartInv, TypeOK
<1>2. summary = Verdict!PassFindings(list, i - 1) /\ Len(list) \in Nat
  BY <1>1 DEF ClusterInv, IInv, PassInv, TypeOK
<1>3. k \in Verdict!HardMismatch(list, i - 1)
  BY <1>2 DEF Verdict!PassFindings
<1>4. list[k] # Nil /\ ~compareHardInfo(list[1], list[k])
  BY <1>3 DEF Verdict!HardMismatch, Verdict!Compared, Verdict!compareHardInfo, compareHardInfo
<1>5. list[1].hard # list[k].hard /\ 1 \in 1..Len(list)
  BY <1>2, <1>4 DEF compareHardInfo
<1>6. QED
  BY <1>4, <1>5 DEF MixedInv

\* No step makes HardInv false: the last step adds findings about databases
\* only.
LEMMA HardInvStep == ClusterInv /\ MixedInv /\ HardInv /\ [CNext]_allVars => HardInv'
<1> SUFFICES ASSUME ClusterInv, MixedInv, HardInv, [CNext]_allVars
             PROVE  HardInv'
  OBVIOUS
<1>1. CASE CEndpointsFail \/ CFinish
  <2>1. pc # "done" /\ list' = list /\ mixed' = mixed /\ out' = out
    BY <1>1, KeptList DEF CEndpointsFail, EndpointsFail, CFinish, Finish, ghosts
  <2>2. \A k \in 1..Len(list) : <<"hard", k>> \in summary' => <<"hard", k>> \in summary
    BY <1>1 DEF CEndpointsFail, EndpointsFail, CFinish, Finish, checkDBSize
  <2>3. HardFindingWasMixed
    BY <2>1, HardBeforeResult
  <2>4. HardFindingWasMixed'
    BY <2>1, <2>2, <2>3 DEF HardFindingWasMixed
  <2>5. QED
    BY <2>4 DEF HardInv
<1>2. CASE UNCHANGED allVars
  BY <1>2 DEF allVars, vars, ghosts, HardInv, HardFindingWasMixed
<1>3. CASE (\E es \in EpLists : CStart(es)) \/ (\E db \in DbInfo : Answered(db)) \/ Lost
             \/ CRetry \/ ClusterStep
  <2>1. pc' # "done"
    BY <1>3 DEF CStart, Start, Answered, Lost, Query, CRetry, Retry, ClusterStep, Commit,
                LoseLeader, Elect, Apply, Crash, Restart, Move, vars
  <2>2. QED
    BY <2>1 DEF HardInv
<1>4. QED
  BY <1>1, <1>2, <1>3 DEF CNext

\* A hard finding is real, although the replies it compares are from different
\* moments: in that pass two members that ran had different versions at one
\* moment, or at one moment none ran.
THEOREM HardFindingReal == CSpec => []HardFindingWasMixed
<1> DEFINE HInv == MixedInv /\ HardInv
<1>1. CInit => HInv
  <2> SUFFICES ASSUME CInit
               PROVE  MixedInv /\ HardInv
    OBVIOUS
  <2>1. list = <<>> /\ pc = "start" /\ mixed = Mixed /\ out = (up = {})
    BY DEF CInit, Init
  <2>2. ~mixed /\ ~out => up # {} /\ \A m, n \in up : ver[m] = ver[n]
    BY <2>1 DEF Mixed
  <2>3. QED
    BY <2>1, <2>2 DEF MixedInv, HardInv
<1>2. ClusterInv /\ HInv /\ [CNext]_allVars => HInv'
  BY MixedStep, HardInvStep
<1>3. ClusterInv /\ HInv => HardFindingWasMixed
  BY HardBeforeResult DEF HardInv
<1> HIDE DEF HInv
<1>4. QED
  BY <1>1, <1>2, <1>3, ClusterInductive, PTL DEF CSpec
=============================================================================
