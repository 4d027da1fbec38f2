-------------------------- MODULE Membership_proofs --------------------------
(***************************************************************************)
(* Proofs about Membership, for every set of endpoints, every endpoint     *)
(* list and any number of membership changes.                              *)
(***************************************************************************)
EXTENDS Membership, SequenceTheorems, TLAPS

-----------------------------------------------------------------------------
(* The inductive invariant. *)

\* Of these lists the k-th is missing, or not the first one.
Differs(lists, k) == lists[k] = Nil \/ lists[k] # lists[1]

\* Nothing has been asked before the loop.
StartInv ==
  pc = "start" => eps = <<>> /\ i = 1 /\ ~detectedInconsistency /\ ~err /\ ~still

\* Somewhere in the loop, or past it: the flag and err are functions of the
\* answers so far, and an answer is of a moment between the first call and now.
LoopInv ==
  pc \in {"loop", "done"} =>
    /\ (detectedInconsistency <=> \E k \in 1..(i - 1) : Differs(memberLists, k))
    /\ result.kind # "failed" => (err <=> i > 1 /\ memberLists[i - 1] = Nil)
    /\ \A k \in 1..(i - 1) :
         memberLists[k] # Nil =>
           from[eps[k]] <= memberLists[k] /\ memberLists[k] <= applied[eps[k]]

\* In a still cluster everybody answers, with the last change.
StillInv ==
  pc \in {"loop", "done"} /\ still =>
    /\ \A n \in Endpoint : applied[n] = agreed
    /\ \A k \in 1..(i - 1) : memberLists[k] = agreed

\* The result is made of what the loop has left behind.
ResultInv ==
  /\ pc # "done" => result = NoResult
  /\ pc = "done" =>
       \/ result.kind = "failed" /\ (eps # <<>> => i = Len(eps) + 1 /\ memberLists[Len(eps)] = Nil)
       \/ /\ i = Len(eps) + 1 /\ ~err
          /\ detectedInconsistency \/ memberLists # <<>>
          /\ result = CheckResult

MInv ==
  /\ TypeOK
  /\ \A n \in Endpoint : from[n] <= applied[n]
  /\ StartInv /\ LoopInv /\ StillInv /\ ResultInv

-----------------------------------------------------------------------------
(* Every action keeps the invariant.                                       *)

\* The ranges of the counters: the loop index, and the changes applied.
LEMMA Ranges ==
  ASSUME TypeOK
  PROVE  /\ Len(eps) \in Nat /\ Len(memberLists) = Len(eps)
         /\ i \in Nat \ {0} /\ i <= Len(eps) + 1
         /\ \A n \in Endpoint :
              applied[n] \in Nat /\ from[n] \in Nat /\ applied[n] <= MaxChanges
<1>1. Len(eps) \in Nat /\ Len(memberLists) = Len(eps) /\ i \in 1..Len(eps) + 1
  BY LenProperties DEF TypeOK
<1>2. agreed \in Nat /\ agreed <= MaxChanges /\ MaxChanges \in Nat
  BY ChangesAssumption DEF TypeOK
<1>3. \A n \in Endpoint : applied[n] \in 0..agreed /\ from[n] \in 0..agreed
  BY DEF TypeOK
<1>4. QED
  BY <1>1, <1>2, <1>3

\* The invariant holds before Diagnose starts.
LEMMA InitMInv == Init => MInv
<1> SUFFICES ASSUME Init
             PROVE  MInv
  OBVIOUS
<1>1. TypeOK
  <2>1. <<>> \in Seq(Endpoint) /\ <<>> \in Seq(Reply) /\ Len(<<>>) = 0
    BY EmptySeq
  <2>2. NoResult \in [kind : Kind, lists : Seq(Reply)]
    BY <2>1 DEF NoResult, Kind
  <2>3. applied \in [Endpoint -> 0..agreed] /\ agreed \in 0..MaxChanges
    BY ChangesAssumption DEF Init
  <2>4. i \in 1..Len(eps) + 1
    BY <2>1 DEF Init
  <2>5. QED
    BY <2>1, <2>2, <2>3, <2>4 DEF Init, TypeOK
<1>2. QED
  BY <1>1 DEF Init, MInv, StartInv, LoopInv, StillInv, ResultInv

\* A failing agent.Endpoints keeps the invariant.
LEMMA EndpointsFailMInv == MInv /\ EndpointsFail => MInv'
<1> SUFFICES ASSUME MInv, EndpointsFail
             PROVE  MInv'
  OBVIOUS
<1>1. TypeOK'
  <2>1. <<>> \in Seq(Reply)
    BY EmptySeq
  <2>2. result' \in [kind : Kind, lists : Seq(Reply)]
    BY <2>1 DEF EndpointsFail, Kind
  <2>3. QED
    BY <2>2 DEF MInv, TypeOK, EndpointsFail, cluster, ghosts
<1>2. /\ pc = "start" /\ pc' = "done" /\ eps' = <<>> /\ i' = 1
      /\ detectedInconsistency' = FALSE /\ ~still' /\ result'.kind = "failed"
  BY DEF MInv, TypeOK, StartInv, EndpointsFail, ghosts
<1>3. LoopInv'
  BY <1>2 DEF LoopInv, Differs
<1>4. StartInv' /\ StillInv' /\ ResultInv'
  BY <1>2 DEF StartInv, StillInv, ResultInv
<1>5. (\A n \in Endpoint : from[n] <= applied[n])'
  BY DEF MInv, EndpointsFail, cluster, ghosts
<1>6. QED
  BY <1>1, <1>3, <1>4, <1>5 DEF MInv

\* The first call is about to be made: the invariant of the loop holds.
LEMMA StartMInv == ASSUME NEW es \in EpLists PROVE MInv /\ Start(es) => MInv'
<1> SUFFICES ASSUME MInv, Start(es)
             PROVE  MInv'
  OBVIOUS
<1>1. es \in Seq(Endpoint) /\ Len(es) \in Nat
  BY EpListsAssumption
<1>2. /\ pc = "start" /\ pc' = "loop" /\ eps' = es /\ i = 1 /\ i' = 1
      /\ detectedInconsistency' = FALSE /\ err' = FALSE
      /\ result' = NoResult /\ from' = applied /\ applied' = applied /\ agreed' = agreed
      /\ still' = (\A n \in Endpoint : applied[n] = agreed)
      /\ memberLists' = Slots(Len(es))
  BY DEF MInv, TypeOK, StartInv, ResultInv, Start, cluster
<1>3. memberLists' \in Seq(Reply) /\ Len(memberLists') = Len(es)
  <2>1. memberLists' = [k \in 1..Len(es) |-> Nil] /\ Nil \in Reply
    BY <1>2 DEF Slots, Reply
  <2>2. QED
    BY <1>1, <2>1
<1>4. TypeOK'
  BY <1>1, <1>2, <1>3 DEF MInv, TypeOK, Start
<1>5. \A n \in Endpoint : applied[n] \in Nat
  <2>1. TypeOK
    BY DEF MInv
  <2>2. QED
    BY <2>1, Ranges
<1>6. \A k : k \notin 1..(i' - 1)
  BY <1>2
<1>7. LoopInv'
  BY <1>2, <1>6 DEF LoopInv, Differs
<1>8. StartInv' /\ StillInv' /\ ResultInv'
  BY <1>2, <1>6 DEF StartInv, StillInv, ResultInv
<1>9. (\A n \in Endpoint : from[n] <= applied[n])'
  BY <1>2, <1>5
<1>10. QED
  BY <1>4, <1>7, <1>8, <1>9 DEF MInv

\* One answer leaves the earlier ones alone, and with them the differences.
LEMMA QueryStep ==
  ASSUME NEW r \in Reply, MInv, Query(r)
  PROVE  /\ i \in 1..Len(eps) /\ i' = i + 1
         /\ memberLists' \in Seq(Reply) /\ Len(memberLists') = Len(memberLists)
         /\ memberLists'[i] = r
         /\ \A k \in 1..(i - 1) : memberLists'[k] = memberLists[k]
         /\ \A k \in 1..(i - 1) : Differs(memberLists', k) = Differs(memberLists, k)
<1>1. i \in 1..Len(eps) /\ i' = i + 1 /\ Len(memberLists) = Len(eps)
  BY DEF MInv, TypeOK, Query
<1>2. /\ memberLists' \in Seq(Reply) /\ Len(memberLists') = Len(memberLists)
      /\ \A j \in 1..Len(memberLists) :
           memberLists'[j] = IF j = i THEN r ELSE memberLists[j]
  BY <1>1, ExceptSeq DEF MInv, TypeOK, Query
<1>3. \A k \in 1..(i - 1) : k \in 1..Len(memberLists) /\ k # i /\ 1 \in 1..(i - 1)
  BY <1>1
<1>4. QED
  BY <1>1, <1>2, <1>3 DEF Differs

\* The flag after an answer says whether one of the answers so far differs.
LEMMA QueryDetects ==
  ASSUME NEW r \in Reply, MInv, Query(r)
  PROVE  (detectedInconsistency' <=> \E k \in 1..(i' - 1) : Differs(memberLists', k))
<1>1. (detectedInconsistency <=> \E k \in 1..(i - 1) : Differs(memberLists, k))
  BY DEF MInv, LoopInv, Query
<1>2. detectedInconsistency' =
        (detectedInconsistency \/ r = Nil \/ (i > 1 /\ ~compareMembers(memberLists[1], r)))
  BY DEF Query, DetectedAfter
<1>3. i \in Nat \ {0} /\ i' - 1 = i
  BY Ranges, QueryStep DEF MInv
<1>4. Differs(memberLists', i) <=>
        r = Nil \/ r # memberLists'[1]
  BY QueryStep DEF Differs
<1>5. (\E k \in 1..(i' - 1) : Differs(memberLists', k)) <=>
        (\E k \in 1..(i - 1) : Differs(memberLists', k)) \/ Differs(memberLists', i)
  BY <1>3
<1>6. (\E k \in 1..(i - 1) : Differs(memberLists', k))
        <=> (\E k \in 1..(i - 1) : Differs(memberLists, k))
  BY QueryStep
<1>7. CASE i = 1
  <2>1. \A k : k \notin 1..(i - 1)
    BY <1>7
  <2>2. memberLists'[1] = r
    BY <1>7, QueryStep
  <2>3. detectedInconsistency' <=> r = Nil
    <3>1. ~detectedInconsistency
      BY <1>1, <2>1
    <3>2. ~(i > 1)
      BY <1>7
    <3>3. QED
      BY <1>2, <3>1, <3>2
  <2>4. (\E k \in 1..(i' - 1) : Differs(memberLists', k)) <=> r = Nil
    BY <1>4, <1>5, <2>1, <2>2
  <2>5. QED
    BY <2>3, <2>4
<1>8. CASE i > 1
  <2>1. memberLists'[1] = memberLists[1] /\ 1 \in 1..(i - 1)
    BY <1>3, <1>8, QueryStep
  <2>2. memberLists[1] = Nil => Differs(memberLists, 1)
    BY DEF Differs
  <2>3. compareMembers(memberLists[1], r) <=>
          memberLists[1] # Nil /\ r # Nil /\ memberLists[1] = r
    BY DEF compareMembers
  <2>4. QED
    BY <1>1, <1>2, <1>4, <1>5, <1>6, <1>8, <2>1, <2>2, <2>3
<1>9. QED
  BY <1>3, <1>7, <1>8

\* One call keeps the invariant, whatever has become of the ghost "still", when
\* the reply is nil or what the member has applied.
LEMMA QueryMInv ==
  ASSUME NEW r \in Reply, MInv, Query(r), from' = from,
         r # Nil => r = applied[eps[i]] /\ still' = still,
         r = Nil => ~still', still' \in BOOLEAN
  PROVE  MInv'
<1>1. /\ pc = "loop" /\ pc' = "loop" /\ eps' = eps /\ result' = result
      /\ agreed' = agreed /\ applied' = applied
      /\ err' = (r = Nil) /\ err' \in BOOLEAN /\ result = NoResult
  BY DEF Query, cluster, MInv, ResultInv
<1>2. /\ i \in Nat \ {0} /\ i' = i + 1 /\ i' - 1 = i /\ i' > 1
      /\ i' \in 1..(Len(eps) + 1) /\ eps[i] \in Endpoint
  <2>1. i \in 1..Len(eps) /\ i' = i + 1 /\ eps \in Seq(Endpoint) /\ Len(eps) \in Nat
    BY QueryStep, LenProperties DEF MInv, TypeOK
  <2>2. QED
    BY <2>1, ElementOfSeq
<1>3. TypeOK'
  <2>1. detectedInconsistency' \in BOOLEAN
    BY DEF Query, DetectedAfter
  <2>2. QED
    BY <1>1, <1>2, <2>1, QueryStep DEF MInv, TypeOK
<1>4. LoopInv'
  <2>1. (detectedInconsistency' <=> \E k \in 1..(i' - 1) : Differs(memberLists', k))
    BY QueryDetects
  <2>2. (err' <=> i' > 1 /\ memberLists'[i' - 1] = Nil)
    <3>1. memberLists'[i' - 1] = r
      BY <1>2, QueryStep
    <3>2. QED
      BY <1>1, <1>2, <3>1
  <2>3. ASSUME NEW k \in 1..(i' - 1), memberLists'[k] # Nil
        PROVE  from[eps[k]] <= memberLists'[k] /\ memberLists'[k] <= applied[eps[k]]
    <3>1. CASE k = i
      <4>1. memberLists'[k] = applied[eps[k]]
        BY <2>3, <3>1, QueryStep
      <4>2. from[eps[k]] <= applied[eps[k]] /\ applied[eps[k]] \in Int
        BY <1>2, <3>1 DEF MInv, TypeOK
      <4>3. QED
        BY <4>1, <4>2
    <3>2. CASE k # i
      <4>1. k \in 1..(i - 1)
        BY <1>2, <3>2
      <4>2. memberLists'[k] = memberLists[k]
        BY <4>1, QueryStep
      <4>3. QED
        BY <1>1, <2>3, <4>1, <4>2 DEF MInv, LoopInv
    <3>3. QED
      BY <3>1, <3>2
  <2>4. QED
    BY <1>1, <2>1, <2>2, <2>3 DEF LoopInv
<1>5. StillInv'
  <2>1. SUFFICES ASSUME still'
                 PROVE  /\ \A n \in Endpoint : applied[n] = agreed
                        /\ \A k \in 1..(i' - 1) : memberLists'[k] = agreed
    BY <1>1 DEF StillInv
  <2>2. r = applied[eps[i]] /\ still
    BY <2>1
  <2>3. /\ \A n \in Endpoint : applied[n] = agreed
        /\ \A k \in 1..(i - 1) : memberLists[k] = agreed
    BY <1>1, <2>2 DEF MInv, StillInv
  <2>4. ASSUME NEW k \in 1..(i' - 1)
        PROVE  memberLists'[k] = agreed
    <3>1. k = i \/ k \in 1..(i - 1)
      BY <1>2
    <3>2. QED
      BY <1>2, <2>2, <2>3, <3>1, QueryStep
  <2>5. QED
    BY <2>3, <2>4
<1>6. StartInv' /\ ResultInv'
  BY <1>1 DEF StartInv, ResultInv
<1>7. (\A n \in Endpoint : from[n] <= applied[n])'
  BY <1>1 DEF MInv
<1>8. QED
  BY <1>3, <1>4, <1>5, <1>6, <1>7 DEF MInv

\* An answering member keeps the invariant.
LEMMA AnsweredMInv == MInv /\ Answered => MInv'
<1> SUFFICES ASSUME MInv, Answered
             PROVE  MInv'
  OBVIOUS
<1>1. eps[i] \in Endpoint
  <2>1. i \in 1..Len(eps) /\ eps \in Seq(Endpoint)
    BY DEF MInv, TypeOK, Answered
  <2>2. QED
    BY <2>1, ElementOfSeq
<1>2. applied[eps[i]] \in 0..MaxChanges
  BY <1>1, ChangesAssumption DEF MInv, TypeOK
<1>3. applied[eps[i]] \in Reply /\ applied[eps[i]] # Nil
  BY <1>2, NilAssumption DEF Reply
<1>4. from' = from /\ still' = still /\ still' \in BOOLEAN /\ Query(applied[eps[i]])
  BY DEF Answered, ghosts, MInv, TypeOK
<1>5. QED
  BY <1>3, <1>4, QueryMInv

\* A member that does not answer keeps the invariant.
LEMMA LostMInv == MInv /\ Lost => MInv'
<1> SUFFICES ASSUME MInv, Lost
             PROVE  MInv'
  OBVIOUS
<1>1. Nil \in Reply /\ Query(Nil) /\ still' = FALSE /\ from' = from
  BY DEF Lost, Reply
<1>2. QED
  BY <1>1, QueryMInv

\* The end of Diagnose keeps the invariant: it builds the result from what the
\* loop has left behind.
LEMMA FinishMInv == MInv /\ Finish => MInv'
<1> SUFFICES ASSUME MInv, Finish
             PROVE  MInv'
  OBVIOUS
<1>1. /\ pc = "loop" /\ pc' = "done" /\ i = Len(eps) + 1
      /\ eps' = eps /\ memberLists' = memberLists /\ i' = i
      /\ detectedInconsistency' = detectedInconsistency /\ err' = err
      /\ agreed' = agreed /\ applied' = applied /\ still' = still /\ from' = from
      /\ result = NoResult
      /\ result' = IF err THEN [kind |-> "failed", lists |-> <<>>] ELSE CheckResult
      /\ detectedInconsistency \/ memberLists # <<>>
  BY DEF MInv, TypeOK, Finish, cluster, ghosts, ResultInv
<1>2. /\ Len(eps) \in Nat /\ memberLists \in Seq(Reply) /\ Len(memberLists) = Len(eps)
      /\ err \in BOOLEAN /\ detectedInconsistency \in BOOLEAN
  BY DEF MInv, TypeOK
<1>3. /\ (detectedInconsistency <=> \E k \in 1..(i - 1) : Differs(memberLists, k))
      /\ (err <=> i > 1 /\ memberLists[i - 1] = Nil)
      /\ \A k \in 1..(i - 1) :
           memberLists[k] # Nil =>
             from[eps[k]] <= memberLists[k] /\ memberLists[k] <= applied[eps[k]]
  BY <1>1 DEF MInv, LoopInv, NoResult
<1>4. eps # <<>>
  BY <1>1, <1>2, <1>3
<1>5. memberLists[1] \in Reply
  BY <1>2, <1>4, ElementOfSeq DEF MInv, TypeOK
<1>6. TypeOK'
  <2>1. <<>> \in Seq(Reply) /\ <<memberLists[1]>> \in Seq(Reply)
    BY <1>5
  <2>2. result' \in [kind : Kind, lists : Seq(Reply)]
    BY <1>1, <1>2, <2>1 DEF CheckResult, Kind
  <2>3. QED
    BY <1>1, <2>2 DEF MInv, TypeOK
<1>7. LoopInv'
  BY <1>1, <1>3 DEF LoopInv, Differs
<1>8. StartInv' /\ StillInv'
  BY <1>1 DEF MInv, StartInv, StillInv
<1>9. ResultInv'
  <2>1. CASE err
    BY <1>1, <1>2, <1>3, <2>1 DEF ResultInv
  <2>2. CASE ~err
    BY <1>1, <1>2, <2>2 DEF ResultInv, CheckResult
  <2>3. QED
    BY <1>2, <2>1, <2>2
<1>10. (\A n \in Endpoint : from[n] <= applied[n])'
  BY <1>1 DEF MInv
<1>11. QED
  BY <1>6, <1>7, <1>8, <1>9, <1>10 DEF MInv

\* The panic keeps the invariant.
LEMMA PanicMInv == MInv /\ Panic => MInv'
  BY DEF MInv, TypeOK, StartInv, LoopInv, StillInv, ResultInv, Panic, cluster, ghosts

\* A change of the membership keeps the invariant: an answer given stays below
\* what the member has applied.
LEMMA ChangeMInv == MInv /\ Change => MInv'
<1> SUFFICES ASSUME MInv, Change
             PROVE  MInv'
  OBVIOUS
<1>1. /\ pc \in {"start", "loop"} /\ pc' = pc /\ eps' = eps /\ memberLists' = memberLists
      /\ i' = i /\ detectedInconsistency' = detectedInconsistency /\ err' = err
      /\ result' = result /\ applied' = applied /\ from' = from
      /\ ~still' /\ still' \in BOOLEAN /\ agreed' = agreed + 1 /\ agreed < MaxChanges
  BY DEF Change, plugin
<1>2. TypeOK'
  <2>1. agreed' \in 0..MaxChanges /\ agreed \in Nat
    BY <1>1, ChangesAssumption DEF MInv, TypeOK
  <2>2. applied' \in [Endpoint -> 0..agreed'] /\ from' \in [Endpoint -> 0..agreed']
    BY <1>1, <2>1 DEF MInv, TypeOK
  <2>3. QED
    BY <1>1, <2>1, <2>2 DEF MInv, TypeOK
<1>3. StartInv' /\ LoopInv' /\ StillInv' /\ ResultInv'
  BY <1>1 DEF MInv, StartInv, LoopInv, StillInv, ResultInv, Differs
<1>4. (\A n \in Endpoint : from[n] <= applied[n])'
  BY <1>1 DEF MInv
<1>5. QED
  BY <1>2, <1>3, <1>4 DEF MInv

\* A member that catches up keeps the invariant.
LEMMA ApplyMInv == ASSUME NEW n \in Endpoint PROVE MInv /\ Apply(n) => MInv'
<1> SUFFICES ASSUME MInv, Apply(n)
             PROVE  MInv'
  OBVIOUS
<1>1. /\ pc \in {"start", "loop"} /\ pc' = pc /\ eps' = eps /\ memberLists' = memberLists
      /\ i' = i /\ detectedInconsistency' = detectedInconsistency /\ err' = err
      /\ result' = result /\ from' = from /\ agreed' = agreed
      /\ ~still' /\ still' \in BOOLEAN
      /\ applied' = [applied EXCEPT ![n] = applied[n] + 1] /\ applied[n] < agreed
  BY DEF Apply, plugin
<1>2. agreed \in Nat /\ applied \in [Endpoint -> 0..agreed] /\ from \in [Endpoint -> 0..agreed]
  BY DEF MInv, TypeOK
<1>3. /\ applied' \in [Endpoint -> 0..agreed]
      /\ \A m \in Endpoint : applied[m] \in Nat /\ applied'[m] \in Nat /\ applied[m] <= applied'[m]
  BY <1>1, <1>2
<1>4. TypeOK'
  BY <1>1, <1>3 DEF MInv, TypeOK
<1>5. (\A m \in Endpoint : from[m] <= applied[m])'
  <2>1. \A m \in Endpoint : from[m] <= applied[m] /\ from[m] \in Nat
    BY <1>2 DEF MInv
  <2>2. QED
    BY <1>1, <1>3, <2>1
<1>6. LoopInv'
  <2>1. SUFFICES ASSUME pc = "loop"
                 PROVE  LoopInv'
    BY <1>1 DEF LoopInv
  <2>2. ASSUME NEW k \in 1..(i - 1), memberLists[k] # Nil
        PROVE  from[eps[k]] <= memberLists[k] /\ memberLists[k] <= applied'[eps[k]]
    <3>1. k \in 1..Len(eps) /\ eps \in Seq(Endpoint) /\ memberLists \in Seq(Reply)
          /\ Len(memberLists) = Len(eps)
      BY DEF MInv, TypeOK
    <3>2. eps[k] \in Endpoint /\ memberLists[k] \in Nat
      BY <2>2, <3>1, ElementOfSeq, ChangesAssumption DEF Reply
    <3>3. from[eps[k]] <= memberLists[k] /\ memberLists[k] <= applied[eps[k]]
      BY <2>1, <2>2 DEF MInv, LoopInv
    <3>4. QED
      BY <1>3, <3>2, <3>3
  <2>3. QED
    BY <1>1, <2>1, <2>2 DEF MInv, LoopInv, Differs
<1>7. StartInv' /\ StillInv' /\ ResultInv'
  BY <1>1 DEF MInv, StartInv, StillInv, ResultInv
<1>8. QED
  BY <1>4, <1>5, <1>6, <1>7 DEF MInv

\* The invariant is inductive.
LEMMA NextMInv == MInv /\ [Next]_vars => MInv'
<1> SUFFICES ASSUME MInv, [Next]_vars
             PROVE  MInv'
  OBVIOUS
<1>1. CASE EndpointsFail
  BY <1>1, EndpointsFailMInv
<1>2. CASE \E es \in EpLists : Start(es)
  BY <1>2, StartMInv
<1>3. CASE Answered
  BY <1>3, AnsweredMInv
<1>4. CASE Lost
  BY <1>4, LostMInv
<1>5. CASE Finish
  BY <1>5, FinishMInv
<1>6. CASE Panic
  BY <1>6, PanicMInv
<1>7. CASE Change
  BY <1>7, ChangeMInv
<1>8. CASE \E n \in Endpoint : Apply(n)
  BY <1>8, ApplyMInv
<1>9. CASE UNCHANGED vars
  BY <1>9 DEF MInv, TypeOK, StartInv, LoopInv, StillInv, ResultInv, CheckResult, Differs,
              vars, plugin, cluster, ghosts
<1>10. QED
  BY <1>1, <1>2, <1>3, <1>4, <1>5, <1>6, <1>7, <1>8, <1>9 DEF Next

\* It holds in every reachable state.
THEOREM MInvariant == Spec => []MInv
<1>1. Init => MInv
  BY InitMInv
<1>2. MInv /\ [Next]_vars => MInv'
  BY NextMInv
<1>3. QED
  BY <1>1, <1>2, PTL DEF Spec

-----------------------------------------------------------------------------
(* What follows from it.                                                   *)

\* What a verdict says of the answers: "Successful" means that the last call
\* was answered, that nobody differs, and that the first list is shown.
LEMMA VerdictFacts ==
  ASSUME MInv
  PROVE  /\ result.kind = "successful" =>
              /\ i = Len(eps) + 1 /\ pc = "done" /\ eps # <<>>
              /\ result.lists = <<memberLists[1]>>
              /\ \A k \in 1..Len(eps) : ~Differs(memberLists, k)
         /\ result.kind = "inconsistent" =>
              /\ result.lists = memberLists
              /\ \E k \in 1..Len(eps) : Differs(memberLists, k)
              /\ memberLists[Len(eps)] # Nil /\ Len(eps) > 0
<1>1. pc # "done" => result.kind = "none"
  BY DEF MInv, ResultInv, NoResult
<1>2. CASE pc = "done" /\ result.kind \in {"successful", "inconsistent"}
  <2>1. /\ i = Len(eps) + 1 /\ ~err /\ result = CheckResult
        /\ detectedInconsistency \/ memberLists # <<>>
    BY <1>2 DEF MInv, ResultInv
  <2>2. /\ (detectedInconsistency <=> \E k \in 1..(i - 1) : Differs(memberLists, k))
        /\ (err <=> i > 1 /\ memberLists[i - 1] = Nil)
    BY <1>2 DEF MInv, LoopInv
  <2>3. Len(eps) \in Nat /\ Len(memberLists) = Len(eps) /\ i - 1 = Len(eps)
    BY <2>1 DEF MInv, TypeOK
  <2>4. memberLists \in Seq(Reply) /\ eps \in Seq(Endpoint)
    BY DEF MInv, TypeOK
  <2>5. Len(eps) > 0
    BY <2>1, <2>2, <2>3, <2>4
  <2>6. memberLists[Len(eps)] # Nil
    BY <2>1, <2>2, <2>3, <2>5
  <2>7. QED
    BY <1>2, <2>1, <2>2, <2>3, <2>5, <2>6 DEF CheckResult
<1>3. QED
  BY <1>1, <1>2

\* A result that is there is a failure exactly if the last call failed.
LEMMA FailureFacts ==
  ASSUME MInv, pc = "done", eps # <<>>
  PROVE  /\ Len(eps) \in Nat \ {0}
         /\ result.kind \in {"failed", "inconsistent", "successful"}
         /\ result.kind = "failed" <=> memberLists[Len(eps)] = Nil
<1>1. Len(eps) \in Nat \ {0}
  BY EmptySeq DEF MInv, TypeOK
<1>2. CASE result.kind = "failed"
  BY <1>1, <1>2 DEF MInv, ResultInv, CheckResult
<1>3. CASE result.kind # "failed"
  <2>1. i = Len(eps) + 1 /\ ~err /\ result = CheckResult
    BY <1>3 DEF MInv, ResultInv
  <2>2. (err <=> i > 1 /\ memberLists[i - 1] = Nil)
    BY <1>3 DEF MInv, LoopInv
  <2>3. i > 1 /\ i - 1 = Len(eps)
    BY <1>1, <2>1
  <2>4. memberLists[Len(eps)] # Nil
    BY <2>1, <2>2, <2>3
  <2>5. QED
    BY <1>1, <1>3, <2>1, <2>4 DEF CheckResult
<1>4. QED
  BY <1>2, <1>3

\* The invariant implies that a verdict is of all endpoints.
LEMMA MInvVerdict == MInv => VerdictIsOfAll
<1> SUFFICES ASSUME MInv, pc = "done", eps # <<>>
             PROVE  /\ result.kind = "failed" <=> memberLists[Len(eps)] = Nil
                    /\ result.kind = "successful" <=>
                         \A k \in 1..Len(eps) :
                           memberLists[k] # Nil /\ memberLists[k] = memberLists[1]
                    /\ result.kind = "successful" => result.lists = <<memberLists[1]>>
                    /\ result.kind = "inconsistent" => result.lists = memberLists
  BY DEF VerdictIsOfAll
<1>1. /\ Len(eps) \in Nat \ {0}
      /\ result.kind \in {"failed", "inconsistent", "successful"}
      /\ result.kind = "failed" <=> memberLists[Len(eps)] = Nil
  BY FailureFacts
<1>2. CASE result.kind = "failed"
  <2>1. memberLists[Len(eps)] = Nil /\ Len(eps) \in 1..Len(eps)
    BY <1>1, <1>2
  <2>2. QED
    BY <1>2, <2>1
<1>3. CASE result.kind = "inconsistent"
  <2>1. PICK k \in 1..Len(eps) : Differs(memberLists, k)
    BY <1>3, VerdictFacts
  <2>2. result.lists = memberLists
    BY <1>3, VerdictFacts
  <2>3. QED
    BY <1>1, <1>3, <2>1, <2>2 DEF Differs
<1>4. CASE result.kind = "successful"
  <2>1. /\ result.lists = <<memberLists[1]>>
        /\ \A k \in 1..Len(eps) : ~Differs(memberLists, k)
    BY <1>4, VerdictFacts
  <2>2. QED
    BY <1>1, <1>4, <2>1 DEF Differs
<1>5. QED
  BY <1>1, <1>2, <1>3, <1>4

\* The invariant implies that the list of a clean report is not stale.
LEMMA MInvFresh == MInv => SuccessIsFresh
<1> SUFFICES ASSUME MInv, result.kind = "successful", NEW k \in 1..Len(eps)
             PROVE  /\ from[eps[k]] <= result.lists[1]
                    /\ result.lists[1] <= applied[eps[k]]
  BY DEF SuccessIsFresh
<1>1. /\ pc = "done" /\ k \in 1..(i - 1) /\ result.lists[1] = memberLists[1]
      /\ ~Differs(memberLists, k)
  BY VerdictFacts DEF MInv, TypeOK
<1>2. memberLists[k] # Nil /\ memberLists[k] = memberLists[1]
  BY <1>1 DEF Differs
<1>3. QED
  BY <1>1, <1>2 DEF MInv, LoopInv

\* The invariant implies that a still cluster gets a clean verdict.
LEMMA MInvStill == MInv => StillIsSuccessful
<1> SUFFICES ASSUME MInv, pc = "done", eps # <<>>, still
             PROVE  result.kind = "successful"
  BY DEF StillIsSuccessful
<1>1. /\ \A k \in 1..(i - 1) : memberLists[k] = agreed
      /\ agreed # Nil
  BY NilAssumption DEF MInv, StillInv, TypeOK
<1>2. eps \in Seq(Endpoint) /\ Len(eps) \in Nat \ {0}
  BY EmptySeq DEF MInv, TypeOK
<1>3. i = Len(eps) + 1
  BY DEF MInv, ResultInv
<1>4. \A k \in 1..Len(eps) : memberLists[k] # Nil /\ memberLists[k] = memberLists[1]
  BY <1>1, <1>2, <1>3
<1>5. result = CheckResult
  BY <1>2, <1>4 DEF MInv, ResultInv
<1>6. ~detectedInconsistency
  BY <1>2, <1>3, <1>4 DEF MInv, LoopInv, Differs
<1>7. QED
  BY <1>5, <1>6 DEF CheckResult

\* The plugin's variables keep their types: no index of the loop is ever out
\* of the two slices, and a result has one of the four forms.
THEOREM TypeCorrect == Spec => []TypeOK
<1>1. MInv => TypeOK
  BY DEF MInv
<1>2. QED
  BY <1>1, MInvariant, PTL

\* The verdict is that of all lists, for every list of endpoints and however the
\* membership changes meanwhile - unless the last call fails, whose error is
\* then the result.
THEOREM VerdictOfAll == Spec => []VerdictIsOfAll
  BY MInvVerdict, MInvariant, PTL

\* The list a clean report shows is not older than what any endpoint knew at
\* the first call, and not newer than what it knows at the end.
THEOREM SuccessFresh == Spec => []SuccessIsFresh
  BY MInvFresh, MInvariant, PTL

\* A cluster that is still during the diagnosis gets a clean verdict.
THEOREM StillSuccessful == Spec => []StillIsSuccessful
  BY MInvStill, MInvariant, PTL
=============================================================================
