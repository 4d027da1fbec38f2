-------------------------- MODULE EpStatusVerdict ---------------------------
(***************************************************************************)
(* What the endpoint-status plugin promises, without its loop, its flags   *)
(* and its retries: the verdict is a function of ONE complete pass over    *)
(* the endpoints.  In a single step the whole vector of answers is there   *)
(* and the findings are read off it.  EpStatus is shown to implement this. *)
(***************************************************************************)
EXTENDS EpStatusData

VARIABLES
  answers,   \* the replies of the pass the verdict is about, by position
  result     \* what Diagnose returned

vars == <<answers, result>>

-----------------------------------------------------------------------------
(* The findings of the first k answers of a pass. *)

Unreachable(ans, k) == {i \in 1..k : ans[i] = Nil}

Erroneous(ans, k) == {i \in 1..k : ans[i] # Nil /\ ans[i].errs}

\* Positions that are compared with the first one.
Compared(ans, k) ==
  {i \in 2..k : ans[i] # Nil /\ ~ans[i].errs}

HardMismatch(ans, k) ==
  {i \in Compared(ans, k) : ~compareHardInfo(ans[1], ans[i])}

\* A definitive finding is never retried, and it stops the soft comparisons.
Definitive(ans, k) == Erroneous(ans, k) \cup HardMismatch(ans, k)

SoftMismatch(ans, k) ==
  {i \in Compared(ans, k) :
     /\ Definitive(ans, i) = {}
     /\ ~compareSoftInfo(ans[1], ans[i])}

PassFindings(ans, k) ==
       {<<"failed", i>> : i \in Unreachable(ans, k)}
  \cup {<<"errors", i>> : i \in Erroneous(ans, k)}
  \cup {<<"hard", i>> : i \in HardMismatch(ans, k)}
  \cup {<<"soft", i>> : i \in SoftMismatch(ans, k)}

DbFindings(ans) ==
  {<<"db", i>> : i \in {j \in 1..Len(ans) : ans[j] # Nil /\ DbTooLarge(ans[j].db)}}

\* The last answer decides the shape of the result: an error there is what
\* the deferred function of Diagnose sees, and it replaces everything else.
Judge(ans) ==
  IF Len(ans) > 0 /\ ans[Len(ans)] = Nil
  THEN FailedResult(<<"failed", Len(ans)>>)
  ELSE CheckResult(PassFindings(ans, Len(ans)) \cup DbFindings(ans))

-----------------------------------------------------------------------------
Init ==
  /\ answers = <<>>
  /\ result = NoResult

\* The endpoint list could not be obtained.
NoEndpoints ==
  /\ result = NoResult
  /\ result' = FailedResult(<<"endpoints", 0>>)
  /\ UNCHANGED answers

\* One pass, some vector of answers, its verdict.
Conclude ==
  /\ result = NoResult
  /\ answers' \in Seq(Reply)
  /\ result' = Judge(answers')

Next == NoEndpoints \/ Conclude

Spec == Init /\ [][Next]_vars
=============================================================================
