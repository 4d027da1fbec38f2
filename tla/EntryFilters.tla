---------------------------- MODULE EntryFilters ----------------------------
(***************************************************************************)
(* --entry-type: which entries of the log are listed, and as what.         *)
(*                                                                         *)
(* What the filters can tell of an entry's data: is it a configuration     *)
(* change, does it unmarshal as a (v2) Request, and as which kind of       *)
(* InternalRaftRequest, if as any.  Some data unmarshals as both.          *)
(***************************************************************************)
EXTENDS Integers, Sequences, FiniteSets

\* The elements of s at the positions in P, in their order: what a loop over s
\* that skips the others appends.
Rank(p, P) == Cardinality({q \in P : q <= p})
Pick(s, P) == [n \in 1..Cardinality(P) |-> s[CHOOSE p \in P : Rank(p, P) = n]]

IRRKinds ==
  {"IRRRange", "IRRPut", "IRRDeleteRange", "IRRTxn", "IRRCompaction",
   "IRRLeaseGrant", "IRRLeaseRevoke", "IRRLeaseCheckpoint"}

EntryData ==
  [conf : BOOLEAN, request : BOOLEAN, irr : IRRKinds \cup {"other", "none"}]

\* The pass functions, by the type they look for.
Passes(filter, e) ==
  CASE filter = "ConfigChange" -> e.conf
    [] filter = "InternalRaftRequest" -> ~e.conf /\ e.irr # "none"
    [] filter = "Request" -> ~e.conf /\ e.request /\ e.irr = "none"
    [] filter = "UnknownNormal" -> ~e.conf /\ ~e.request /\ e.irr = "none"
    [] OTHER -> ~e.conf /\ e.irr = filter

\* The type they return, which chooses the printer.
TypeOf(filter) == IF filter \in IRRKinds THEN "InternalRaftRequest" ELSE filter

validRequest ==
  [type \in {"ConfigChange", "Normal", "Request", "InternalRaftRequest"} \cup IRRKinds |->
     IF type = "Normal" THEN <<"InternalRaftRequest", "Request", "UnknownNormal">>
     ELSE <<type>>]

defaultEntryTypes == <<"Normal", "ConfigChange">>

\* The filters, in groups, one for each type named.  A name that is not valid
\* is ignored.
evaluateEntrytypeFlag(types) ==
  [n \in DOMAIN types |->
     IF types[n] \in DOMAIN validRequest THEN validRequest[types[n]] ELSE <<>>]

\* The places of the filters that an entry passes, and their order.
Passed(filters, e) ==
  {a \in (DOMAIN filters) \X (1..3) :
     a[2] \in DOMAIN filters[a[1]] /\ Passes(filters[a[1]][a[2]], e)}
Earliest(places) ==
  CHOOSE a \in places :
    \A b \in places : a[1] < b[1] \/ (a[1] = b[1] /\ a[2] <= b[2])

FaultyChosen(filters, e) ==
  LET last == filters[Len(filters)]
  IN  IF filters # <<>> /\ last # <<>> /\ Passes(last[Len(last)], e)
      THEN {last[Len(last)]} ELSE {}

\* The filter that decides is the first one the entry passes, if any.
Chosen(filters, e) ==
  LET first == Earliest(Passed(filters, e))
  IN  IF Passed(filters, e) = {} THEN {} ELSE {filters[first[1]][first[2]]}

\* The rows of the list.  data[i] is the data of the entry with index i.
Row(e, filters, data) ==
  [i |-> e.i, t |-> e.t,
   type |-> TypeOf(CHOOSE f \in Chosen(filters, data[e.i]) : TRUE)]
listEntriesType(types, ents, data) ==
  LET filters == evaluateEntrytypeFlag(types)
      listed == {n \in DOMAIN ents : Chosen(filters, data[ents[n].i]) # {}}
  IN  [n \in 1..Cardinality(listed) |-> Row(Pick(ents, listed)[n], filters, data)]
=============================================================================
