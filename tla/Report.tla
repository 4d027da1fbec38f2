------------------------------- MODULE Report -------------------------------
(***************************************************************************)
(* The command `etcd-diagnosis report`: reportCommandFunc runs five        *)
(* plugins one after the other through engine.Diagnose, which collects     *)
(* their results and writes them to a file at the very end.                *)
(*                                                                         *)
(* What a plugin finds is the business of Membership, EpStatus and         *)
(* ReadChecker.  Here a plugin is its calls: it resolves its endpoints,    *)
(* asks them in order (epstatus and read in up to maxRetries passes), and  *)
(* returns a result of some kind, or takes the process down.               *)
(***************************************************************************)
EXTENDS Agent

CONSTANTS
  Configs,     \* the command lines
  SrvAnswers,  \* what an SRV lookup may answer
  UrlLists,    \* the client URLs the cluster may have published
  MaxChanges,  \* the bound on changes of the published URLs
  maxRetries   \* 3 in the code

ASSUME ConfigsAssumption == Configs \subseteq GlobalConfig
ASSUME AnswersAssumption == SrvAnswers \subseteq Answer /\ UrlLists \subseteq Seq(Endpoint)
ASSUME BoundsAssumption == MaxChanges \in Nat /\ maxRetries \in Nat \ {0}

\* In the order of reportCommandFunc.
plugins == <<"membership", "epstatus", "serializable", "linearizable", "metrics">>

VARIABLES
  cfg,       \* the command line, certificates filled in
  urls,      \* the client URLs in the cluster's member list
  changes,   \* how often they have changed
  pc,        \* "start", "resolve", "call", "wait", "marshal", "write",
             \* "flush" or "exit"
  p,         \* the plugin that runs
  eps, k, pass, \* its endpoints, the one it asks next, its passes so far
  results,   \* rp.Results
  file,      \* the report file: "old" (absent, or of an earlier run),
             \* "truncated" or "report"
  exit,      \* "none", "ok", "fatal", "panic" or "killed"
  seen       \* ghost, seen[j]: how often urls had changed when plugin j resolved
             \* its endpoints

plugin == <<p, eps, k, pass>>
vars == <<cfg, urls, changes, pc, plugin, results, file, exit, seen>>

Kind == {"checked", "failed", "unmarshalable"}
PluginResult == [by : 1..Len(plugins), kind : Kind, eps : Seq(Endpoint)]

Marshalable(res) == res.kind # "unmarshalable"

Init ==
  /\ cfg \in Configs
  /\ urls \in UrlLists
  /\ changes = 0
  /\ pc = "start"
  /\ p = 1 /\ eps = <<>> /\ k = 1 /\ pass = 1
  /\ results = <<>>
  /\ file = "old"
  /\ exit = "none"
  /\ seen = [j \in 1..Len(plugins) |-> 0]

-----------------------------------------------------------------------------
(* The environment: the cluster, the servers asked, the operator. *)

\* A member publishes its client URLs, is added or is removed.
ChangeUrls ==
  /\ exit = "none"
  /\ changes < MaxChanges
  /\ changes' = changes + 1
  /\ urls' \in UrlLists \ {urls}
  /\ UNCHANGED <<cfg, pc, plugin, results, file, exit, seen>>

\* The server answers, or the connection breaks.
Reply ==
  /\ pc = "wait"
  /\ pc' = "call"
  /\ k' = k + 1
  /\ UNCHANGED <<cfg, urls, changes, p, eps, pass, results, file, exit, seen>>

\* Ctrl-C, or the machine goes down.
Kill ==
  /\ exit = "none"
  /\ pc' = "exit"
  /\ exit' = "killed"
  /\ UNCHANGED <<cfg, urls, changes, plugin, results, file, seen>>

-----------------------------------------------------------------------------
(* reportCommandFunc and the plugins. *)

AutoPopulate ==
  /\ pc = "start"
  /\ pc' = "resolve"
  /\ cfg' = autoPopulateCertificate(cfg)
  /\ UNCHANGED <<urls, changes, plugin, results, file, exit, seen>>

FaultyCollected(res) == IF Marshalable(res) THEN Append(results, res) ELSE results

\* rp.Results = append(rp.Results, result), before it is known to marshal.
Collected(res) == Append(results, res)

\* The plugin returns res to Diagnose, which goes on to the next one.
Return(kind, es) ==
  LET res == [by |-> p, kind |-> kind, eps |-> es]
  IN  /\ results' = Collected(res)
      /\ p' = p + 1
      /\ pc' = IF p = Len(plugins) THEN "marshal" ELSE "resolve"
      /\ UNCHANGED <<cfg, urls, changes, file, exit>>

\* The list agent.Endpoints returns; members is MemberList's answer.
Resolved(srv, members) == Endpoints(cfg, srv, members)

ResolveFails(srv, members) ==
  /\ pc = "resolve"
  /\ ~Resolved(srv, members).ok
  /\ Return("failed", <<>>)
  /\ seen' = [seen EXCEPT ![p] = changes]
  /\ UNCHANGED <<eps, k, pass>>

Resolve(srv, members) ==
  /\ pc = "resolve"
  /\ Resolved(srv, members).ok
  /\ eps' = Resolved(srv, members).eps
  /\ k' = 1 /\ pass' = 1
  /\ pc' = "call"
  /\ seen' = [seen EXCEPT ![p] = changes]
  /\ UNCHANGED <<cfg, urls, changes, p, results, file, exit>>

\* The next call reads certificates; without any, agent.Metrics cannot.
Loads == IF plugins[p] = "metrics" THEN MetricsLoads(eps[k]) ELSE ClientLoads(cfg)

Loadable == plugins[p] = "metrics" /\ MetricsLoads(eps[k]) => ClientLoads(cfg)

\* The next call: every plugin dials anew.
Call ==
  /\ pc = "call"
  /\ k <= Len(eps)
  /\ Loadable
  /\ pc' = "wait"
  /\ UNCHANGED <<cfg, urls, changes, plugin, results, file, exit, seen>>

\* A certificate cannot be loaded: the call fails without being made.
CallFails ==
  /\ pc = "call"
  /\ k <= Len(eps)
  /\ Loads
  /\ k' = k + 1
  /\ UNCHANGED <<cfg, urls, changes, pc, p, eps, pass, results, file, exit, seen>>

FaultyBounded == {"membership", "epstatus", "serializable"}

\* The plugins whose calls carry a context with the command timeout;
\* the http.Client of agent.Metrics has none.
Bounded == {"membership", "epstatus", "serializable", "linearizable"}

TimeOut ==
  /\ pc = "wait"
  /\ plugins[p] \in Bounded
  /\ pc' = "call"
  /\ k' = k + 1
  /\ UNCHANGED <<cfg, urls, changes, p, eps, pass, results, file, exit, seen>>

FaultyMorePasses == pass <= maxRetries

MorePasses == pass < maxRetries

NextPass == pass + 1

\* epstatus and read start over.
Again ==
  /\ pc = "call"
  /\ k > Len(eps) /\ eps # <<>>
  /\ plugins[p] \in {"epstatus", "serializable", "linearizable"}
  /\ MorePasses
  /\ pass' = NextPass
  /\ k' = 1
  /\ UNCHANGED <<cfg, urls, changes, pc, p, eps, results, file, exit, seen>>

\* The kinds of result a plugin has after it has asked somebody: the error of
\* the last call makes a failure in membership and epstatus; in metrics a
\* gauge or a sum may be NaN, which JSON cannot express.
Kinds ==
  CASE eps = <<>> -> {"checked"}
    [] plugins[p] \in {"membership", "epstatus"} -> {"checked", "failed"}
    [] plugins[p] = "metrics" -> {"checked", "unmarshalable"}
    [] OTHER -> {"checked"}

PluginReturns ==
  /\ pc = "call"
  /\ k > Len(eps)
  /\ plugins[p] = "membership" => eps # <<>>
  /\ \E kind \in Kinds : Return(kind, eps)
  /\ UNCHANGED <<eps, k, pass, seen>>

\* membership shows the first of no member lists.
Panic ==
  /\ pc = "call"
  /\ plugins[p] = "membership" /\ eps = <<>>
  /\ pc' = "exit"
  /\ exit' = "panic"
  /\ UNCHANGED <<cfg, urls, changes, plugin, results, file, seen>>

-----------------------------------------------------------------------------
(* The end of engine.Diagnose. *)

ReportMarshals == \A j \in 1..Len(results) : Marshalable(results[j])

Marshal ==
  /\ pc = "marshal"
  /\ IF ReportMarshals
     THEN pc' = "write" /\ exit' = exit
     ELSE pc' = "exit" /\ exit' = "fatal"
  /\ UNCHANGED <<cfg, urls, changes, plugin, results, file, seen>>

Fatal ==
  /\ pc' = "exit"
  /\ exit' = "fatal"
  /\ UNCHANGED <<cfg, urls, changes, plugin, results, file, seen>>

\* os.WriteFile opens and truncates the file, then writes and closes it; each
\* of the two may fail.
Truncate ==
  /\ pc = "write"
  /\ pc' = "flush"
  /\ file' = "truncated"
  /\ UNCHANGED <<cfg, urls, changes, plugin, results, exit, seen>>

Flush ==
  /\ pc = "flush"
  /\ pc' = "exit"
  /\ file' = "report"
  /\ exit' = "ok"
  /\ UNCHANGED <<cfg, urls, changes, plugin, results, seen>>

WriteFails == pc \in {"write", "flush"} /\ Fatal

ToolStep ==
  \/ AutoPopulate
  \/ \E srv \in SrvAnswers, members \in {Got(urls), Error} :
       ResolveFails(srv, members) \/ Resolve(srv, members)
  \/ Call \/ CallFails \/ TimeOut \/ Again \/ PluginReturns \/ Panic
  \/ Marshal \/ Truncate \/ Flush \/ WriteFails

Next == ToolStep \/ Reply \/ ChangeUrls \/ Kill

Spec == Init /\ [][Next]_vars

\* The process always takes its next step.  A server that is asked need not
\* answer.
FairSpec == Spec /\ WF_vars(ToolStep)

-----------------------------------------------------------------------------
(* Properties.                                                             *)

TypeOK ==
  /\ cfg \in GlobalConfig
  /\ urls \in UrlLists
  /\ changes \in 0..MaxChanges
  /\ pc \in {"start", "resolve", "call", "wait", "marshal", "write", "flush", "exit"}
  /\ p \in 1..Len(plugins) + 1
  /\ eps \in Seq(Endpoint) /\ k \in 1..Len(eps) + 1 /\ pass \in 1..maxRetries
  /\ results \in Seq(PluginResult)
  /\ file \in {"old", "truncated", "report"}
  /\ exit \in {"none", "ok", "fatal", "panic", "killed"}
  /\ seen \in [1..Len(plugins) -> 0..MaxChanges]

\* A report on disk is a whole one: one result of each plugin, in the order of
\* reportCommandFunc, whatever failed on the way; only a run that wrote it ends
\* well; and the report of an earlier run is not touched before this one is
\* complete and known to marshal.
ReportIsWhole ==
  /\ file # "old" =>
       /\ Len(results) = Len(plugins)
       /\ \A j \in 1..Len(plugins) : results[j].by = j /\ Marshalable(results[j])
  /\ exit = "ok" <=> file = "report"

\* Each plugin resolves the endpoints anew.  All the same two sections of one
\* report are about the same endpoints, unless --cluster is given and the member
\* list has changed after the first of the two plugins resolved and before the
\* second did: nothing that fails meanwhile (DNS, the member list) makes a
\* plugin take other endpoints instead.
SameEndpoints ==
  \A j, l \in 1..Len(results) :
    results[j].kind # "failed" /\ results[l].kind # "failed"
      /\ (cfg.cluster => seen[j] = seen[l])
    => results[j].eps = results[l].eps

\* "command timeout (excluding dial timeout)": the command ends, however its
\* calls fail and however often it starts over - unless it waits for ever in the
\* one call that has no deadline, for the metrics of a server that never answers.
EndsOrHangsInMetrics ==
  <>(pc = "exit") \/ <>[](pc = "wait" /\ plugins[p] = "metrics")
=============================================================================
