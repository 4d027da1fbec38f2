---------------------------- MODULE Report_proofs ----------------------------
(***************************************************************************)
(* Proofs about Report, for every command line, every member list and      *)
(* answer of DNS, any number of changes of the member list and of retries. *)
(***************************************************************************)
EXTENDS Report, SequenceTheorems, TLAPS

-----------------------------------------------------------------------------
(* The inductive invariant. *)

\* Plugin p runs, or all have: the results are those of the plugins before it.
OrderInv ==
  /\ Len(results) = p - 1
  /\ \A j \in 1..Len(results) : results[j].by = j
  /\ pc = "start" => p = 1
  /\ pc \in {"start", "resolve", "call", "wait"} => p <= Len(plugins)
  /\ pc \in {"marshal", "write", "flush"} => p = Len(plugins) + 1

\* The file is touched only after everything has been collected and marshalled.
FileInv ==
  /\ pc \in {"write", "flush"} => ReportMarshals
  /\ pc = "flush" => file = "truncated"
  /\ file # "old" =>
       pc \in {"flush", "exit"} /\ Len(results) = Len(plugins) /\ ReportMarshals
  /\ exit = "ok" <=> file = "report"
  /\ pc = "exit" <=> exit # "none"

\* The endpoints that a plugin which succeeds in resolving them gets now.
Current == IF cfg.cluster THEN urls ELSE cfg.endpoints

\* Plugin j has resolved its endpoints: it runs, or has returned a result.
Had(j) ==
  \/ j \in 1..Len(results) /\ results[j].kind # "failed"
  \/ j = p /\ pc \in {"call", "wait"}

EpsOf(j) == IF j <= Len(results) THEN results[j].eps ELSE eps

\* A plugin that has resolved its endpoints has those of the flag, or those of
\* the member list as it was then.
EndpointsInv ==
  /\ \A j \in 1..5 : seen[j] \in 0..changes
  /\ \A j \in 1..5 : Had(j) /\ ~cfg.cluster => EpsOf(j) = cfg.endpoints
  /\ \A j \in 1..5 : Had(j) /\ cfg.cluster /\ seen[j] = changes => EpsOf(j) = urls
  /\ \A j, l \in 1..5 :
       Had(j) /\ Had(l) /\ cfg.cluster /\ seen[j] = seen[l] => EpsOf(j) = EpsOf(l)

PInv ==
  /\ TypeOK
  /\ pc = "wait" => k <= Len(eps)
  /\ OrderInv /\ FileInv /\ EndpointsInv

-----------------------------------------------------------------------------
(* What the agent's functions return. *)

\* There are five plugins.
LEMMA FivePlugins == Len(plugins) = 5
  BY DEF plugins

\* agent.Endpoints returns an answer, and if it succeeds it is the member
\* list's with --cluster and the value of --endpoints without: DNS decides
\* only whether it succeeds.
LEMMA EndpointsAre ==
  ASSUME NEW c \in GlobalConfig, NEW srv, NEW members \in Answer, Endpoints(c, srv, members).ok
  PROVE  /\ Endpoints(c, srv, members).eps =
              IF c.cluster THEN members.eps ELSE c.endpoints
         /\ Endpoints(c, srv, members).eps \in Seq(Endpoint)
         /\ c.cluster => members.ok
<1>1. c.endpoints \in Seq(Endpoint) /\ members.eps \in Seq(Endpoint)
  BY DEF GlobalConfig, Answer
<1>2. ~Error.ok /\ Got(c.endpoints).eps = c.endpoints
  BY DEF Error, Got
<1>3. CASE c.cluster
  <2>1. Endpoints(c, srv, members) = members
    BY <1>2, <1>3 DEF Endpoints, endpointsFromCluster
  <2>2. QED
    BY <1>1, <1>3, <2>1
<1>4. CASE ~c.cluster
  <2>1. Endpoints(c, srv, members) = Got(c.endpoints)
    BY <1>2, <1>4 DEF Endpoints, endpointsFromFlag
  <2>2. QED
    BY <1>1, <1>2, <1>4, <2>1
<1>5. QED
  BY <1>3, <1>4

\* Filling in the certificates changes nothing else.
LEMMA CertificatesOnly ==
  ASSUME NEW c \in GlobalConfig
  PROVE  /\ autoPopulateCertificate(c) \in GlobalConfig
         /\ autoPopulateCertificate(c).cluster = c.cluster
         /\ autoPopulateCertificate(c).endpoints = c.endpoints
  BY DEF autoPopulateCertificate, GlobalConfig

-----------------------------------------------------------------------------
(* Every action keeps the invariant.                                       *)

\* The counters of a plugin, and of the plugins.
LEMMA CounterRanges ==
  ASSUME TypeOK
  PROVE  /\ Len(eps) \in Nat /\ k \in Nat /\ 1 <= k /\ k <= Len(eps) + 1
         /\ p \in Nat /\ 1 <= p /\ p <= 6
         /\ pass \in Nat /\ 1 <= pass /\ pass <= maxRetries /\ maxRetries \in Nat
  BY LenProperties, FivePlugins, BoundsAssumption DEF TypeOK

\* A step that gives no plugin other endpoints keeps what is said of them.
LEMMA EndpointsKept ==
  ASSUME EndpointsInv, UNCHANGED <<urls, changes, seen>>,
         cfg'.cluster = cfg.cluster, cfg'.endpoints = cfg.endpoints,
         \A j \in 1..5 : Had(j)' => Had(j) /\ EpsOf(j)' = EpsOf(j)
  PROVE  EndpointsInv'
<1>1. ASSUME NEW j \in 1..5, Had(j)'
      PROVE  /\ ~cfg'.cluster => EpsOf(j)' = cfg'.endpoints
             /\ cfg'.cluster /\ seen'[j] = changes' => EpsOf(j)' = urls'
  BY <1>1 DEF EndpointsInv
<1>2. ASSUME NEW j \in 1..5, NEW l \in 1..5, Had(j)', Had(l)', cfg'.cluster,
             seen'[j] = seen'[l]
      PROVE  EpsOf(j)' = EpsOf(l)'
  BY <1>2 DEF EndpointsInv
<1>3. \A j \in 1..5 : seen'[j] \in 0..changes'
  BY DEF EndpointsInv
<1>4. QED
  BY <1>1, <1>2, <1>3 DEF EndpointsInv

\* So does a step that leaves the results alone and does not resolve.
LEMMA EndpointsSame ==
  ASSUME EndpointsInv, UNCHANGED <<urls, changes, seen, results, p, eps>>,
         cfg'.cluster = cfg.cluster, cfg'.endpoints = cfg.endpoints,
         pc' \in {"call", "wait"} => pc \in {"call", "wait"}
  PROVE  EndpointsInv'
<1>1. \A j \in 1..5 : Had(j)' => Had(j) /\ EpsOf(j)' = EpsOf(j)
  BY DEF Had, EpsOf
<1>2. QED
  BY <1>1, EndpointsKept

\* The invariant holds when the command is called.
LEMMA InitPInv == Init => PInv
<1> SUFFICES ASSUME Init
             PROVE  PInv
  OBVIOUS
<1>1. <<>> \in Seq(Endpoint) /\ <<>> \in Seq(PluginResult) /\ Len(<<>>) = 0
  BY EmptySeq
<1>2. /\ k \in 1..Len(eps) + 1 /\ p \in 1..Len(plugins) + 1 /\ pass \in 1..maxRetries
      /\ changes \in 0..MaxChanges
  BY <1>1, FivePlugins, BoundsAssumption DEF Init
<1>3. TypeOK
  BY <1>1, <1>2, ConfigsAssumption DEF Init, TypeOK
<1>4. OrderInv /\ EndpointsInv
  <2>1. \A j : ~Had(j)
    BY <1>1 DEF Init, Had
  <2>2. \A j \in 1..5 : seen[j] = 0
    BY FivePlugins DEF Init
  <2>3. QED
    BY <1>1, <2>1, <2>2, FivePlugins DEF Init, OrderInv, EndpointsInv
<1>5. FileInv
  BY DEF Init, FileInv
<1>6. QED
  BY <1>3, <1>4, <1>5 DEF Init, PInv

\* A change of the member list keeps the invariant: nobody has seen it yet.
LEMMA ChangeUrlsPInv == PInv /\ ChangeUrls => PInv'
<1> SUFFICES ASSUME PInv, ChangeUrls
             PROVE  PInv'
  OBVIOUS
<1>1. /\ cfg' = cfg /\ pc' = pc /\ p' = p /\ eps' = eps /\ k' = k /\ pass' = pass
      /\ results' = results /\ file' = file /\ exit' = exit
      /\ seen' = seen /\ urls' \in UrlLists /\ changes' = changes + 1 /\ changes < MaxChanges
  BY DEF ChangeUrls, plugin
<1>2. changes' \in 0..MaxChanges
  BY <1>1, BoundsAssumption DEF PInv, TypeOK
<1>3. TypeOK'
  BY <1>1, <1>2 DEF PInv, TypeOK
<1>4. OrderInv' /\ FileInv'
  BY <1>1 DEF PInv, OrderInv, FileInv, ReportMarshals
<1>5. EndpointsInv'
  <2>1. changes \in Nat /\ \A j \in 1..5 : seen[j] \in 0..changes
    BY BoundsAssumption DEF PInv, TypeOK, EndpointsInv
  <2>2. \A j \in 1..5 : seen'[j] \in 0..changes' /\ seen'[j] # changes'
    BY <1>1, <2>1
  <2>3. \A j \in 1..5 : Had(j)' = Had(j) /\ EpsOf(j)' = EpsOf(j)
    BY <1>1 DEF Had, EpsOf
  <2>4. QED
    BY <1>1, <2>2, <2>3 DEF PInv, EndpointsInv
<1>6. QED
  BY <1>1, <1>3, <1>4, <1>5 DEF PInv

\* A step of the calls of one plugin keeps the invariant: it changes nothing
\* but which endpoint is asked next, in which pass, and whether it waits.
LEMMA CallStepPInv ==
  ASSUME PInv, pc \in {"call", "wait"}, pc' \in {"call", "wait"},
         k' \in 1..(Len(eps) + 1), pc' = "wait" => k' <= Len(eps), pass' \in 1..maxRetries,
         UNCHANGED <<cfg, urls, changes, p, eps, results, file, exit, seen>>
  PROVE  PInv'
<1>1. TypeOK'
  BY DEF PInv, TypeOK
<1>2. OrderInv' /\ FileInv'
  BY DEF PInv, OrderInv, FileInv, ReportMarshals
<1>3. EndpointsInv'
  BY EndpointsSame DEF PInv
<1>4. QED
  BY <1>1, <1>2, <1>3 DEF PInv

\* The end of the process keeps the invariant, unless it claims success.
LEMMA ExitPInv ==
  ASSUME PInv, exit = "none", pc' = "exit", exit' \in {"fatal", "panic", "killed"},
         UNCHANGED <<cfg, urls, changes, plugin, results, file, seen>>
  PROVE  PInv'
<1>1. p' = p /\ eps' = eps /\ k' = k /\ pass' = pass
  BY DEF plugin
<1>2. TypeOK'
  BY <1>1 DEF PInv, TypeOK
<1>3. OrderInv' /\ EndpointsInv'
  BY <1>1, EndpointsSame DEF PInv, OrderInv
<1>4. FileInv'
  BY DEF PInv, FileInv, ReportMarshals
<1>5. QED
  BY <1>2, <1>3, <1>4 DEF PInv

\* Filling in the certificates keeps the invariant.
LEMMA AutoPopulatePInv == PInv /\ AutoPopulate => PInv'
<1> SUFFICES ASSUME PInv, AutoPopulate
             PROVE  PInv'
  OBVIOUS
<1>1. /\ pc = "start" /\ pc' = "resolve" /\ cfg' = autoPopulateCertificate(cfg)
      /\ urls' = urls /\ changes' = changes /\ p' = p /\ eps' = eps /\ k' = k /\ pass' = pass
      /\ results' = results /\ file' = file /\ exit' = exit /\ seen' = seen
  BY DEF AutoPopulate, plugin
<1>2. /\ cfg' \in GlobalConfig
      /\ cfg'.cluster = cfg.cluster /\ cfg'.endpoints = cfg.endpoints
  BY <1>1, CertificatesOnly DEF PInv, TypeOK
<1>3. TypeOK'
  BY <1>1, <1>2 DEF PInv, TypeOK
<1>4. OrderInv' /\ FileInv'
  BY <1>1 DEF PInv, OrderInv, FileInv, ReportMarshals
<1>5. EndpointsInv'
  BY <1>1, <1>2, EndpointsSame DEF PInv
<1>6. QED
  BY <1>1, <1>3, <1>4, <1>5 DEF PInv

\* A step of plugin p that changes at most what this plugin has seen.
SeenByP ==
  /\ seen' \in [1..Len(plugins) -> 0..MaxChanges]
  /\ \A j \in 1..5 : seen'[j] \in 0..changes /\ (j < p => seen'[j] = seen[j])

\* A plugin that returns keeps the invariant: its result is the next one, and
\* is of the endpoints it has resolved unless it is a failure.
LEMMA ReturnPInv ==
  ASSUME PInv, pc \in {"resolve", "call"}, NEW kind \in Kind, NEW es \in Seq(Endpoint),
         Return(kind, es), UNCHANGED <<eps, k, pass>>,
         SeenByP,
         kind # "failed" => pc = "call" /\ es = eps /\ seen' = seen
  PROVE  PInv'
<1> DEFINE res == [by |-> p, kind |-> kind, eps |-> es]
<1>1. /\ results' = Append(results, res) /\ p' = p + 1
      /\ pc' = IF p = Len(plugins) THEN "marshal" ELSE "resolve"
      /\ cfg' = cfg /\ urls' = urls /\ changes' = changes /\ file' = file /\ exit' = exit
      /\ eps' = eps /\ k' = k /\ pass' = pass
  BY DEF Return, Collected
<1>2. p \in Nat /\ 1 <= p /\ p <= 5 /\ Len(plugins) = 5 /\ Len(results) = p - 1
  BY CounterRanges, FivePlugins DEF PInv, OrderInv
<1>3. res \in PluginResult /\ results \in Seq(PluginResult)
  BY <1>2 DEF PluginResult, PInv, TypeOK
<1>4. /\ results' \in Seq(PluginResult) /\ Len(results') = p
      /\ \A j \in 1..(p - 1) : results'[j] = results[j]
      /\ results'[p] = res
  <2>1. Len(results) + 1 = p
    BY <1>2
  <2>2. QED
    BY <1>1, <1>2, <1>3, <2>1, AppendProperties
<1>5. \A j \in 1..p : j \in 1..(p - 1) \/ j = p
  BY <1>2
<1>6. TypeOK'
  <2>1. p' \in 1..(Len(plugins) + 1)
    BY <1>1, <1>2
  <2>2. pc' \in {"marshal", "resolve"}
    BY <1>1
  <2>3. QED
    BY <1>1, <1>4, <2>1, <2>2 DEF PInv, TypeOK, SeenByP
<1>7. OrderInv'
  <2>1. \A j \in 1..p : results'[j].by = j
    BY <1>2, <1>4, <1>5 DEF PInv, OrderInv
  <2>2. QED
    BY <1>1, <1>2, <1>4, <2>1 DEF OrderInv
<1>8. FileInv'
  <2>1. file = "old" /\ exit = "none"
    BY DEF PInv, FileInv, TypeOK
  <2>2. QED
    BY <1>1, <2>1 DEF FileInv
<1>9. EndpointsInv'
  <2>1. ASSUME NEW j \in 1..5, Had(j)'
        PROVE  /\ Had(j) /\ EpsOf(j)' = EpsOf(j) /\ seen'[j] = seen[j]
    <3>1. j \in 1..p /\ results'[j].kind # "failed"
      BY <1>1, <1>4, <2>1 DEF Had
    <3>2. EpsOf(j)' = results'[j].eps
      BY <1>4, <3>1 DEF EpsOf
    <3>3. CASE j = p
      <4>1. kind # "failed" /\ results'[j].eps = es
        BY <1>4, <3>1, <3>3
      <4>2. ~(j <= Len(results))
        BY <1>2, <3>3
      <4>3. QED
        BY <3>2, <3>3, <4>1, <4>2 DEF Had, EpsOf
    <3>4. CASE j \in 1..(p - 1)
      <4>1. j \in 1..Len(results) /\ j <= Len(results) /\ j < p /\ results'[j] = results[j]
        BY <1>2, <1>4, <3>4
      <4>2. seen'[j] = seen[j]
        BY <4>1 DEF SeenByP
      <4>3. QED
        BY <3>1, <3>2, <4>1, <4>2 DEF Had, EpsOf
    <3>5. QED
      BY <1>5, <3>1, <3>3, <3>4
  <2>2. /\ \A j \in 1..5 : Had(j) /\ ~cfg.cluster => EpsOf(j) = cfg.endpoints
        /\ \A j \in 1..5 : Had(j) /\ cfg.cluster /\ seen[j] = changes => EpsOf(j) = urls
        /\ \A j, l \in 1..5 :
             Had(j) /\ Had(l) /\ cfg.cluster /\ seen[j] = seen[l] => EpsOf(j) = EpsOf(l)
    BY DEF PInv, EndpointsInv
  <2>3. ASSUME NEW j \in 1..5, Had(j)'
        PROVE  /\ ~cfg'.cluster => EpsOf(j)' = cfg'.endpoints
               /\ cfg'.cluster /\ seen'[j] = changes' => EpsOf(j)' = urls'
    BY <1>1, <2>1, <2>2, <2>3
  <2>4. ASSUME NEW j \in 1..5, NEW l \in 1..5, Had(j)', Had(l)', cfg'.cluster,
               seen'[j] = seen'[l]
        PROVE  EpsOf(j)' = EpsOf(l)'
    BY <1>1, <2>1, <2>2, <2>4
  <2>5. \A j \in 1..5 : seen'[j] \in 0..changes'
    BY <1>1 DEF SeenByP
  <2>6. QED
    BY <2>3, <2>4, <2>5 DEF EndpointsInv
<1>10. QED
  BY <1>1, <1>6, <1>7, <1>8, <1>9 DEF PInv

\* What the member list is when a plugin asks for it.
LEMMA MembersAre ==
  ASSUME PInv
  PROVE  Got(urls) \in Answer /\ Error \in Answer /\ ~Error.ok /\ Got(urls).eps = urls
<1>1. urls \in Seq(Endpoint)
  BY AnswersAssumption DEF PInv, TypeOK
<1>2. QED
  BY <1>1 DEF Got, Error, Answer

\* A plugin that resolves now sees as many changes as there have been.
LEMMA SeenNow ==
  ASSUME PInv, seen' = [seen EXCEPT ![p] = changes]
  PROVE  /\ seen' \in [1..Len(plugins) -> 0..MaxChanges]
         /\ \A j \in 1..5 :
              seen'[j] \in 0..changes /\ seen'[j] = (IF j = p THEN changes ELSE seen[j])
<1>1. /\ seen \in [1..5 -> 0..MaxChanges] /\ changes \in 0..MaxChanges /\ Len(plugins) = 5
      /\ MaxChanges \in Nat /\ \A j \in 1..5 : seen[j] \in 0..changes
  BY FivePlugins, BoundsAssumption DEF PInv, TypeOK, EndpointsInv
<1>2. seen' \in [1..5 -> 0..MaxChanges]
  BY <1>1
<1>3. \A j \in 1..5 : seen'[j] = IF j = p THEN changes ELSE seen[j]
  BY <1>1
<1>4. changes \in 0..changes
  BY <1>1
<1>5. QED
  BY <1>1, <1>2, <1>3, <1>4

\* A plugin that cannot resolve its endpoints keeps the invariant.
LEMMA ResolveFailsPInv ==
  ASSUME NEW srv \in SrvAnswers, NEW members \in {Got(urls), Error}
  PROVE  PInv /\ ResolveFails(srv, members) => PInv'
<1> SUFFICES ASSUME PInv, ResolveFails(srv, members)
             PROVE  PInv'
  OBVIOUS
<1>1. /\ pc = "resolve" /\ Return("failed", <<>>) /\ UNCHANGED <<eps, k, pass>>
      /\ seen' = [seen EXCEPT ![p] = changes]
  BY DEF ResolveFails
<1>2. "failed" \in Kind /\ <<>> \in Seq(Endpoint)
  BY DEF Kind
<1>3. SeenByP
  <2>1. p \in Nat
    BY CounterRanges DEF PInv
  <2>2. /\ seen' \in [1..Len(plugins) -> 0..MaxChanges]
        /\ \A j \in 1..5 :
             seen'[j] \in 0..changes /\ seen'[j] = (IF j = p THEN changes ELSE seen[j])
    BY <1>1, SeenNow
  <2>3. \A j \in 1..5 : j < p => j # p
    BY <2>1
  <2>4. QED
    BY <2>2, <2>3 DEF SeenByP
<1>4. QED
  BY <1>1, <1>2, <1>3, ReturnPInv

\* A plugin that resolves its endpoints gets the current ones.
LEMMA ResolvePInv ==
  ASSUME NEW srv \in SrvAnswers, NEW members \in {Got(urls), Error}
  PROVE  PInv /\ Resolve(srv, members) => PInv'
<1> SUFFICES ASSUME PInv, Resolve(srv, members)
             PROVE  PInv'
  OBVIOUS
<1>1. /\ pc = "resolve" /\ pc' = "call" /\ eps' = Endpoints(cfg, srv, members).eps
      /\ Endpoints(cfg, srv, members).ok
      /\ k' = 1 /\ pass' = 1 /\ seen' = [seen EXCEPT ![p] = changes]
      /\ cfg' = cfg /\ urls' = urls /\ changes' = changes /\ p' = p
      /\ results' = results /\ file' = file /\ exit' = exit
  BY DEF Resolve, Resolved
<1>2. eps' = Current /\ eps' \in Seq(Endpoint)
  <2>1. cfg \in GlobalConfig /\ members \in Answer
    BY MembersAre DEF PInv, TypeOK
  <2>2. /\ eps' = IF cfg.cluster THEN members.eps ELSE cfg.endpoints
        /\ eps' \in Seq(Endpoint)
        /\ cfg.cluster => members.ok
    BY <1>1, <2>1, EndpointsAre
  <2>3. cfg.cluster => members.eps = urls
    BY <2>2, MembersAre
  <2>4. QED
    BY <2>2, <2>3 DEF Current
<1>3. TypeOK'
  <2>1. Len(eps') \in Nat
    BY <1>2, LenProperties
  <2>2. k' \in 1..(Len(eps') + 1) /\ pass' \in 1..maxRetries
    BY <1>1, <2>1, BoundsAssumption
  <2>3. seen' \in [1..Len(plugins) -> 0..MaxChanges]
    BY <1>1, SeenNow
  <2>4. QED
    BY <1>1, <1>2, <2>2, <2>3 DEF PInv, TypeOK
<1>4. OrderInv' /\ FileInv'
  BY <1>1 DEF PInv, OrderInv, FileInv, ReportMarshals
<1>5. EndpointsInv'
  <2>1. p \in 1..5 /\ Len(results) = p - 1
    BY <1>1, CounterRanges, FivePlugins DEF PInv, OrderInv
  <2>2. \A j \in 1..5 :
          seen'[j] \in 0..changes /\ seen'[j] = (IF j = p THEN changes ELSE seen[j])
    BY <1>1, SeenNow
  <2>3. EpsOf(p)' = Current
    BY <1>1, <1>2, <2>1 DEF EpsOf
  <2>4. ASSUME NEW j \in 1..5, Had(j)', j # p
        PROVE  Had(j) /\ EpsOf(j)' = EpsOf(j) /\ seen'[j] = seen[j]
    BY <1>1, <2>1, <2>2, <2>4 DEF Had, EpsOf
  <2>5. /\ \A j \in 1..5 : Had(j) /\ ~cfg.cluster => EpsOf(j) = cfg.endpoints
        /\ \A j \in 1..5 : Had(j) /\ cfg.cluster /\ seen[j] = changes => EpsOf(j) = urls
        /\ \A j, l \in 1..5 :
             Had(j) /\ Had(l) /\ cfg.cluster /\ seen[j] = seen[l] => EpsOf(j) = EpsOf(l)
    BY DEF PInv, EndpointsInv
  <2>6. ASSUME NEW j \in 1..5, Had(j)'
        PROVE  /\ ~cfg'.cluster => EpsOf(j)' = cfg'.endpoints
               /\ cfg'.cluster /\ seen'[j] = changes' => EpsOf(j)' = urls'
    <3>1. CASE j = p
      BY <1>1, <2>3, <3>1 DEF Current
    <3>2. CASE j # p
      BY <1>1, <2>4, <2>5, <2>6, <3>2
    <3>3. QED
      BY <3>1, <3>2
  <2>7. ASSUME NEW j \in 1..5, NEW l \in 1..5, Had(j)', Had(l)', cfg'.cluster,
               seen'[j] = seen'[l]
        PROVE  EpsOf(j)' = EpsOf(l)'
    <3>1. CASE seen'[j] = changes
      BY <1>1, <2>6, <2>7, <3>1
    <3>2. CASE seen'[j] # changes
      <4>1. j # p /\ l # p
        BY <2>2, <2>7, <3>2
      <4>2. QED
        BY <1>1, <2>4, <2>5, <2>7, <4>1
    <3>3. QED
      BY <3>1, <3>2
  <2>8. \A j \in 1..5 : seen'[j] \in 0..changes'
    BY <1>1, <2>2
  <2>9. QED
    BY <2>6, <2>7, <2>8 DEF EndpointsInv
<1>6. QED
  BY <1>1, <1>3, <1>4, <1>5 DEF PInv

\* A plugin that has asked everybody returns a result of its endpoints.
LEMMA PluginReturnsPInv == PInv /\ PluginReturns => PInv'
<1> SUFFICES ASSUME PInv, PluginReturns
             PROVE  PInv'
  OBVIOUS
<1>1. PICK kind \in Kinds : Return(kind, eps)
  BY DEF PluginReturns
<1>2. pc = "call" /\ UNCHANGED <<eps, k, pass>> /\ seen' = seen
  BY DEF PluginReturns
<1>3. kind \in Kind
  BY DEF Kinds, Kind
<1>4. eps \in Seq(Endpoint) /\ SeenByP
  BY <1>2 DEF PInv, TypeOK, EndpointsInv, SeenByP
<1>5. QED
  BY <1>1, <1>2, <1>3, <1>4, ReturnPInv

\* The marshalling of the report keeps the invariant.
LEMMA MarshalPInv == PInv /\ Marshal => PInv'
<1> SUFFICES ASSUME PInv, Marshal
             PROVE  PInv'
  OBVIOUS
<1>1. CASE ReportMarshals
  <2>1. /\ pc = "marshal" /\ pc' = "write" /\ exit' = exit
        /\ cfg' = cfg /\ urls' = urls /\ changes' = changes /\ p' = p /\ eps' = eps /\ k' = k
        /\ pass' = pass /\ results' = results /\ file' = file /\ seen' = seen
    BY <1>1 DEF Marshal, plugin
  <2>2. EndpointsInv'
    BY <2>1, EndpointsSame DEF PInv
  <2>3. QED
    BY <1>1, <2>1, <2>2 DEF PInv, TypeOK, OrderInv, FileInv, ReportMarshals
<1>2. CASE ~ReportMarshals
  <2>1. /\ exit = "none" /\ pc' = "exit" /\ exit' = "fatal"
        /\ UNCHANGED <<cfg, urls, changes, plugin, results, file, seen>>
    BY <1>2 DEF Marshal, PInv, FileInv, TypeOK
  <2>2. QED
    BY <2>1, ExitPInv
<1>3. QED
  BY <1>1, <1>2

\* The two steps of writing the file keep the invariant.
LEMMA WritePInv == PInv /\ (Truncate \/ Flush) => PInv'
<1> SUFFICES ASSUME PInv, Truncate \/ Flush
             PROVE  PInv'
  OBVIOUS
<1>1. /\ pc \in {"write", "flush"} /\ pc' \in {"flush", "exit"}
      /\ cfg' = cfg /\ urls' = urls /\ changes' = changes /\ p' = p /\ eps' = eps /\ k' = k
      /\ pass' = pass /\ results' = results /\ seen' = seen
      /\ \/ pc' = "flush" /\ file' = "truncated" /\ exit' = exit
         \/ pc' = "exit" /\ file' = "report" /\ exit' = "ok"
  BY DEF Truncate, Flush, plugin
<1>2. exit = "none" /\ ReportMarshals /\ p = Len(plugins) + 1
  BY <1>1 DEF PInv, FileInv, OrderInv, TypeOK
<1>3. Len(results) = Len(plugins)
  BY <1>2, FivePlugins DEF PInv, OrderInv
<1>4. TypeOK'
  BY <1>1 DEF PInv, TypeOK
<1>5. OrderInv' /\ EndpointsInv'
  BY <1>1, <1>2, EndpointsSame DEF PInv, OrderInv
<1>6. FileInv'
  BY <1>1, <1>2, <1>3 DEF FileInv, ReportMarshals
<1>7. QED
  BY <1>1, <1>4, <1>5, <1>6 DEF PInv

\* The invariant is inductive.
LEMMA NextPInv == PInv /\ [Next]_vars => PInv'
<1> SUFFICES ASSUME PInv, [Next]_vars
             PROVE  PInv'
  OBVIOUS
<1>1. CASE AutoPopulate
  BY <1>1, AutoPopulatePInv
<1>2. CASE \E srv \in SrvAnswers, members \in {Got(urls), Error} :
             ResolveFails(srv, members) \/ Resolve(srv, members)
  BY <1>2, ResolveFailsPInv, ResolvePInv
<1>3. CASE Call \/ CallFails \/ TimeOut \/ Again \/ Reply
  <2>1. /\ pc \in {"call", "wait"} /\ pc' \in {"call", "wait"}
        /\ UNCHANGED <<cfg, urls, changes, p, eps, results, file, exit, seen>>
    BY <1>3 DEF Call, CallFails, TimeOut, Again, Reply, plugin
  <2>2. k' \in 1..(Len(eps) + 1) /\ (pc' = "wait" => k' <= Len(eps))
    <3>1. \/ k' = k + 1 /\ pc' = "call" /\ k <= Len(eps)
          \/ k' = k /\ k <= Len(eps)
          \/ k' = 1 /\ pc' = "call"
      BY <1>3 DEF Call, CallFails, TimeOut, Again, Reply, plugin, PInv
    <3>2. QED
      BY <3>1, CounterRanges DEF PInv
  <2>3. pass' \in 1..maxRetries
    <3>1. pass' = pass \/ (pass < maxRetries /\ pass' = pass + 1)
      BY <1>3 DEF Call, CallFails, TimeOut, Again, Reply, plugin, MorePasses, NextPass
    <3>2. QED
      BY <3>1, CounterRanges DEF PInv
  <2>4. QED
    BY <2>1, <2>2, <2>3, CallStepPInv
<1>4. CASE PluginReturns
  BY <1>4, PluginReturnsPInv
<1>5. CASE Panic \/ WriteFails \/ Kill
  <2>1. /\ pc' = "exit" /\ exit' \in {"fatal", "panic", "killed"}
        /\ UNCHANGED <<cfg, urls, changes, plugin, results, file, seen>>
        /\ exit = "none" \/ pc # "exit"
    BY <1>5 DEF Panic, WriteFails, Fatal, Kill
  <2>2. exit = "none"
    BY <2>1 DEF PInv, FileInv, TypeOK
  <2>3. QED
    BY <2>1, <2>2, ExitPInv
<1>6. CASE Marshal
  BY <1>6, MarshalPInv
<1>7. CASE Truncate \/ Flush
  BY <1>7, WritePInv
<1>8. CASE ChangeUrls
  BY <1>8, ChangeUrlsPInv
<1>9. CASE UNCHANGED vars
  <2>1. EndpointsInv'
    BY <1>9, EndpointsSame DEF PInv, vars, plugin
  <2>2. QED
    BY <1>9, <2>1 DEF PInv, TypeOK, OrderInv, FileInv, ReportMarshals, vars, plugin
<1>10. QED
  BY <1>1, <1>2, <1>3, <1>4, <1>5, <1>6, <1>7, <1>8, <1>9 DEF Next, ToolStep

\* It holds in every reachable state.
THEOREM PInvariant == Spec => []PInv
<1>1. Init => PInv
  BY InitPInv
<1>2. PInv /\ [Next]_vars => PInv'
  BY NextPInv
<1>3. QED
  BY <1>1, <1>2, PTL DEF Spec

-----------------------------------------------------------------------------
(* What follows from it.                                                   *)

\* The command's variables keep their types: among them the order of the five
\* plugins, and no plugin starts over more than maxRetries times.
THEOREM TypeCorrect == Spec => []TypeOK
<1>1. PInv => TypeOK
  BY DEF PInv
<1>2. QED
  BY <1>1, PInvariant, PTL

\* A report on disk is a whole one, and the file of an earlier run is not
\* touched before.
THEOREM WholeReport == Spec => []ReportIsWhole
<1>1. PInv => ReportIsWhole
  BY DEF PInv, OrderInv, FileInv, ReportMarshals, ReportIsWhole
<1>2. QED
  BY <1>1, PInvariant, PTL

\* Two plugins that succeed have examined the same endpoints, unless --cluster is
\* given and the member list changed between their resolutions.
THEOREM OneSetOfEndpoints == Spec => []SameEndpoints
<1>1. PInv => SameEndpoints
  <2> SUFFICES ASSUME PInv, NEW j \in 1..Len(results), NEW l \in 1..Len(results),
                      results[j].kind # "failed", results[l].kind # "failed",
                      cfg.cluster => seen[j] = seen[l]
               PROVE  results[j].eps = results[l].eps
    BY DEF SameEndpoints
  <2>1. Len(results) = p - 1 /\ p \in Nat /\ p <= 6
    BY CounterRanges DEF PInv, OrderInv
  <2>2. j \in 1..5 /\ l \in 1..5 /\ Had(j) /\ Had(l)
    BY <2>1 DEF Had
  <2>3. EpsOf(j) = results[j].eps /\ EpsOf(l) = results[l].eps
    BY <2>1 DEF EpsOf
  <2>4. EpsOf(j) = EpsOf(l)
    BY <2>2 DEF PInv, EndpointsInv
  <2>5. QED
    BY <2>3, <2>4
<1>2. QED
  BY <1>1, PInvariant, PTL

=============================================================================
