------------------------------- MODULE Agent --------------------------------
(***************************************************************************)
(* The configuration side of commands/report/agent: which endpoints a      *)
(* plugin asks (endpoints.go), and with which certificates                 *)
(* (command_report.go).  These are functions of the flags and of what DNS  *)
(* and the cluster answer at that moment; they keep no state, so every     *)
(* plugin of a report evaluates them again.                                *)
(***************************************************************************)
EXTENDS Integers, Sequences

CONSTANTS
  Endpoint,   \* URLs
  Http,       \* the ones that begin with http://
  Https       \* the ones that begin with https://

ASSUME SchemeAssumption ==
  Http \subseteq Endpoint /\ Https \subseteq Endpoint /\ Http \cap Https = {}

\* The flags that matter here.
GlobalConfig ==
  [endpoints : Seq(Endpoint), cluster : BOOLEAN,
   domain : BOOLEAN, insecureDiscovery : BOOLEAN,
   certs : {"none", "given", "default"}]

\* A list of endpoints, or an error.
Answer == [ok : BOOLEAN, eps : Seq(Endpoint)]
Error == [ok |-> FALSE, eps |-> <<>>]
Got(es) == [ok |-> TRUE, eps |-> es]

-----------------------------------------------------------------------------
\* srv is what the SRV lookup answers.
endpointsFromDNSDiscovery(cfg, srv) ==
  IF ~cfg.domain THEN Got(<<>>)
  ELSE IF ~srv.ok \/ cfg.insecureDiscovery THEN srv
  ELSE Got(SelectSeq(srv.eps, LAMBDA e : e \notin Http))

\* "no endpoints provided", or the value of --endpoints.
endpointsFromFlag(cfg) == IF cfg.endpoints = <<>> THEN Error ELSE Got(cfg.endpoints)

endpointsFromCmd(cfg, srv) ==
  LET discovered == endpointsFromDNSDiscovery(cfg, srv)
  IN  IF ~discovered.ok \/ discovered.eps # <<>>
      THEN discovered ELSE endpointsFromFlag(cfg)

\* members is what MemberList answers: the client URLs of all members, which
\* may be none at all, or an error.
endpointsFromCluster(cfg, srv, members) ==
  IF endpointsFromCmd(cfg, srv).ok THEN members ELSE Error

FaultyEndpointsFallBack(cfg, srv, members) ==
  IF ~cfg.cluster \/ ~endpointsFromCluster(cfg, srv, members).ok
  THEN endpointsFromFlag(cfg)
  ELSE endpointsFromCluster(cfg, srv, members)

Endpoints(cfg, srv, members) ==
  IF cfg.cluster
  THEN endpointsFromCluster(cfg, srv, members)
  ELSE endpointsFromFlag(cfg)

-----------------------------------------------------------------------------
\* Kubernetes' certificates, if the first endpoint wants some and none is given.
autoPopulateCertificate(cfg) ==
  IF cfg.endpoints # <<>> /\ cfg.endpoints[1] \in Https /\ cfg.certs = "none"
  THEN [cfg EXCEPT !.certs = "default"]
  ELSE cfg

\* Whether a call reads certificates from files before it dials: agent.Metrics
\* for a https URL, the etcd client whenever some are named.
MetricsLoads(ep) == ep \in Https

ClientLoads(cfg) == cfg.certs # "none"
=============================================================================
