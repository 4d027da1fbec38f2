------------------------------ MODULE MCReport ------------------------------
\* Two endpoints, one of each scheme; every shape of --endpoints of at most two;
\* a member list that changes once.
EXTENDS Report

CONSTANTS a, b

MCEndpoint == {a, b}
MCHttp == {a}
MCHttps == {b}

MCConfigs ==
  [endpoints : {<<>>, <<a>>, <<b, a>>}, cluster : BOOLEAN,
   domain : BOOLEAN, insecureDiscovery : BOOLEAN, certs : {"none", "given"}]

\* One endpoint, no flags.
MCPlainConfig ==
  [endpoints : {<<a>>}, cluster : {FALSE},
   domain : {FALSE}, insecureDiscovery : {TRUE}, certs : {"none"}]

MCSrvAnswers == {Error, Got(<<a, b>>)}
MCUrlLists == {<<>>, <<a>>, <<a, b>>}
=============================================================================
