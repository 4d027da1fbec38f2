---------------------------- MODULE MCReadChecker ---------------------------
\* Two members, the three passes of the code, and three moves of the cluster.
EXTENDS ReadChecker

CONSTANTS n1, n2

MCEndpoint == {n1, n2}
MCEpLists == {<<>>, <<n1>>, <<n2, n1>>}
=============================================================================
