------------------------- MODULE MCEpStatusCluster --------------------------
\* Three members, two versions, a log of up to two entries, and as many moves
\* of the cluster as it takes to disturb every one of two passes.
EXTENDS EpStatusCluster

CONSTANTS n1, n2, n3

MCEndpoint == {n1, n2, n3}
MCEpLists == {<<n1, n2, n3>>, <<n2, n1>>}
MCDbInfo == {[size |-> 10, inUse |-> 8]}
=============================================================================
