---------------------------- MODULE MCMembership ----------------------------
\* Three members and two membership changes.  The empty list stands for a
\* member list without any client URL, which agent.Endpoints does not refuse.
EXTENDS Membership

CONSTANTS n1, n2, n3

MCEndpoint == {n1, n2, n3}
MCEpLists == {<<>>, <<n1>>, <<n2, n1>>, <<n1, n2, n3>>}
=============================================================================
