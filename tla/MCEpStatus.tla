----------------------------- MODULE MCEpStatus -----------------------------
\* A small instance of EpStatus: up to three endpoints, two values of the hard
\* and of the soft information, one small and one large database.
EXTENDS EpStatus, SequencesExt

CONSTANTS MaxEps   \* the bound on the length of the endpoint list

MCEpLists == BoundedSeq(Endpoint, MaxEps)

\* With a quota of 100 and LargeFree = 20: nothing wrong, more free than used
\* space, and a database at 80 percent of the quota.
MCDbInfo == {[size |-> 10, inUse |-> 8],
             [size |-> 50, inUse |-> 10],
             [size |-> 80, inUse |-> 70]}
=============================================================================
