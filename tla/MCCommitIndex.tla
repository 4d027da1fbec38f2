-------------------------- MODULE MCCommitIndex --------------------------
EXTENDS CommitIndex
=============================================================================
