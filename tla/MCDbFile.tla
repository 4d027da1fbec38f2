------------------------------ MODULE MCDbFile ------------------------------
\* Two tools, two-bit limits, up to as many entries as two bits can count.
EXTENDS DbFile

CONSTANTS c1, c2

MCTool == {c1, c2}
Plain(cmd) ==
  [cmd |-> cmd, timeout |-> TRUE, limit |-> 0, decode |-> FALSE, bucket |-> TRUE]
MCCommands ==
  {Plain("hash"), Plain("consistent-index"),
   [Plain("iterate-bucket") EXCEPT !.bucket = FALSE],
   [Plain("consistent-index") EXCEPT !.bucket = FALSE],
   [Plain("list-bucket") EXCEPT !.timeout = FALSE]}
  \cup {[Plain("iterate-bucket") EXCEPT !.limit = l] : l \in 0..2}
  \cup {[Plain("iterate-bucket") EXCEPT !.limit = 3, !.decode = TRUE]}
=============================================================================
