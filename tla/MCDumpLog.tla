----------------------------- MODULE MCDumpLog -----------------------------
\* A put, a configuration change and a v2 request in a log of three entries.
EXTENDS DumpLog

MCData ==
  <<[conf |-> FALSE, request |-> TRUE, irr |-> "IRRPut"],
    [conf |-> TRUE, request |-> FALSE, irr |-> "none"],
    [conf |-> FALSE, request |-> TRUE, irr |-> "none"]>>

Plain ==
  [changed |-> FALSE, start |-> 0, end |-> NoEnd, snapFile |-> 0,
   types |-> defaultEntryTypes, raw |-> FALSE]
From(i) == [Plain EXCEPT !.changed = TRUE, !.start = i]
MCCommands ==
  {Plain, From(0), From(1), From(2), From(3),
   [Plain EXCEPT !.end = 3],
   [From(1) EXCEPT !.end = 3, !.types = <<"IRRPut", "unknown", "Normal">>],
   [From(2) EXCEPT !.end = 3],
   [Plain EXCEPT !.snapFile = 1, !.types = <<"Request", "ConfigChange">>],
   [Plain EXCEPT !.raw = TRUE],
   [From(2) EXCEPT !.raw = TRUE],
   [From(2) EXCEPT !.snapFile = 1],
   [From(0) EXCEPT !.snapFile = 1]}
=============================================================================
