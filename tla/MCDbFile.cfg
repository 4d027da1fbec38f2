SPECIFICATION FairSpec
CONSTANTS
  c1 = c1
  c2 = c2
  Tool <- MCTool
  Commands <- MCCommands
  Width = 2
  MaxKeys = 4
  MaxStarts = 1
  None = None
INVARIANTS
  TypeOK
  ReadsOneVersion
  IteratesWanted
PROPERTIES
  ServerGetsLock
  TimeoutIsHonoured
CHECK_DEADLOCK FALSE
