SPECIFICATION DSpec
CONSTANTS
  MaxIndex = 3
  MaxTerm = 2
  MaxRestarts = 0
  MaxRecords = 10
  MaxFiles = 2
  MaxWals = 1
  Commands <- MCCommands
  Data <- MCData
  NoEnd = NoEnd
INVARIANTS
  DTypeOK
  DumpIsLog
  NothingIsMissing
  EveryEntryOnce
  RawShowsLog
  FailsForAReason
CHECK_DEADLOCK FALSE
