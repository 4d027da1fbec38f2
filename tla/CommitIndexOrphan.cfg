SPECIFICATION Spec
CONSTANTS
  MaxIndex = 3
  MaxTerm = 2
  MaxRestarts = 1
  MaxRecords = 10
  MaxFiles = 2
  MaxWals = 1
INVARIANT StartableIsReadable
CHECK_DEADLOCK FALSE
