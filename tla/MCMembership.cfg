SPECIFICATION Spec
CONSTANTS
  n1 = n1
  n2 = n2
  n3 = n3
  Endpoint <- MCEndpoint
  EpLists <- MCEpLists
  MaxChanges = 2
  Nil = Nil
INVARIANTS
  TypeOK
  VerdictIsOfAll
  SuccessIsFresh
  StillIsSuccessful
CHECK_DEADLOCK FALSE
