SPECIFICATION Spec
CONSTANTS
  n1 = n1
  n2 = n2
  Endpoint <- MCEndpoint
  EpLists <- MCEpLists
  maxRetries = 3
  MaxMoves = 3
INVARIANTS
  TypeOK
  UnsuccessfulIsPersistent
  SuccessfulWasNotDenied
CHECK_DEADLOCK FALSE
