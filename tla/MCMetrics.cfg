SPECIFICATION Spec
CONSTANTS
  n1 = n1
  n2 = n2
  Endpoint <- MCEndpoint
  EpLists <- MCEpLists
  Wanted = {"fsync", "memory"}
  Replies <- MCReplies
  Error = Error
  Inf = Inf
  NaN = NaN
INVARIANTS
  PercentilesAreRight
  EachHasItsOwn
CHECK_DEADLOCK FALSE
