SPECIFICATION CSpec
CONSTANTS
  HardInfo = {h1, h2}
  SoftInfo = {0, 1, 2}
  DbInfo <- MCDbInfo
  DbQuotaBytes = 100
  LargeFree = 20
  Nil = Nil
  n1 = n1
  n2 = n2
  n3 = n3
  Endpoint <- MCEndpoint
  EpLists <- MCEpLists
  maxRetries = 3
  MaxMoves = 4
INVARIANTS
  CTypeOK
  TransientAlarmIsEarned
  LagIsSeen
  HardFindingWasMixed
PROPERTIES
  CalmPassIsLast
CHECK_DEADLOCK FALSE
