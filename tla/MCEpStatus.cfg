SPECIFICATION FairSpec
CONSTANTS
  HardInfo = {h1, h2}
  SoftInfo = {s1, s2}
  DbInfo <- MCDbInfo
  DbQuotaBytes = 100
  LargeFree = 20
  Nil = Nil
  Endpoint = {e}
  MaxEps = 3
  EpLists <- MCEpLists
  maxRetries = 3
INVARIANTS
  IInv
  SuccessIsSound
PROPERTIES
  ImplementsVerdict
  DefinitiveFindingKept
  Terminates
CHECK_DEADLOCK FALSE
