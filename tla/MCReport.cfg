SPECIFICATION FairSpec
CONSTANTS
  a = a
  b = b
  Endpoint <- MCEndpoint
  Http <- MCHttp
  Https <- MCHttps
  Configs <- MCConfigs
  SrvAnswers <- MCSrvAnswers
  UrlLists <- MCUrlLists
  MaxChanges = 1
  maxRetries = 2
INVARIANTS
  TypeOK
  ReportIsWhole
  SameEndpoints
PROPERTIES
  EndsOrHangsInMetrics
CHECK_DEADLOCK FALSE
