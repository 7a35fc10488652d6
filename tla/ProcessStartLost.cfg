SPECIFICATION FairSpec
CONSTANTS
  owner = owner
  other = other
  onLine = onLine
  Owner = owner
  Clients <- OneClient
  Host <- NoHost
  MayCall <- StartCalls
  Lines <- Lines10
  PipeCap = 1
  NeedsInput = FALSE
PROPERTIES WaitForStartReturns
