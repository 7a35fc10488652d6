SPECIFICATION FairSpec
CONSTANTS
  owner = owner
  other = other
  onLine = onLine
  Owner = owner
  Clients <- OneClient
  Host <- NoHost
  MayCall <- PipeCalls
  Lines <- Lines12
  PipeCap = 1
  NeedsInput = TRUE
INVARIANTS TypeOK FinishSeesAll
PROPERTIES ProcessEnds FinishReported
