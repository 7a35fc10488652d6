SPECIFICATION FairSpec
CONSTANTS
  owner = owner
  other = other
  onLine = onLine
  Owner = owner
  Clients <- WithCallback
  Host <- LineHost
  MayCall <- StopCalls
  Lines <- Lines20
  PipeCap = 1
  NeedsInput = FALSE
INVARIANTS DrainNotAborted NothingOutlives OutputComplete AtLeastOneReport
PROPERTIES ReturnsNotRunning ImplementsLifecycle CallsReturn
