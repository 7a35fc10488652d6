SPECIFICATION Spec
CONSTANTS
  owner = owner
  other = other
  onLine = onLine
  Owner = owner
  Clients <- OneClient
  Host <- NoHost
  MayCall <- DestroyCalls
  Lines <- Lines10
  PipeCap = 1
  NeedsInput = FALSE
INVARIANTS DestructorNeverThrows
