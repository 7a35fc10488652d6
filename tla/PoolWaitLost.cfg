SPECIFICATION FairSpec
CONSTANTS
  owner = owner
  other = other
  p1 = p1
  p2 = p2
  p3 = p3
  Owner = owner
  Guarded = TRUE
  Clients <- OneClient
  MayCall <- AddWaitCalls
  Procs <- TwoProcs
  Prio <- PrioFew
  Limit0 = 1
  Limits <- NoLimits
PROPERTIES WaitReturns
