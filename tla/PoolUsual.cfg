SPECIFICATION Spec
CONSTANTS
  owner = owner
  other = other
  p1 = p1
  p2 = p2
  p3 = p3
  Owner = owner
  Guarded = TRUE
  Clients <- TwoClients
  MayCall <- UsualCalls
  Procs <- ThreeProcs
  Prio <- PrioMany
  Limit0 = 1
  Limits <- Limits12
INVARIANTS TypeOK RunningExact LimitRespected
PROPERTIES WaitMeansEnded ImplementsContract
