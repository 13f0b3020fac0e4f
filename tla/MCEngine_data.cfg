SPECIFICATION Spec
CONSTANTS
  WordMod = 16
  DefaultTtl = 1
  MaxAnswerTtl = 4
  MaxStale = 2
  StaleServeTtl = 1
  None = None
  k1 = k1
  k2 = k2
  r1 = r1
  r2 = r2
  t1 = t1
  t2 = t2
  t3 = t3
  w1 = w1
  Keys = {k1}
  Requests = {r1}
  Tasks = {t1, t2}
  Warmers = {}
  WarmPlan <- NoWarmPlan
  Messages <- AllMessages
  Queries <- MCQueries
  Enforce = TRUE
  Encodings <- Shaky
  StartTime = 12
  MaxTime = 16
SYMMETRY Slots
INVARIANTS
  TypeOK
  AdWithinSignature
  ClientHorizon
  BogusContained
PROPERTIES
  FailedRefreshKeepsEntry
