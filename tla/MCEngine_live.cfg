SPECIFICATION FairSpec
CONSTANTS
  WordMod = 16
  DefaultTtl = 1
  MaxAnswerTtl = 4
  MaxStale = 1
  StaleServeTtl = 1
  None = None
  k1 = k1
  k2 = k2
  r1 = r1
  r2 = r2
  t1 = t1
  t2 = t2
  t3 = t3
  w1 = w1
  Keys = {k1, k2}
  Requests = {r1}
  Tasks = {t1, t2, t3}
  Warmers = {w1}
  WarmPlan <- MCWarmPlan
  Messages <- OneMessage
  Queries <- OneQuery
  Enforce = TRUE
  Encodings <- Sure
  StartTime = 12
  MaxTime = 15
INVARIANTS
  SecureWithinSignature
  SingleFlight
PROPERTIES
  StaleTriggersRefresh
  AllEnd
