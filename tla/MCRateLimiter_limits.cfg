SPECIFICATION Spec
CONSTANTS
  None = None
  th1 = th1
  th2 = th2
  s1 = s1
  s2 = s2
  d1 = d1
  d2 = d2
  Threads = {th1, th2}
  Subnets = {s1, s2}
  Domains = {d1, d2}
  Capacity = 2
  Refill = 3
  MaxEntries = 1
  MaxAge = 0
  Second = 1
  MaxTime = 1
CONSTRAINT FewTokens
SYMMETRY Names
INVARIANTS
  TypeOK
  AdmissionBound
  TableNearlyBounded
PROPERTIES
  OneAllowPerSecond
