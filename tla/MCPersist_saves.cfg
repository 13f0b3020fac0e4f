SPECIFICATION Spec
CONSTANTS
  WordMod = 16
  DefaultTtl = 1
  MaxAnswerTtl = 4
  MaxStale = 1
  StaleServeTtl = 1
  None = None
  k1 = k1
  k2 = k2
  n1 = n1
  n2 = n2
  n3 = n3
  Keys = {k1, k2}
  Savers = {"periodic", "shutdown"}
  Inodes = {n1, n2, n3}
  Chunks = 2
  Ttls <- ZeroTtl
  OldDocs <- LegacyDocs
  FlushMayFail = TRUE
  MaxTime = 1
  MaxBoots = 1
CONSTRAINT OverlapsOnce
SYMMETRY Names
INVARIANTS
  TypeOK
  TornOnlyByOverlap
PROPERTIES
  SavedCompletely
  RestartRecovers
