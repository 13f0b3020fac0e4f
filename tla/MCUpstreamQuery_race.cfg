SPECIFICATION FairSpec
CONSTANTS
  a = a
  b = b
  u = u
  x = x
  Candidates <- MCCandidates
  V4 <- MCV4
  Safe <- MCSafe
  Replies <- MCReplies
  Garbled = Garbled
  None = None
  QueryTimeout = 1
  TcpTimeout = 2
  MaxElapsed = 4
  StreamsEnd = TRUE
CHECK_DEADLOCK FALSE
INVARIANTS
  TypeOK
  AcceptedIsAnswer
  GivesUpLast
  AttemptBounded
PROPERTY Ends
