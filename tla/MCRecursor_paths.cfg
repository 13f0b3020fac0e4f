SPECIFICATION FairSpec
CONSTANTS
  c = c
  z = z
  wx = wx
  sv = sv
  ip = ip
  bad = bad
  root = root
  Labels <- MCLabels
  MaxLabels = 3
  Zones <- MCZones
  Addresses <- MCAddresses
  Safe <- MCSafe
  Roots <- MCRoots
  Questions <- MCQuestions
  Messages <- MCMessages
  None = None
  MaxDepth = 2
  MaxSteps = 6
  NsTaken = 2
  EnoughIps = 1
INVARIANTS
  TypeOK
  SafeUpstreams
  StepsFollowLabels
  ChainWhole
PROPERTY Ends
