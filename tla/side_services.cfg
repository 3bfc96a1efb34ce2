SPECIFICATION FairSpec
CONSTANTS
  r1 = r1
  p1 = p1
  p2 = p2
  t1 = t1
  t2 = t2
  o1 = o1
  o2 = o2
  c1 = c1
  c2 = c2
  d1 = d1
  d2 = d2
  d3 = d3
  Readers <- MCReaders
  Publishers <- MCPublishers
  Closer = closer
  MaxSubscribers = 1
  MaxVersion = 4
  Tasks <- MCTasks
  MaxConsents = 2
  MaxFlows = 1
  MaxReboots = 1
  Offers <- MCOffers
  Callers <- MCCallers
  MaxSessions = 2
  Tiers = 5
  AutoOnly <- MCAutoOnly
  Excluded <- MCExcluded
  Chosen <- MCChosen
  MaxDowngrades = 2
  MaxStarts = 2
  StartupGrace = 3
  CallDeadline = 2
  BadPolls = 3
  MaxStreams = 3
  Units <- MCUnits
  NameOf <- MCNameOf
  Indices = 2
  MaxMoves = 2
  MaxChoices = 1
INVARIANTS
  TypeOK
  NewestShown
  LoginIsLatest
  CameraYielded
  NoLostSession
  TierWithinTarget
  UserStopIsFinal
  HealthRestartIsOwn
  RightSource
PROPERTIES
  ListenersLeased
  ReadersLeave
  QualityReturns
  SourceReturns
CHECK_DEADLOCK FALSE
