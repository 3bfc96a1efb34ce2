SPECIFICATION FairSpec
CONSTANTS
  c1 = c1
  c2 = c2
  p1 = p1
  p2 = p2
  NoConfig = NoConfig
  Callers <- MCCallers
  Configs <- MCConfigs
  MaxApplies = 3
  MaxSpawns = 2
INVARIANTS
  TypeOK
  ReceiverIsCurrent
  StatusFollowsLoops
PROPERTIES
  PortLease
  ApplyReturns
CHECK_DEADLOCK FALSE
