SPECIFICATION FairSpec
CONSTANTS
  c1 = c1
  c2 = c2
  Callers <- MCCallers
  MaxSessions = 2
  MaxSpawns = 1
  MaxCrashes = 0
  MaxRestarts = 1
  QuickLimit = 2
PROPERTIES
  StopReturns
  RestartIsServed
CHECK_DEADLOCK FALSE
