SPECIFICATION Spec
CONSTANTS
  c1 = c1
  c2 = c2
  Callers <- MCCallers
  MaxSessions = 1
  MaxSpawns = 2
  MaxCrashes = 0
  MaxRestarts = 1
  QuickLimit = 2
INVARIANT RejectionIsGenuine
CHECK_DEADLOCK FALSE
