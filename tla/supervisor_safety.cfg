SPECIFICATION Spec
CONSTANTS
  c1 = c1
  c2 = c2
  Callers <- MCCallers
  MaxSessions = 2
  MaxSpawns = 3
  MaxCrashes = 1
  MaxRestarts = 1
  QuickLimit = 2
SYMMETRY CallerSymmetry
INVARIANTS
  TypeOK
  StopReturnsAfterExit
  NoSendOnClosedChannel
  RecordedEncoderIsFound
  LiveStateHasSession
PROPERTY LeaseSpec
CHECK_DEADLOCK FALSE
