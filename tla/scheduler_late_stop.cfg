SPECIFICATION Spec
CONSTANTS
  e1 = e1
  e2 = e2
  o1 = o1
  loop = loop
  none = none
  Events <- MCEvents
  Owners <- MCOwners
  Owner <- MCOwner
  Start <- MCStart
  Length <- MCLength
  Lead <- MCLead
  Operators <- MCOperators
  Loop <- loop
  NoEvent <- none
  Preroll = 0
  MaxPrepLead = 1
  BackoffUnit = 2
  BackoffSteps = 0
  BackoffCap = 1
  MaxTime = 2
  MaxBroadcasts = 2
  MaxExtend = 0
  MaxUpsets = 0
INVARIANT StoppedStaysStopped
CHECK_DEADLOCK FALSE
