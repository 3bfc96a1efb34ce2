SPECIFICATION FairSpec
CONSTANTS
  e1 = e1
  e2 = e2
  o1 = o1
  loop = loop
  none = none
  Events <- MCEvent
  Owners <- MCOneOwner
  Owner <- MCOneOwnerOf
  Start <- MCOneStart
  Length <- MCOneLength
  Lead <- MCOneLead
  Operators <- MCOperators
  Loop <- loop
  NoEvent <- none
  Preroll = 0
  MaxPrepLead = 1
  BackoffUnit = 1
  BackoffSteps = 1
  BackoffCap = 2
  MaxTime = 4
  MaxBroadcasts = 2
  MaxExtend = 1
  MaxUpsets = 1
PROPERTY EventEnds
CHECK_DEADLOCK FALSE
