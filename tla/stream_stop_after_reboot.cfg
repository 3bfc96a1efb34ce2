SPECIFICATION Spec
CONSTANTS
  c1 = c1
  loop = loop
  boot = boot
  Clients <- MCClients
  Loop = loop
  Boot = boot
  MaxBroadcasts = 2
  Scheduled <- MCScheduled
  Configured = TRUE
  MaxRequests = 2
  MaxUpsets = 1
INVARIANT StoppedOccurrenceRests
