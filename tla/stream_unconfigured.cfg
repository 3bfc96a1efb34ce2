SPECIFICATION Spec
CONSTANTS
  c1 = c1
  loop = loop
  boot = boot
  Clients <- MCClients
  Loop = loop
  Boot = boot
  MaxBroadcasts = 1
  Scheduled <- MCNoneScheduled
  Configured = FALSE
  MaxRequests = 2
  MaxUpsets = 1
PROPERTY
  StopStops
