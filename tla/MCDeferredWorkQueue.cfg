\* Two clients, one of which owns a normal and a static deferred package, the other one a
\* dynamic deferred package; three points in time, three calls of clients.
SPECIFICATION FairSpec
CONSTANTS
  c1 = c1
  c2 = c2
  n1 = n1
  x1 = x1
  x2 = x2
  None = None
  Normal = {n1}
  Deferred = {x1, x2}
  Static = {n1, x1}
  Clients = {c1, c2}
  OwnerOf <- TwoClients
  OwnerID <- TwoClientsIDs
  MaxTime = 2
  MaxCalls = 3
INVARIANTS
  NeverOversleeps
  DestroyedClientIsClean
PROPERTIES
  ImplementsExecutor
  DeferredPackagesLeave
CHECK_DEADLOCK FALSE
