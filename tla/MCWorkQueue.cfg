SPECIFICATION FairSpec
CONSTANTS
  c1 = c1
  s1 = s1
  d1 = d1
  q1 = q1
  q2 = q2
  None = None
  Queues = {q1, q2}
  Clients = {c1}
  Static = {s1}
  Dynamic = {d1}
  OwnerOf <- OneClient
  OwnerID <- OneClientIDs
  MaxCalls = 3
INVARIANTS
  StateMatchesPlace
  NeverSleepsOnWork
  CleanedQueueIsClean
  FlushProtocol
PROPERTIES
  ImplementsExecutor
  PackagesLeave
  ClientsGetThrough
CHECK_DEADLOCK FALSE
