SPECIFICATION FairSpec
CONSTANTS
  c1 = c1
  c2 = c2
  r1 = r1
  r2 = r2
  r3 = r3
  None = None
  Clients = {c1, c2}
  Requests = {r1, r2, r3}
INVARIANTS
  NeverPanics
  NothingStranded
PROPERTIES
  EverythingCompletes
  ImplementsRemoteAccess
