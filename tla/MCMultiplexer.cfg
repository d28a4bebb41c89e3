SPECIFICATION Spec
CONSTANTS
  r1 = r1
  r2 = r2
  None = None
  NPorts = 2
  NSessions = 3
  Requests = {r1, r2}
SYMMETRY Symmetry
INVARIANTS
  NeverPanics
  NobodyForgotten
PROPERTIES
  ImplementsRemoteAccess
