SPECIFICATION FairSpec
CONSTANTS
  c1 = c1
  c2 = c2
  Clients = {c1, c2}
  MaxDelay = 2
  MaxAttempts = 2
  MaxNbOfLocks = 2
INVARIANTS
  NeverUnexpected
  StoppedIsQuiet
  HeldStopped
  SamplingBracketed
PROPERTIES
  StopCompletes
  WaitersReturn
