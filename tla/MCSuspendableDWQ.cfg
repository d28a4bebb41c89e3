SPECIFICATION FairSuspendableSpec
CONSTANT
  MaxStray = 3
INVARIANTS
  SuspendedIsQuiet
  SettledBetweenCalls
PROPERTIES
  CallsReturn
  ResumedQueueWorks
