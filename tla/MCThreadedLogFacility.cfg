\* Room for one of two limited messages, counters up to 2, five calls that log, two clients.
SPECIFICATION FairSpec
CONSTANTS
  debug = debug
  info = info
  error = error
  c1 = c1
  c2 = c2
  Messages <- MCMessages
  Limited <- MCLimited
  Clients <- MCClients
  Capacity = 1
  MaxCount = 2
  MaxLogs = 5
INVARIANTS
  NobodyOversleeps
PROPERTIES
  ImplementsMessageLog
  CallsReturn
