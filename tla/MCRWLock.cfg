\* Three threads, each of which makes two requests; thread t1 takes read-locks recursively.
SPECIFICATION FairSpec
CONSTANTS
  t1 = t1
  t2 = t2
  t3 = t3
  Threads = {t1, t2, t3}
  RecursiveReaders = {t1}
  Int32Max = 2
  MaxCalls = 2
INVARIANTS
  NobodyStranded
PROPERTIES
  WritersGoFirst
  ImplementsReadersWriters
  BlockingCallsReturn
CHECK_DEADLOCK FALSE
