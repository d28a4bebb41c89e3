SPECIFICATION Spec
CONSTANTS
  t1 = t1
  t2 = t2
  t3 = t3
  Threads = {t1, t2, t3}
  RecursiveReaders = {}
  Int32Max = 2
  MaxCalls = 2
INVARIANTS
  ReadersWokenWhenReadable
CHECK_DEADLOCK FALSE
