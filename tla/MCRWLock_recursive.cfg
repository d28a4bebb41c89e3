SPECIFICATION Spec
CONSTANTS
  t1 = t1
  t2 = t2
  t3 = t3
  Threads = {t1, t2, t3}
  RecursiveReaders = {t1, t2, t3}
  Int32Max = 2
  MaxCalls = 2
INVARIANTS
  ReadOwnerNeverBlocks
CHECK_DEADLOCK FALSE
