--------------------------- MODULE ReadersWriters ---------------------------
(***************************************************************************)
(* What a readers-writer lock promises, independently of how it is built:  *)
(* a write lock excludes every other lock, read locks exclude write locks  *)
(* only.  A read lock is a pair <<thread, request>>, so that one thread may own  *)
(* several of them.  RWLock implements this specification.                 *)
(***************************************************************************)
CONSTANTS Threads,     \* the threads that share the lock
          Requests     \* what tells the read locks of one thread apart

VARIABLES writeLocks,  \* the threads that own the write lock
          readLocks    \* the read locks handed out and not released yet

lockVars == <<writeLocks, readLocks>>

Init ==
  /\ writeLocks = {}
  /\ readLocks = {}

(* A write lock is handed out only if nobody owns any lock. *)
AcquireWrite(t) ==
  /\ writeLocks = {}
  /\ readLocks = {}
  /\ writeLocks' = {t}
  /\ UNCHANGED readLocks

ReleaseWrite(t) ==
  /\ writeLocks = {t}
  /\ writeLocks' = {}
  /\ UNCHANGED readLocks

(* A read lock is handed out only if there is no writer. *)
AcquireRead(t, n) ==
  /\ writeLocks = {}
  /\ <<t, n>> \notin readLocks
  /\ readLocks' = readLocks \cup {<<t, n>>}
  /\ UNCHANGED writeLocks

ReleaseRead(t, n) ==
  /\ <<t, n>> \in readLocks
  /\ readLocks' = readLocks \ {<<t, n>>}
  /\ UNCHANGED writeLocks

Next ==
  \E t \in Threads :
    \/ AcquireWrite(t)
    \/ ReleaseWrite(t)
    \/ \E n \in Requests : AcquireRead(t, n) \/ ReleaseRead(t, n)

Spec == Init /\ [][Next]_lockVars
=============================================================================
