--------------------------- MODULE RWLock_proofs ---------------------------
(***************************************************************************)
(* Proofs about RWLock for any finite set of threads and any limits.  The  *)
(* inductive invariant ties both counters to the locks handed out and to   *)
(* the threads inside WriteLock's wait loop; the decrements of             *)
(* nbOfBlockedWriters and nbOfLocks stay in range only because of that.    *)
(***************************************************************************)
EXTENDS RWLock, FiniteSetTheorems, TLAPS

Calls == WriterCalls \cup ReaderCalls
WakeStates == {"none", "waiting", "signalled", "expired", "cancelled"}

(* The request a blocked thread waits for has not been granted.            *)
PendingUngranted ==
  \A t \in Threads : pc[t] \in Calls => /\ calls[t] > 0
                                      /\ <<t, calls[t] - 1>> \notin readLocks

IInv == TypeOK /\ LocksCounted /\ BlockedWritersCounted /\ PendingUngranted

-----------------------------------------------------------------------------
(* What SignalZero does to the waits: it ends some of the waits of the     *)
(* writers passed to it, or all waits of readers, and touches no other     *)
(* thread.                                                                 *)
LEMMA SignalZeroEffect ==
  ASSUME TypeOK,
         NEW b \in Nat,
         NEW w \in [Threads -> WakeStates],
         NEW S \in SUBSET Threads,
         NEW v \in SignalZero(b, w, S)
  PROVE  /\ v \in [Threads -> WakeStates]
         /\ \A u \in Threads : \/ v[u] = w[u]
                               \/ /\ v[u] = "signalled"
                                  /\ u \in S \cup Waiting(ReaderCalls)
         /\ b # 0 /\ S # {} => \E u \in S : v[u] = "signalled"
         /\ b = 0 => \A u \in Waiting(ReaderCalls) : v[u] = "signalled"
<1>0. Waiting(ReaderCalls) \subseteq Threads
  BY DEF Waiting, Blocked
<1>1. CASE b = 0
  <2>1. v = Broadcast(w, Waiting(ReaderCalls))
    BY <1>1 DEF SignalZero
  <2> QED
    BY <1>0, <1>1, <2>1 DEF Broadcast, WakeStates
<1>2. CASE b # 0 /\ S = {}
  <2>1. v = w
    BY <1>2 DEF SignalZero, Signal
  <2> QED
    BY <1>2, <2>1
<1>3. CASE b # 0 /\ S # {}
  <2>1. PICK u \in S : v = [w EXCEPT ![u] = "signalled"]
    BY <1>3 DEF SignalZero, Signal
  <2> QED
    BY <1>3, <2>1 DEF WakeStates
<1> QED
  BY <1>1, <1>2, <1>3

(* The set of blocked writers is finite, so counting its members makes     *)
(* sense; it changes by one thread at a time.                              *)
LEMMA BlockedFinite ==
  ASSUME NEW kinds
  PROVE  IsFiniteSet(Blocked(kinds))
BY ConstantsAssumption, FS_Subset DEF Blocked

-----------------------------------------------------------------------------
LEMMA InitEstablishesIInv == Init => IInv
<1> SUFFICES ASSUME Init PROVE IInv
  OBVIOUS
<1>1. TypeOK
  BY ConstantsAssumption DEF Init, TypeOK, WriterCalls, ReaderCalls
<1>2. LocksCounted
  BY FS_EmptySet DEF Init, LocksCounted
<1>3. BlockedWritersCounted
  <2>1. Blocked(WriterCalls) = {}
    BY DEF Init, Blocked, WriterCalls
  <2> QED
    BY <2>1, FS_EmptySet DEF Init, BlockedWritersCounted
<1>4. PendingUngranted
  BY DEF Init, PendingUngranted, Calls, WriterCalls, ReaderCalls
<1> QED
  BY <1>1, <1>2, <1>3, <1>4 DEF IInv

(* A blocked writer is counted: the decrement in the scope guard of        *)
(* WriteLock stays in range.                                               *)
LEMMA WriterIsCounted ==
  ASSUME IInv, NEW t \in Threads, pc[t] \in WriterCalls
  PROVE  nbOfBlockedWriters \in Nat /\ nbOfBlockedWriters > 0
<1>1. Blocked(WriterCalls) # {}
  BY DEF Blocked
<1>2. Cardinality(Blocked(WriterCalls)) # 0 /\ Cardinality(Blocked(WriterCalls)) \in Nat
  BY <1>1, BlockedFinite, FS_EmptySet, FS_CardinalityType
<1> QED
  BY <1>2 DEF IInv, BlockedWritersCounted

(* A write-lock holder is the only owner.                                  *)
LEMMA NoOwnerIfFree ==
  ASSUME IInv, nbOfLocks = 0
  PROVE  writeLocks = {} /\ readLocks = {}
BY FS_EmptySet DEF IInv, LocksCounted

(* The waits after a step that frees the lock and takes t out of its wait, *)
(* if it was in one.                                                       *)
LEMMA FreedEffect ==
  ASSUME TypeOK, NEW t \in Threads, NEW b \in Nat,
         NEW w, w = wake \/ w = [wake EXCEPT ![t] = "none"],
         wake[t] # "waiting" \/ w = wake,
         wake' \in SignalZero(b, w, Waiting(WriterCalls))
  PROVE  /\ wake' \in [Threads -> WakeStates]
         /\ \A u \in Threads : (u # t \/ w = wake) => (wake'[u] = "none" <=> wake[u] = "none")
         /\ w # wake => wake'[t] = "none"
         /\ \A u \in Threads : wake'[u] = "waiting" => wake[u] = "waiting"
<1>1. w \in [Threads -> WakeStates] /\ Waiting(WriterCalls) \subseteq Threads
  BY DEF TypeOK, WakeStates, Waiting, Blocked
<1>2. /\ wake' \in [Threads -> WakeStates]
      /\ \A u \in Threads : \/ wake'[u] = w[u]
                            \/ /\ wake'[u] = "signalled"
                               /\ u \in Waiting(WriterCalls) \cup Waiting(ReaderCalls)
  BY <1>1, SignalZeroEffect
<1>3. \A u \in Waiting(WriterCalls) \cup Waiting(ReaderCalls) : wake[u] = "waiting"
  BY DEF Waiting
<1>4. \A u \in Threads : u # t => w[u] = wake[u]
  BY DEF TypeOK
<1>5. w # wake => w[t] = "none" /\ wake[t] # "waiting"
  BY DEF TypeOK
<1> QED
  BY <1>2, <1>3, <1>4, <1>5

-----------------------------------------------------------------------------
(* Each conjunct of the invariant is preserved by every step of a thread.  *)
LEMMA TypeOKStep ==
  ASSUME IInv, NEW t \in Threads, Step(t)
  PROVE  TypeOK'
<1> USE ConstantsAssumption DEF IInv
<1>0. nbOfBlockedWriters \in Nat /\ 0 \in Nat
  BY DEF TypeOK
<1>1. CASE TryWriteLock(t)
  BY <1>1 DEF TryWriteLock, NewCall, TypeOK
<1>2. CASE RequestRefused(t)
  BY <1>2 DEF RequestRefused, NewCall, TypeOK
<1>3. CASE WriteLock(t)
  BY <1>3 DEF WriteLock, NewCall, TypeOK
<1>4. ASSUME NEW call \in WriterCalls, WriteLockBlocks(t, call) PROVE TypeOK'
  BY <1>4 DEF WriteLockBlocks, NewCall, Block, TypeOK
<1>5. CASE WriterFindsItLocked(t)
  BY <1>5 DEF WriterFindsItLocked, TypeOK
<1>6. CASE WriterAcquires(t)
  <2>1. nbOfBlockedWriters - 1 \in 0 .. Int32Max
    BY <1>6, WriterIsCounted DEF WriterAcquires, TypeOK
  <2> DEFINE w == [wake EXCEPT ![t] = "none"]
  <2>2. w # wake
    BY <1>6 DEF WriterAcquires, TypeOK
  <2>3. /\ wake' \in [Threads -> WakeStates]
        /\ \A u \in Threads : u # t => (wake'[u] = "none" <=> wake[u] = "none")
        /\ wake'[t] = "none"
    BY <1>6, <2>1, <2>2, FreedEffect DEF WriterAcquires
  <2>4. \A u \in Threads : wake'[u] # "none" <=> pc'[u] \in WriterCalls \cup ReaderCalls
    BY <1>6, <2>3 DEF WriterAcquires, TypeOK, WriterCalls, ReaderCalls
  <2>5. pc' \in [Threads -> {"idle", "gone"} \cup WriterCalls \cup ReaderCalls]
    BY <1>6 DEF WriterAcquires, TypeOK
  <2>6. nbOfLocks' \in -1 .. Int32Max
    BY <1>6 DEF WriterAcquires
  <2> HIDE DEF w
  <2> QED
    BY <1>6, <2>1, <2>3, <2>4, <2>5, <2>6 DEF WriterAcquires, TypeOK, WakeStates
<1>7. CASE WriterGivesUp(t)
  <2> DEFINE w == [wake EXCEPT ![t] = "none"]
  <2>1. nbOfBlockedWriters - 1 \in 0 .. Int32Max
    BY <1>7, WriterIsCounted DEF WriterGivesUp, TypeOK
  <2>2. w # wake /\ wake[t] # "waiting"
    BY <1>7 DEF WriterGivesUp, TypeOK
  <2>3. /\ wake' \in [Threads -> WakeStates]
        /\ \A u \in Threads : u # t => (wake'[u] = "none" <=> wake[u] = "none")
        /\ wake'[t] = "none"
    <3>1. CASE nbOfLocks = 0
      BY <1>7, <2>1, <2>2, <3>1, FreedEffect DEF WriterGivesUp
    <3>2. CASE nbOfLocks # 0
      <4>1. wake' = w
        BY <1>7, <3>2 DEF WriterGivesUp
      <4> QED
        BY <4>1 DEF TypeOK, WakeStates
    <3> QED
      BY <3>1, <3>2
  <2> QED
    BY <1>7, <2>1, <2>3
       DEF WriterGivesUp, TypeOK, WakeStates, WriterCalls, ReaderCalls
<1>8. CASE ReleaseWriteLock(t)
  <2>1. /\ wake' \in [Threads -> WakeStates]
        /\ \A u \in Threads : wake'[u] = "none" <=> wake[u] = "none"
    BY <1>0, <1>8, FreedEffect DEF ReleaseWriteLock
  <2> QED
    BY <1>8, <2>1 DEF ReleaseWriteLock, TypeOK, WakeStates
<1>9. CASE ReadLock(t)
  BY <1>9 DEF ReadLock, NewCall, TypeOK
<1>10. ASSUME NEW call \in ReaderCalls, ReadLockBlocks(t, call) PROVE TypeOK'
  BY <1>10 DEF ReadLockBlocks, NewCall, Block, TypeOK
<1>11. CASE ReaderFindsItLocked(t)
  BY <1>11 DEF ReaderFindsItLocked, TypeOK
<1>12. CASE ReaderAcquires(t)
  <2>1. calls[t] > 0
    BY <1>12 DEF ReaderAcquires, PendingUngranted, Calls
  <2> QED
    BY <1>12, <2>1 DEF ReaderAcquires, TypeOK, WriterCalls, ReaderCalls
<1>13. CASE ReaderGivesUp(t)
  BY <1>13 DEF ReaderGivesUp, TypeOK, WriterCalls, ReaderCalls
<1>14. CASE ReleaseReadLock(t)
  <2>1. /\ wake' \in [Threads -> WakeStates]
        /\ \A u \in Threads : wake'[u] = "none" <=> wake[u] = "none"
    <3>1. CASE nbOfLocks - 1 = 0
      BY <1>0, <1>14, <3>1, FreedEffect DEF ReleaseReadLock
    <3>2. CASE nbOfLocks - 1 # 0
      BY <1>14, <3>2 DEF ReleaseReadLock, TypeOK, WakeStates
    <3> QED
      BY <3>1, <3>2
  <2> QED
    BY <1>14, <2>1 DEF ReleaseReadLock, TypeOK, WakeStates
<1>15. CASE SpuriousWakeup(t)
  BY <1>15 DEF SpuriousWakeup, EndWait, TypeOK
<1>16. CASE Timeout(t)
  BY <1>16 DEF Timeout, EndWait, TypeOK
<1>17. CASE CancelThread(t)
  BY <1>17 DEF CancelThread, EndWait, TypeOK
<1> QED
  BY <1>1, <1>2, <1>3, <1>4, <1>5, <1>6, <1>7, <1>8, <1>9, <1>10, <1>11, <1>12,
     <1>13, <1>14, <1>15, <1>16, <1>17
     DEF Step, ResumeThread, ReleaseLock

LEMMA LockInvStep ==
  ASSUME IInv, NEW t \in Threads, Step(t)
  PROVE  LocksCounted'
<1> USE DEF IInv
<1> DEFINE Granted(l) == readLocks' = readLocks \cup {l}
<1>0. nbOfLocks = 0 => writeLocks = {} /\ readLocks = {}
  BY NoOwnerIfFree
<1>1. CASE nbOfLocks' = nbOfLocks /\ writeLocks' = writeLocks /\ readLocks' = readLocks
  BY <1>1 DEF LocksCounted
<1>2. CASE nbOfLocks = 0 /\ nbOfLocks' = -1 /\ writeLocks' = writeLocks \cup {t}
           /\ readLocks' = readLocks
  BY <1>0, <1>2 DEF LocksCounted
<1>3. ASSUME NEW l, l \notin readLocks, nbOfLocks >= 0, nbOfLocks' = nbOfLocks + 1,
             readLocks' = readLocks \cup {l}, writeLocks' = writeLocks
      PROVE  LocksCounted'
  <2>1. IsFiniteSet(readLocks') /\ Cardinality(readLocks') = nbOfLocks + 1
    BY <1>3, FS_AddElement DEF LocksCounted, TypeOK
  <2> QED
    BY <1>3, <2>1 DEF LocksCounted, TypeOK
<1>4. CASE ReleaseWriteLock(t)
  BY <1>4, FS_EmptySet DEF ReleaseWriteLock, LocksCounted
<1>5. CASE ReleaseReadLock(t)
  <2>1. PICK l \in ReadLocksOf(t) : readLocks' = readLocks \ {l}
    BY <1>5 DEF ReleaseReadLock
  <2>2. IsFiniteSet(readLocks') /\ Cardinality(readLocks') = nbOfLocks - 1
    BY <1>5, <2>1, FS_RemoveElement DEF ReleaseReadLock, ReadLocksOf, LocksCounted, TypeOK
  <2> QED
    BY <1>5, <2>2 DEF ReleaseReadLock, LocksCounted, TypeOK
<1>6. CASE ReadLock(t)
  <2>1. <<t, calls[t]>> \notin readLocks
    BY DEF TypeOK
  <2> QED
    BY <1>3, <1>6, <2>1 DEF ReadLock
<1>7. CASE ReaderAcquires(t)
  <2>1. <<t, calls[t] - 1>> \notin readLocks
    BY <1>7 DEF ReaderAcquires, PendingUngranted, Calls
  <2> QED
    BY <1>1, <1>3, <1>7, <2>1 DEF ReaderAcquires
<1> QED
  BY <1>1, <1>2, <1>4, <1>5, <1>6, <1>7
     DEF Step, ResumeThread, ReleaseLock, TryWriteLock, RequestRefused, WriteLock,
         WriteLockBlocks, WriterFindsItLocked, WriterAcquires, WriterGivesUp,
         ReadLockBlocks, ReaderFindsItLocked, ReaderGivesUp, SpuriousWakeup, Timeout,
         CancelThread, EndWait

LEMMA BlockedWritersCountedStep ==
  ASSUME IInv, NEW t \in Threads, Step(t)
  PROVE  BlockedWritersCounted'
<1> USE DEF IInv
<1>0. IsFiniteSet(Blocked(WriterCalls))
  BY BlockedFinite
<1>1. CASE pc' = pc /\ nbOfBlockedWriters' = nbOfBlockedWriters
  BY <1>1 DEF BlockedWritersCounted, Blocked
<1>2. ASSUME NEW call \in WriterCalls, WriteLockBlocks(t, call)
      PROVE  BlockedWritersCounted'
  <2>1. Blocked(WriterCalls)' = Blocked(WriterCalls) \cup {t} /\ t \notin Blocked(WriterCalls)
    BY <1>2 DEF WriteLockBlocks, NewCall, Block, Blocked, TypeOK, WriterCalls
  <2> QED
    BY <1>0, <1>2, <2>1, FS_AddElement DEF WriteLockBlocks, BlockedWritersCounted
<1>3. CASE WriterAcquires(t) \/ WriterGivesUp(t)
  <2>1. Blocked(WriterCalls)' = Blocked(WriterCalls) \ {t} /\ t \in Blocked(WriterCalls)
    BY <1>3 DEF WriterAcquires, WriterGivesUp, Blocked, TypeOK, WriterCalls
  <2>2. nbOfBlockedWriters' = nbOfBlockedWriters - 1
    BY <1>3 DEF WriterAcquires, WriterGivesUp
  <2> QED
    BY <1>0, <2>1, <2>2, FS_RemoveElement DEF BlockedWritersCounted
<1>4. ASSUME NEW call \in ReaderCalls, ReadLockBlocks(t, call)
      PROVE  BlockedWritersCounted'
  <2>1. Blocked(WriterCalls)' = Blocked(WriterCalls)
    BY <1>4 DEF ReadLockBlocks, NewCall, Block, Blocked, TypeOK, WriterCalls, ReaderCalls
  <2> QED
    BY <1>4, <2>1 DEF ReadLockBlocks, BlockedWritersCounted
<1>5. CASE ReaderAcquires(t) \/ ReaderGivesUp(t)
  <2>1. Blocked(WriterCalls)' = Blocked(WriterCalls)
    BY <1>5 DEF ReaderAcquires, ReaderGivesUp, Blocked, TypeOK, WriterCalls, ReaderCalls
  <2> QED
    BY <1>5, <2>1 DEF ReaderAcquires, ReaderGivesUp, BlockedWritersCounted
<1> QED
  BY <1>1, <1>2, <1>3, <1>4, <1>5
     DEF Step, ResumeThread, ReleaseLock, TryWriteLock, RequestRefused, WriteLock,
         ReadLock, WriterFindsItLocked, ReaderFindsItLocked, ReleaseWriteLock,
         ReleaseReadLock, SpuriousWakeup, Timeout, CancelThread, EndWait

LEMMA PendingUngrantedStep ==
  ASSUME IInv, NEW t \in Threads, Step(t)
  PROVE  PendingUngranted'
<1> USE DEF IInv, Calls
<1>1. CASE /\ pc' = pc
           /\ \A u \in Threads : pc[u] \in Calls => calls'[u] = calls[u]
           /\ \A l \in readLocks' : l \in readLocks \/ (l[1] = t /\ pc[t] = "idle")
  BY <1>1 DEF PendingUngranted, WriterCalls, ReaderCalls
<1>2. CASE \E call \in Calls : NewCall(t) /\ Block(t, call) /\ readLocks' = readLocks
  <2>1. calls'[t] = calls[t] + 1 /\ calls[t] \in Nat
    BY <1>2 DEF NewCall, TypeOK
  <2>2. <<t, calls[t]>> \notin readLocks'
    BY <1>2 DEF TypeOK
  <2>3. \A u \in Threads : u # t => pc'[u] = pc[u] /\ calls'[u] = calls[u]
    BY <1>2 DEF NewCall, Block, TypeOK
  <2> QED
    BY <1>2, <2>1, <2>2, <2>3 DEF PendingUngranted
<1>3. CASE /\ \E q \in {"idle", "gone"} : pc' = [pc EXCEPT ![t] = q]
           /\ calls' = calls
           /\ \A l \in readLocks' : l \in readLocks \/ l[1] = t
  BY <1>3 DEF PendingUngranted, TypeOK, WriterCalls, ReaderCalls
<1>4. CASE ReadLock(t)
  <2>1. pc[t] = "idle" /\ pc' = pc /\ \A u \in Threads : u # t => calls'[u] = calls[u]
    BY <1>4 DEF ReadLock, NewCall, TypeOK
  <2> QED
    BY <1>1, <1>4, <2>1 DEF ReadLock, WriterCalls, ReaderCalls
<1>5. CASE TryWriteLock(t) \/ RequestRefused(t) \/ WriteLock(t)
  <2>1. /\ pc[t] = "idle" /\ pc' = pc /\ readLocks' = readLocks
        /\ \A u \in Threads : u # t => calls'[u] = calls[u]
    BY <1>5 DEF TryWriteLock, RequestRefused, WriteLock, NewCall, TypeOK
  <2> QED
    BY <1>1, <2>1 DEF WriterCalls, ReaderCalls
<1>6. CASE WriterAcquires(t) \/ WriterGivesUp(t) \/ ReaderAcquires(t) \/ ReaderGivesUp(t)
  BY <1>3, <1>6 DEF WriterAcquires, WriterGivesUp, ReaderAcquires, ReaderGivesUp
<1>7. CASE ReleaseReadLock(t)
  BY <1>1, <1>7 DEF ReleaseReadLock
<1>8. ASSUME NEW call \in WriterCalls, WriteLockBlocks(t, call) PROVE PendingUngranted'
  BY <1>2, <1>8 DEF WriteLockBlocks
<1>10. ASSUME NEW call \in ReaderCalls, ReadLockBlocks(t, call) PROVE PendingUngranted'
  BY <1>2, <1>10 DEF ReadLockBlocks
<1>9. CASE pc' = pc /\ calls' = calls /\ readLocks' = readLocks
  BY <1>9 DEF PendingUngranted
<1> QED
  BY <1>4, <1>5, <1>6, <1>7, <1>8, <1>9, <1>10
     DEF Step, ResumeThread, ReleaseLock,
         WriterFindsItLocked, ReaderFindsItLocked, ReleaseWriteLock,
         SpuriousWakeup, Timeout, CancelThread, EndWait

LEMMA IInvStep == IInv /\ [Next]_vars => IInv'
<1> SUFFICES ASSUME IInv, [Next]_vars PROVE IInv'
  OBVIOUS
<1>1. CASE Next
  BY <1>1, TypeOKStep, LockInvStep, BlockedWritersCountedStep, PendingUngrantedStep
     DEF Next, IInv
<1>2. CASE UNCHANGED vars
  BY <1>2 DEF vars, IInv, TypeOK, LocksCounted, BlockedWritersCounted, PendingUngranted, Blocked
<1> QED
  BY <1>1, <1>2

(* The counters stay in their ranges, every sleeping thread is inside a    *)
(* blocking call, the counters match the locks handed out and the blocked  *)
(* writers, in every reachable state.                                      *)
THEOREM Invariance == Spec => []IInv
<1>1. Init => IInv
  BY InitEstablishesIInv
<1>2. IInv /\ [Next]_vars => IInv'
  BY IInvStep
<1> QED
  BY <1>1, <1>2, PTL DEF Spec

(* Type correctness of every method of RWLock: no counter leaves its range *)
(* although neither is checked when it is decremented.                     *)
THEOREM TypeCorrect == Spec => []TypeOK
BY Invariance, PTL DEF IInv

(* Mutual exclusion, with the counter as its witness: no two owners unless *)
(* all are readers, and the counter never loses a read-lock.               *)
THEOREM LockCorrect == Spec => []LockInv
<1>1. IInv => LockInv
  BY ConstantsAssumption DEF IInv, TypeOK, LockInv
<1> QED
  BY <1>1, Invariance, PTL

(* Every exit from WriteLock takes exactly one writer out of the count.    *)
THEOREM CountCorrect == Spec => []BlockedWritersCounted
BY Invariance, PTL DEF IInv

-----------------------------------------------------------------------------
(* No lost wake-ups.  A step that frees the lock, or that takes a writer   *)
(* out of its wait while the lock is free, runs SignalZero with the        *)
(* current count; the count is exact, so SignalZero wakes the right side.  *)
LEMMA HandOver ==
  ASSUME IInv, NEW t \in Threads, NEW w, w = wake \/ w = [wake EXCEPT ![t] = "none"],
         t \notin Waiting(WriterCalls),
         nbOfBlockedWriters' \in Nat, BlockedWritersCounted',
         wake' \in SignalZero(nbOfBlockedWriters', w, Waiting(WriterCalls)),
         pc' = pc \/ \E q \in {"idle", "gone"} : pc' = [pc EXCEPT ![t] = q]
  PROVE  NoStrandedWriter' /\ NoStrandedReader'
<1> USE DEF IInv
<1>1. w \in [Threads -> WakeStates] /\ Waiting(WriterCalls) \subseteq Threads
  BY DEF TypeOK, WakeStates, Waiting, Blocked
<1>2. /\ \A u \in Threads : \/ wake'[u] = w[u]
                            \/ /\ wake'[u] = "signalled"
                               /\ u \in Waiting(WriterCalls) \cup Waiting(ReaderCalls)
      /\ nbOfBlockedWriters' # 0 /\ Waiting(WriterCalls) # {}
           => \E u \in Waiting(WriterCalls) : wake'[u] = "signalled"
      /\ nbOfBlockedWriters' = 0 => \A u \in Waiting(ReaderCalls) : wake'[u] = "signalled"
  BY <1>1, SignalZeroEffect
<1>3. \A u \in Threads : w[u] = wake[u] \/ (u = t /\ w[u] = "none")
  BY DEF TypeOK
<1>4. \A u \in Threads : pc'[u] = pc[u] \/ (u = t /\ pc'[u] \in {"idle", "gone"})
  BY DEF TypeOK
<1>5. \A u \in Threads : wake'[u] = "waiting" => wake[u] = "waiting"
  BY <1>2, <1>3
<1>6. NoStrandedReader'
  <2>1. nbOfBlockedWriters' = 0 => Waiting(ReaderCalls)' = {}
    BY <1>2, <1>4, <1>5 DEF Waiting, Blocked, ReaderCalls
  <2> QED
    BY <2>1 DEF NoStrandedReader
<1>7. NoStrandedWriter'
  <2> SUFFICES ASSUME Blocked(WriterCalls)' # {}
               PROVE  Blocked(WriterCalls)' # Waiting(WriterCalls)'
    BY DEF NoStrandedWriter
  <2>1. nbOfBlockedWriters' # 0
    <3>1. IsFiniteSet(Blocked(WriterCalls))'
      BY ConstantsAssumption, FS_Subset DEF Blocked
    <3> QED
      BY <3>1, FS_EmptySet DEF BlockedWritersCounted
  <2>2. CASE Waiting(WriterCalls) # {}
    <3>1. PICK u \in Waiting(WriterCalls) : wake'[u] = "signalled"
      BY <1>2, <2>1, <2>2
    <3>2. u \in Blocked(WriterCalls)' /\ u \notin Waiting(WriterCalls)'
      BY <1>4, <3>1 DEF Waiting, Blocked
    <3> QED
      BY <3>2
  <2>3. CASE Waiting(WriterCalls) = {}
    <3>1. Waiting(WriterCalls)' = {}
      BY <1>4, <1>5, <2>3 DEF Waiting, Blocked, WriterCalls
    <3> QED
      BY <3>1
  <2> QED
    BY <2>2, <2>3
<1> QED
  BY <1>6, <1>7

LEMMA NoStrandedStep ==
  ASSUME IInv, IInv', NoStrandedWriter, NoStrandedReader, NEW t \in Threads, Step(t)
  PROVE  NoStrandedWriter' /\ NoStrandedReader'
<1> USE DEF IInv
<1>0. nbOfBlockedWriters' \in Nat /\ nbOfLocks \in Int
  BY DEF TypeOK
<1>1. CASE nbOfLocks' # 0
  BY <1>1 DEF NoStrandedWriter, NoStrandedReader
<1>2. CASE WriterGivesUp(t) /\ nbOfLocks = 0
  <2>1. /\ nbOfBlockedWriters' = nbOfBlockedWriters - 1
        /\ wake' \in SignalZero(nbOfBlockedWriters', [wake EXCEPT ![t] = "none"],
                                Waiting(WriterCalls))
        /\ t \notin Waiting(WriterCalls)
        /\ \E q \in {"idle", "gone"} : pc' = [pc EXCEPT ![t] = q]
    BY <1>2 DEF WriterGivesUp, Waiting
  <2> QED
    BY <1>0, <2>1, HandOver
<1>3. CASE ReleaseWriteLock(t) \/ (ReleaseReadLock(t) /\ nbOfLocks - 1 = 0)
  <2>1. /\ wake' \in SignalZero(nbOfBlockedWriters', wake, Waiting(WriterCalls))
        /\ t \notin Waiting(WriterCalls)
        /\ pc' = pc
    BY <1>3 DEF ReleaseWriteLock, ReleaseReadLock, Waiting, Blocked, WriterCalls
  <2> QED
    BY <1>0, <2>1, HandOver
<1>4. ASSUME NEW call \in ReaderCalls, ReadLockBlocks(t, call), nbOfLocks = 0
      PROVE  NoStrandedWriter' /\ NoStrandedReader'
  <2>1. nbOfBlockedWriters' # 0
    BY <1>4 DEF ReadLockBlocks
  <2>2. Blocked(WriterCalls)' = Blocked(WriterCalls) /\ Waiting(WriterCalls)' = Waiting(WriterCalls)
    BY <1>4 DEF ReadLockBlocks, NewCall, Block, Blocked, Waiting, TypeOK, WriterCalls,
                ReaderCalls
  <2> QED
    BY <1>4, <2>1, <2>2 DEF NoStrandedWriter, NoStrandedReader
<1>5. CASE ReaderFindsItLocked(t) /\ nbOfLocks = 0
  <2>1. nbOfBlockedWriters' # 0
    BY <1>5 DEF ReaderFindsItLocked
  <2>2. Blocked(WriterCalls)' = Blocked(WriterCalls) /\ Waiting(WriterCalls)' = Waiting(WriterCalls)
    BY <1>5 DEF ReaderFindsItLocked, Blocked, Waiting, TypeOK, WriterCalls, ReaderCalls
  <2> QED
    BY <1>5, <2>1, <2>2 DEF NoStrandedWriter, NoStrandedReader
<1>6. CASE ReaderAcquires(t) \/ ReaderGivesUp(t)
  <2>1. /\ Blocked(WriterCalls)' = Blocked(WriterCalls)
        /\ Waiting(WriterCalls)' = Waiting(WriterCalls)
        /\ Waiting(ReaderCalls)' \subseteq Waiting(ReaderCalls)
    BY <1>6 DEF ReaderAcquires, ReaderGivesUp, Blocked, Waiting, TypeOK, WriterCalls,
                ReaderCalls
  <2>2. nbOfLocks' = 0 => nbOfLocks = 0 /\ nbOfBlockedWriters' = nbOfBlockedWriters
    BY <1>6 DEF ReaderAcquires, ReaderGivesUp, TypeOK
  <2> QED
    BY <2>1, <2>2 DEF NoStrandedWriter, NoStrandedReader
<1>7. CASE /\ \E r \in WakeStates \ {"waiting"} : wake' = [wake EXCEPT ![t] = r]
           /\ UNCHANGED <<nbOfLocks, nbOfBlockedWriters, pc>>
  <2>1. /\ Blocked(WriterCalls)' = Blocked(WriterCalls)
        /\ Waiting(WriterCalls)' \subseteq Waiting(WriterCalls)
        /\ Waiting(ReaderCalls)' \subseteq Waiting(ReaderCalls)
        /\ Waiting(WriterCalls) \subseteq Blocked(WriterCalls)
    BY <1>7 DEF Blocked, Waiting, TypeOK, WakeStates
  <2> QED
    BY <1>7, <2>1 DEF NoStrandedWriter, NoStrandedReader
<1>8. CASE UNCHANGED <<nbOfLocks, nbOfBlockedWriters, pc, wake>>
  BY <1>8 DEF NoStrandedWriter, NoStrandedReader, Blocked, Waiting
<1>9. CASE SpuriousWakeup(t) \/ Timeout(t) \/ CancelThread(t)
  BY <1>7, <1>9 DEF SpuriousWakeup, Timeout, CancelThread, EndWait, WakeStates
<1>10. CASE WriterFindsItLocked(t) \/ WriterAcquires(t) \/ (WriterGivesUp(t) /\ nbOfLocks # 0)
  BY <1>1, <1>10 DEF WriterFindsItLocked, WriterAcquires, WriterGivesUp
<1>11. ASSUME NEW call \in WriterCalls, WriteLockBlocks(t, call) PROVE nbOfLocks' # 0
  BY <1>11 DEF WriteLockBlocks
<1>12. CASE TryWriteLock(t) \/ WriteLock(t) \/ RequestRefused(t) \/ ReadLock(t)
  BY <1>1, <1>8, <1>12, <1>0 DEF TryWriteLock, WriteLock, RequestRefused, ReadLock, TypeOK
<1>13. ASSUME NEW call \in ReaderCalls, ReadLockBlocks(t, call), nbOfLocks # 0
       PROVE  nbOfLocks' # 0
  BY <1>13 DEF ReadLockBlocks
<1>14. CASE ReaderFindsItLocked(t) /\ nbOfLocks # 0
  BY <1>1, <1>14 DEF ReaderFindsItLocked
<1>15. CASE ReleaseReadLock(t) /\ nbOfLocks - 1 # 0
  BY <1>1, <1>15 DEF ReleaseReadLock
<1> QED
  BY <1>1, <1>2, <1>3, <1>4, <1>5, <1>6, <1>9, <1>10, <1>11, <1>12, <1>13, <1>14, <1>15
     DEF Step, ResumeThread, ReleaseLock

(* No lost wake-up: while the lock is free, some blocked writer is on its  *)
(* way, or, if no writer is blocked, no reader sleeps.                     *)
THEOREM NoLostWakeup == Spec => []NobodyStranded
<1> DEFINE Inv == NoStrandedWriter /\ NoStrandedReader
<1>1. Init => Inv
  BY DEF Init, NoStrandedWriter, NoStrandedReader, Blocked, Waiting, WriterCalls, ReaderCalls
<1>2. IInv /\ IInv' /\ Inv /\ [Next]_vars => Inv'
  <2> SUFFICES ASSUME IInv, IInv', Inv, [Next]_vars PROVE Inv'
    OBVIOUS
  <2>1. CASE Next
    BY <2>1, NoStrandedStep DEF Next
  <2>2. CASE UNCHANGED vars
    BY <2>2 DEF vars, NoStrandedWriter, NoStrandedReader, Blocked, Waiting
  <2> QED
    BY <2>1, <2>2
<1> QED
  BY <1>1, <1>2, Invariance, PTL DEF Spec, NobodyStranded

-----------------------------------------------------------------------------
(* Implementation of ReadersWriters.  Every step that hands out or takes   *)
(* back a lock is a step of the abstract lock, every other step a stutter. *)
LEMMA InitRefines == Init => RW!Init
BY DEF Init, RW!Init

LEMMA StepRefines == IInv /\ [Next]_vars => [RW!Next]_(RW!lockVars)
<1> SUFFICES ASSUME IInv, [Next]_vars PROVE [RW!Next]_(RW!lockVars)
  OBVIOUS
<1> USE DEF IInv
<1>1. CASE UNCHANGED vars
  BY <1>1 DEF vars, RW!lockVars
<1>2. ASSUME NEW t \in Threads, Step(t) PROVE [RW!Next]_(RW!lockVars)
  <2>1. CASE writeLocks' = writeLocks /\ readLocks' = readLocks
    BY <2>1 DEF RW!lockVars
  <2>2. CASE nbOfLocks = 0 /\ writeLocks' = writeLocks \cup {t} /\ readLocks' = readLocks
    <3>1. writeLocks = {} /\ readLocks = {}
      BY <2>2, NoOwnerIfFree
    <3>2. RW!AcquireWrite(t)
      BY <2>2, <3>1 DEF RW!AcquireWrite
    <3> QED
      BY <3>2 DEF RW!Next
  <2>3. CASE ReleaseWriteLock(t)
    <3>1. RW!ReleaseWrite(t)
      BY <2>3 DEF ReleaseWriteLock, LocksCounted, RW!ReleaseWrite
    <3> QED
      BY <3>1 DEF RW!Next
  <2>4. CASE ReleaseReadLock(t)
    <3>1. PICK l \in ReadLocksOf(t) : readLocks' = readLocks \ {l}
      BY <2>4 DEF ReleaseReadLock
    <3>2. l = <<t, l[2]>> /\ l[2] \in 0 .. MaxCalls - 1 /\ l \in readLocks
      BY DEF ReadLocksOf, TypeOK
    <3>3. RW!ReleaseRead(t, l[2])
      BY <2>4, <3>1, <3>2 DEF ReleaseReadLock, RW!ReleaseRead
    <3> QED
      BY <3>2, <3>3 DEF RW!Next
  <2>5. CASE ReadLock(t)
    <3>1. calls[t] \in 0 .. MaxCalls - 1 /\ <<t, calls[t]>> \notin readLocks
      BY <2>5, ConstantsAssumption DEF ReadLock, NewCall, TypeOK
    <3>2. RW!AcquireRead(t, calls[t])
      BY <2>5, <3>1 DEF ReadLock, TypeOK, LocksCounted, RW!AcquireRead
    <3> QED
      BY <3>1, <3>2 DEF RW!Next
  <2>6. CASE ReaderAcquires(t) /\ readLocks' # readLocks
    <3>1. calls[t] - 1 \in 0 .. MaxCalls - 1 /\ <<t, calls[t] - 1>> \notin readLocks
      BY <2>6, ConstantsAssumption DEF ReaderAcquires, TypeOK, PendingUngranted, Calls
    <3>2. RW!AcquireRead(t, calls[t] - 1)
      BY <2>6, <3>1 DEF ReaderAcquires, TypeOK, LocksCounted, RW!AcquireRead
    <3> QED
      BY <3>1, <3>2 DEF RW!Next
  <2>7. ReaderAcquires(t) => writeLocks' = writeLocks
    BY DEF ReaderAcquires
  <2> QED
    BY <1>2, <2>1, <2>2, <2>3, <2>4, <2>5, <2>6, <2>7
       DEF Step, ResumeThread, ReleaseLock, TryWriteLock, RequestRefused, WriteLock,
           WriteLockBlocks, WriterFindsItLocked, WriterAcquires, WriterGivesUp,
           ReadLockBlocks, ReaderFindsItLocked, ReaderGivesUp, SpuriousWakeup, Timeout,
           CancelThread, EndWait
<1> QED
  BY <1>1, <1>2 DEF Next

(* RWLock implements the readers-writer lock: a write lock is handed out   *)
(* only if nobody owns any lock, a read-lock only if there is no writer,   *)
(* and only owners give locks back.                                        *)
THEOREM Refinement == Spec => ImplementsReadersWriters
<1>1. Init => RW!Init
  BY InitRefines
<1>2. IInv /\ [Next]_vars => [RW!Next]_(RW!lockVars)
  BY StepRefines
<1> QED
  BY <1>1, <1>2, Invariance, PTL DEF Spec, RW!Spec, ImplementsReadersWriters

-----------------------------------------------------------------------------
(* Writers go first.  Only ReadLock and the reader that leaves its wait    *)
(* hand out read-locks, and both look at nbOfBlockedWriters, which counts  *)
(* every blocked writer, those that a timeout, a cancellation or a signal  *)
(* has already ended the wait of included.                                 *)
LEMMA WritersGoFirstStep ==
  ASSUME IInv, [Next]_vars, NEW t \in Threads, pc[t] \in WriterCalls
  PROVE  readLocks' \subseteq readLocks
<1>1. CASE UNCHANGED vars
  BY <1>1 DEF vars
<1>2. ASSUME NEW u \in Threads, Step(u) PROVE readLocks' \subseteq readLocks
  <2>1. nbOfBlockedWriters # 0
    BY WriterIsCounted
  <2>2. ~ReadLock(u) /\ ~ReaderAcquires(u)
    BY <2>1 DEF ReadLock, ReaderAcquires
  <2>3. ReleaseReadLock(u) => readLocks' \subseteq readLocks
    BY DEF ReleaseReadLock
  <2> QED
    BY <1>2, <2>2, <2>3
       DEF Step, ResumeThread, ReleaseLock, TryWriteLock, RequestRefused, WriteLock,
           WriteLockBlocks, WriterFindsItLocked, WriterAcquires, WriterGivesUp,
           ReleaseWriteLock, ReadLockBlocks, ReaderFindsItLocked, ReaderGivesUp,
           SpuriousWakeup, Timeout, CancelThread, EndWait
<1> QED
  BY <1>1, <1>2 DEF Next

(* No read-lock is handed out while a thread is blocked inside WriteLock,  *)
(* whatever is about to end its wait.                                      *)
THEOREM NoReaderOvertakes == Spec => WritersGoFirst
<1>1. IInv /\ [Next]_vars =>
        [\A t \in Threads : pc[t] \in WriterCalls => readLocks' \subseteq readLocks]_vars
  BY WritersGoFirstStep
<1> QED
  BY <1>1, Invariance, PTL DEF Spec, WritersGoFirst
=============================================================================
