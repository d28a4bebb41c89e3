------------------------------- MODULE RWLock -------------------------------
(***************************************************************************)
(* gpcc::osal::RWLock (src/osal/universal/RWLock.cpp), used on every       *)
(* supported operating system.  Every method runs under the lock's own     *)
(* mutex and gives the mutex up only inside a condition variable's wait,   *)
(* so one action is the code between two such points.  readLocks and       *)
(* writeLocks record which call was granted what; the code keeps only the  *)
(* two counters.                                                           *)
(***************************************************************************)
EXTENDS Integers, FiniteSets

CONSTANTS Threads,          \* the threads sharing the lock
          RecursiveReaders, \* threads that read-lock while they own a read-lock
          Int32Max,         \* std::numeric_limits<int32_t>::max()
          MaxCalls          \* bound: lock requests each thread issues

ASSUME ConstantsAssumption ==
  /\ IsFiniteSet(Threads)
  /\ RecursiveReaders \subseteq Threads
  /\ Int32Max \in Nat \ {0}
  /\ MaxCalls \in Nat

VARIABLES
  nbOfLocks,           \* > 0: read locks, 0: free, -1: one writer
  nbOfBlockedWriters,  \* writers inside WriteLock's wait loop
  pc,                  \* the blocking call a thread is in
  wake,                \* how the wait of a blocked thread has ended, if it has
  calls,               \* number of lock requests a thread has issued
  writeLocks,          \* threads whose write-lock request was granted
  readLocks            \* <<t, n>>: request n of t was granted a read-lock

vars == <<nbOfLocks, nbOfBlockedWriters, pc, wake, calls, writeLocks, readLocks>>

WriterCalls == {"WriteLock", "TimedWriteLock"}
ReaderCalls == {"ReadLock", "TimedReadLock"}

Blocked(kinds) == {t \in Threads : pc[t] \in kinds}
Waiting(kinds) == {t \in Blocked(kinds) : wake[t] = "waiting"}
ReadLocksOf(t) == {l \in readLocks : l[1] = t}
OwnsNothing(t) == t \notin writeLocks /\ ReadLocksOf(t) = {}

Init ==
  /\ nbOfLocks = 0
  /\ nbOfBlockedWriters = 0
  /\ pc = [t \in Threads |-> "idle"]
  /\ wake = [t \in Threads |-> "none"]
  /\ calls = [t \in Threads |-> 0]
  /\ writeLocks = {}
  /\ readLocks = {}

-----------------------------------------------------------------------------
(* The condition variables: the possible values of w after a signal to, or *)
(* a broadcast to, the threads in S.                                        *)
Signal(w, S) == IF S = {} THEN {w}
                ELSE {[w EXCEPT ![u] = "signalled"] : u \in S}

Broadcast(w, S) == [u \in Threads |-> IF u \in S THEN "signalled" ELSE w[u]]

(* Deviation: readers are signalled one at a time. *)
SignalZero_OneReader(blockedWriters, w, waitingWriters) ==
  IF blockedWriters # 0 THEN Signal(w, waitingWriters)
                        ELSE Signal(w, Waiting(ReaderCalls))

(* The lock has become free: hand it to one blocked writer if blockedWriters *)
(* says there is one, else to all readers.                                   *)
SignalZero(blockedWriters, w, waitingWriters) ==
  IF blockedWriters # 0 THEN Signal(w, waitingWriters)
                        ELSE {Broadcast(w, Waiting(ReaderCalls))}

NewCall(t) ==
  /\ pc[t] = "idle"
  /\ calls[t] < MaxCalls
  /\ calls' = [calls EXCEPT ![t] = @ + 1]

Block(t, call) ==
  /\ pc' = [pc EXCEPT ![t] = call]
  /\ wake' = [wake EXCEPT ![t] = "waiting"]

-----------------------------------------------------------------------------
TryWriteLock(t) ==
  /\ NewCall(t)
  /\ nbOfLocks = 0
  /\ nbOfLocks' = -1
  /\ writeLocks' = writeLocks \cup {t}
  /\ UNCHANGED <<nbOfBlockedWriters, pc, wake, readLocks>>

(* A Try... call that returns false, or a call that throws: no effect. *)
RequestRefused(t) ==
  /\ NewCall(t)
  /\ \/ nbOfLocks # 0                                 \* TryWriteLock
     \/ nbOfLocks < 0 \/ nbOfBlockedWriters # 0       \* TryReadLock
     \/ nbOfLocks = Int32Max                          \* ReadLock, TryReadLock throw
  /\ UNCHANGED <<nbOfLocks, nbOfBlockedWriters, pc, wake, writeLocks, readLocks>>

(* WriteLock and its timed variant on a free lock. *)
WriteLock(t) ==
  /\ NewCall(t)
  /\ OwnsNothing(t)
  /\ nbOfLocks = 0
  /\ nbOfLocks' = -1
  /\ writeLocks' = writeLocks \cup {t}
  /\ UNCHANGED <<nbOfBlockedWriters, pc, wake, readLocks>>

(* WriteLock and its timed variant on a lock somebody owns. *)
WriteLockBlocks(t, call) ==
  /\ NewCall(t)
  /\ OwnsNothing(t)
  /\ nbOfLocks # 0
  /\ nbOfBlockedWriters # Int32Max
  /\ nbOfBlockedWriters' = nbOfBlockedWriters + 1
  /\ Block(t, call)
  /\ UNCHANGED <<nbOfLocks, writeLocks, readLocks>>

(* A blocked writer whose wait has ended re-acquires the mutex ... *)
WriterFindsItLocked(t) ==
  /\ pc[t] \in WriterCalls
  /\ wake[t] = "signalled"
  /\ nbOfLocks # 0
  /\ wake' = [wake EXCEPT ![t] = "waiting"]
  /\ UNCHANGED <<nbOfLocks, nbOfBlockedWriters, pc, calls, writeLocks, readLocks>>

(* ... and, when the lock is free (even if the timeout has expired), leaves *)
(* the wait loop.  The scope guard runs before the lock is taken.           *)
WriterAcquires(t) ==
  /\ pc[t] \in WriterCalls
  /\ wake[t] \in {"signalled", "expired"}
  /\ nbOfLocks = 0
  /\ nbOfBlockedWriters' = nbOfBlockedWriters - 1
  /\ wake' \in SignalZero(nbOfBlockedWriters - 1, [wake EXCEPT ![t] = "none"],
                          Waiting(WriterCalls))
  /\ nbOfLocks' = -1
  /\ pc' = [pc EXCEPT ![t] = "idle"]
  /\ writeLocks' = writeLocks \cup {t}
  /\ UNCHANGED <<calls, readLocks>>

(* Deviation: the scope guard does not signal. *)
WriterGivesUp_NoHandOver(t) ==
  /\ pc[t] \in WriterCalls
  /\ \/ wake[t] = "expired" /\ nbOfLocks # 0
     \/ wake[t] = "cancelled"
  /\ pc' = [pc EXCEPT ![t] = IF wake[t] = "cancelled" THEN "gone" ELSE "idle"]
  /\ wake' = [wake EXCEPT ![t] = "none"]
  /\ nbOfBlockedWriters' = nbOfBlockedWriters - 1
  /\ UNCHANGED <<nbOfLocks, calls, writeLocks, readLocks>>

(* The scope guard of a writer that leaves without the lock: a timeout, or *)
(* a cancellation of the thread inside the wait.                           *)
WriterGivesUp(t) ==
  /\ pc[t] \in WriterCalls
  /\ \/ wake[t] = "expired" /\ nbOfLocks # 0
     \/ wake[t] = "cancelled"
  /\ nbOfBlockedWriters' = nbOfBlockedWriters - 1
  /\ LET w == [wake EXCEPT ![t] = "none"]
     IN  wake' \in IF nbOfLocks = 0
                   THEN SignalZero(nbOfBlockedWriters - 1, w, Waiting(WriterCalls))
                   ELSE {w}
  /\ pc' = [pc EXCEPT ![t] = IF wake[t] = "cancelled" THEN "gone" ELSE "idle"]
  /\ UNCHANGED <<nbOfLocks, calls, writeLocks, readLocks>>

ReleaseWriteLock(t) ==
  /\ pc[t] = "idle"
  /\ t \in writeLocks
  /\ nbOfLocks = -1
  /\ nbOfLocks' = 0
  /\ wake' \in SignalZero(nbOfBlockedWriters, wake, Waiting(WriterCalls))
  /\ writeLocks' = writeLocks \ {t}
  /\ UNCHANGED <<nbOfBlockedWriters, pc, calls, readLocks>>

-----------------------------------------------------------------------------
(* Deviation: blocked writers are not looked at. *)
ReadLock_Overtakes(t) ==
  /\ NewCall(t)
  /\ OwnsNothing(t) \/ (t \in RecursiveReaders /\ t \notin writeLocks)
  /\ nbOfLocks >= 0
  /\ nbOfLocks # Int32Max
  /\ nbOfLocks' = nbOfLocks + 1
  /\ readLocks' = readLocks \cup {<<t, calls[t]>>}
  /\ UNCHANGED <<nbOfBlockedWriters, pc, wake, writeLocks>>

(* TryReadLock, ReadLock and its timed variant when nothing prevents them. *)
ReadLock(t) ==
  /\ NewCall(t)
  /\ OwnsNothing(t) \/ (t \in RecursiveReaders /\ t \notin writeLocks)
  /\ nbOfLocks >= 0 /\ nbOfBlockedWriters = 0
  /\ nbOfLocks # Int32Max
  /\ nbOfLocks' = nbOfLocks + 1
  /\ readLocks' = readLocks \cup {<<t, calls[t]>>}
  /\ UNCHANGED <<nbOfBlockedWriters, pc, wake, writeLocks>>

ReadLockBlocks(t, call) ==
  /\ NewCall(t)
  /\ OwnsNothing(t) \/ (t \in RecursiveReaders /\ t \notin writeLocks)
  /\ nbOfLocks < 0 \/ nbOfBlockedWriters # 0
  /\ Block(t, call)
  /\ UNCHANGED <<nbOfLocks, nbOfBlockedWriters, writeLocks, readLocks>>

ReaderFindsItLocked(t) ==
  /\ pc[t] \in ReaderCalls
  /\ wake[t] = "signalled"
  /\ nbOfLocks < 0 \/ nbOfBlockedWriters # 0
  /\ wake' = [wake EXCEPT ![t] = "waiting"]
  /\ UNCHANGED <<nbOfLocks, nbOfBlockedWriters, pc, calls, writeLocks, readLocks>>

(* Deviation: IF instead of WHILE around the wait. *)
ReaderAcquires_NoRecheck(t) ==
  /\ pc[t] \in ReaderCalls
  /\ wake[t] \in {"signalled", "expired"}
  /\ nbOfLocks' = nbOfLocks + 1
  /\ readLocks' = readLocks \cup {<<t, calls[t] - 1>>}
  /\ pc' = [pc EXCEPT ![t] = "idle"]
  /\ wake' = [wake EXCEPT ![t] = "none"]
  /\ UNCHANGED <<nbOfBlockedWriters, calls, writeLocks>>

(* The lock is available.  At the limit of the counter ReadLock throws. *)
ReaderAcquires(t) ==
  /\ pc[t] \in ReaderCalls
  /\ wake[t] \in {"signalled", "expired"}
  /\ nbOfLocks >= 0 /\ nbOfBlockedWriters = 0
  /\ IF nbOfLocks = Int32Max
     THEN UNCHANGED <<nbOfLocks, readLocks>>
     ELSE /\ nbOfLocks' = nbOfLocks + 1
          /\ readLocks' = readLocks \cup {<<t, calls[t] - 1>>}
  /\ pc' = [pc EXCEPT ![t] = "idle"]
  /\ wake' = [wake EXCEPT ![t] = "none"]
  /\ UNCHANGED <<nbOfBlockedWriters, calls, writeLocks>>

ReaderGivesUp(t) ==
  /\ pc[t] \in ReaderCalls
  /\ \/ wake[t] = "expired" /\ (nbOfLocks < 0 \/ nbOfBlockedWriters # 0)
     \/ wake[t] = "cancelled"
  /\ pc' = [pc EXCEPT ![t] = IF wake[t] = "cancelled" THEN "gone" ELSE "idle"]
  /\ wake' = [wake EXCEPT ![t] = "none"]
  /\ UNCHANGED <<nbOfLocks, nbOfBlockedWriters, calls, writeLocks, readLocks>>

ReleaseReadLock(t) ==
  /\ pc[t] = "idle"
  /\ nbOfLocks > 0
  /\ nbOfLocks' = nbOfLocks - 1
  /\ wake' \in IF nbOfLocks - 1 = 0
               THEN SignalZero(nbOfBlockedWriters, wake, Waiting(WriterCalls))
               ELSE {wake}
  /\ \E l \in ReadLocksOf(t) : readLocks' = readLocks \ {l}
  /\ UNCHANGED <<nbOfBlockedWriters, pc, calls, writeLocks>>

-----------------------------------------------------------------------------
(* What ends a wait besides a signal. *)
EndWait(t, reason) ==
  /\ wake' = [wake EXCEPT ![t] = reason]
  /\ UNCHANGED <<nbOfLocks, nbOfBlockedWriters, pc, calls, writeLocks, readLocks>>

SpuriousWakeup(t) == wake[t] = "waiting" /\ EndWait(t, "signalled")

Timeout(t) ==
  /\ pc[t] \in {"TimedWriteLock", "TimedReadLock"}
  /\ wake[t] = "waiting"
  /\ EndWait(t, "expired")

(* A thread cancelled inside the wait; it may already have been signalled. *)
CancelThread(t) ==
  /\ wake[t] \in {"waiting", "signalled"}
  /\ OwnsNothing(t)
  /\ EndWait(t, "cancelled")

-----------------------------------------------------------------------------
ResumeThread(t) ==
  \/ WriterFindsItLocked(t) \/ WriterAcquires(t) \/ WriterGivesUp(t)
  \/ ReaderFindsItLocked(t) \/ ReaderAcquires(t) \/ ReaderGivesUp(t)

ReleaseLock(t) == ReleaseWriteLock(t) \/ ReleaseReadLock(t)

Step(t) ==
  \/ TryWriteLock(t)
  \/ RequestRefused(t)
  \/ WriteLock(t)
  \/ \E call \in WriterCalls : WriteLockBlocks(t, call)
  \/ ReadLock(t)
  \/ \E call \in ReaderCalls : ReadLockBlocks(t, call)
  \/ ResumeThread(t)
  \/ ReleaseLock(t)
  \/ SpuriousWakeup(t)
  \/ Timeout(t)
  \/ CancelThread(t)

Next == \E t \in Threads : Step(t)

Spec == Init /\ [][Next]_vars

(* Scheduling: a thread whose wait has ended gets the mutex eventually; a  *)
(* thread that owns a lock releases it eventually (the rules in RWLock.hpp *)
(* oblige it to).  Nothing makes a wait end by itself, no thread has to    *)
(* issue a request.                                                        *)
FairSpec ==
  /\ Spec
  /\ \A t \in Threads : WF_vars(ResumeThread(t)) /\ WF_vars(ReleaseLock(t))

-----------------------------------------------------------------------------
TypeOK ==
  /\ nbOfLocks \in -1 .. Int32Max
  /\ nbOfBlockedWriters \in 0 .. Int32Max
  /\ pc \in [Threads -> {"idle", "gone"} \cup WriterCalls \cup ReaderCalls]
  /\ wake \in [Threads -> {"none", "waiting", "signalled", "expired", "cancelled"}]
  /\ \A t \in Threads : wake[t] # "none" <=> pc[t] \in WriterCalls \cup ReaderCalls
  /\ calls \in [Threads -> 0 .. MaxCalls]
  /\ writeLocks \subseteq Threads
  /\ readLocks \subseteq Threads \X (0 .. MaxCalls - 1)
  /\ \A l \in readLocks : l[2] < calls[l[1]]

LocksCounted ==
  /\ IsFiniteSet(readLocks)
  /\ nbOfLocks = -1 => readLocks = {} /\ \E t \in Threads : writeLocks = {t}
  /\ nbOfLocks # -1 => writeLocks = {} /\ nbOfLocks = Cardinality(readLocks)

(* The one counter tells the whole truth about the locks handed out: the   *)
(* lock methods and the release methods, called by any threads in any      *)
(* order, never leave a writer together with another owner, never lose or  *)
(* invent a read-lock (RWLock.hpp, nbOfLocks), and the counter does not    *)
(* run over.                                                               *)
LockInv == LocksCounted /\ nbOfLocks <= Int32Max

(* Every way out of a blocked WriteLock (lock acquired, timeout,           *)
(* cancellation) takes the writer out of nbOfBlockedWriters once.  A count *)
(* that stays too high locks out all readers for ever.                     *)
BlockedWritersCounted ==
  nbOfBlockedWriters = Cardinality(Blocked(WriterCalls))

(* No lost wake-up of a writer: while the lock is free, at least one of    *)
(* the blocked writers is on its way, even if the writer SignalZero has    *)
(* signalled was cancelled or was overtaken by TryWriteLock.               *)
NoStrandedWriter ==
  nbOfLocks = 0 /\ Blocked(WriterCalls) # {}
    => Blocked(WriterCalls) # Waiting(WriterCalls)

(* No lost wake-up of a reader: while the lock is free and no writer is    *)
(* blocked, no reader sleeps, whoever was the last to leave.               *)
NoStrandedReader ==
  nbOfLocks = 0 /\ nbOfBlockedWriters = 0 => Waiting(ReaderCalls) = {}

(* No lost wake-up at all: both, for every way out of a wait or a lock.    *)
NobodyStranded == NoStrandedWriter /\ NoStrandedReader

(* The stronger promise in the comment of condVarForReaders (RWLock.hpp):  *)
(* readers are signalled whenever nbOfLocks >= 0 and nbOfBlockedWriters is *)
(* zero.  The scope guard of WriteLock signals only if nbOfLocks = 0.      *)
ReadersWokenWhenReadable ==
  nbOfLocks >= 0 /\ nbOfBlockedWriters = 0 => Waiting(ReaderCalls) = {}

(* RWLock.hpp allows the caller of ReadLock to own read-locks already and  *)
(* promises that the call then returns immediately.                        *)
ReadOwnerNeverBlocks ==
  \A t \in Blocked(ReaderCalls) : ReadLocksOf(t) = {}

(* Writers go first: no request for a read-lock is granted in a step that  *)
(* starts and ends with a blocked writer, so that readers cannot starve a  *)
(* writer (TryReadLock, ReadLock: nbOfBlockedWriters).                     *)
WritersGoFirst ==
  [][\A t \in Threads : pc[t] \in WriterCalls => readLocks' \subseteq readLocks]_vars

(* A write lock is only handed to a thread if nobody owns a lock, a read   *)
(* lock only if there is no writer: the lock implements ReadersWriters.    *)
RW == INSTANCE ReadersWriters WITH Requests <- 0 .. MaxCalls - 1
ImplementsReadersWriters == RW!Spec

(* Every blocking call returns, provided that owners release their locks:  *)
(* whoever leaves last wakes the right threads, and the condition of each  *)
(* wait loop becomes true for them.  A thread that blocks while it owns a  *)
(* read-lock (see ReadOwnerNeverBlocks) does not release it.               *)
BlockingCallsReturn ==
  \A t \in Threads :
    pc[t] \in WriterCalls \cup ReaderCalls ~>
      \/ pc[t] \in {"idle", "gone"}
      \/ \E u \in Blocked(ReaderCalls) : ReadLocksOf(u) # {}
=============================================================================
