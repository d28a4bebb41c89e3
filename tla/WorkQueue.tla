------------------------------ MODULE WorkQueue ------------------------------
(***************************************************************************)
(* gpcc::execution::async::WorkQueue and WorkPackage                       *)
(* (src/execution/async/WorkQueue.cpp, WorkPackage.cpp).  Several queues   *)
(* share the static work packages; each queue has one thread in Work().    *)
(* A client is an object that owns work packages.  It may flush queues,    *)
(* and it shuts itself down as IWorkQueue.hpp and the FAQ of async.dox     *)
(* tell it to: no more packages are added, then for each queue Remove and  *)
(* WaitUntilCurrentWorkPackageHasBeenExecuted, or Remove and flush.        *)
(*                                                                         *)
(* An action is the code between two points at which its thread does not   *)
(* hold queueMutex.  Only a removal of all packages of an owner takes      *)
(* several actions (one per package removed), with the mutex held.         *)
(***************************************************************************)
EXTENDS Integers, Sequences, FiniteSets

CONSTANTS Queues,   \* the work queues
          Static,   \* the static work packages
          Dynamic,  \* the dynamic work packages
          Clients,  \* the owners of work packages
          OwnerOf,  \* [Static \cup Dynamic -> Clients]
          OwnerID,  \* [Static \cup Dynamic -> Nat]: the owner's tags
          None,     \* nullptr
          MaxCalls  \* bound: calls of clients, those of a shutdown excluded

(* The dynamic package that FlushNonDeferredWorkPackages, called by c, puts *)
(* into the queue is identified with c.                                     *)
Packages == Static \cup Dynamic \cup Clients
OwnedBy(c) == {p \in Static \cup Dynamic : OwnerOf[p] = c}

ASSUME ConstantsAssumption ==
  /\ None \notin Packages \cup Queues
  /\ Static \cap Dynamic = {}
  /\ Clients \cap (Static \cup Dynamic \cup Queues) = {}
  /\ OwnerOf \in [Static \cup Dynamic -> Clients]
  /\ OwnerID \in [Static \cup Dynamic -> Nat]
  /\ \A c \in Clients : OwnedBy(c) # {}
  /\ MaxCalls \in Nat

VARIABLES
  queue,         \* pQueueFirst .. pQueueLast of each queue
  state,         \* WorkPackage::state; dynamicNotInQ also if not allocated
  currentOwner,  \* pOwnerOfCurrentExecutedWP
  current,       \* pCurrentExecutedWP
  terminate,     \* the terminate flag
  worker,        \* where each queue's thread is in Work()
  removing,      \* packages the holder of queueMutex is removing; {}: mutex free
  pc,            \* what a client is doing ...
  at,            \* ... and with which queue
  closing,       \* the clients that have begun their shutdown
  dirty,         \* the queues a client has still to clean during shutdown
  sem,           \* the semaphore of a client inside a flush
  flushed,       \* what a flush promises to wait for: <<package, where>>
  calls          \* number of budgeted calls so far

vars == <<queue, state, currentOwner, current, terminate, worker, removing, pc, at,
          closing, dirty, sem, flushed, calls>>
clientVars == <<pc, at, closing, dirty, sem>>

InQueue(q) == {queue[q][i] : i \in 1 .. Len(queue[q])}
Owner(q, p) == IF p \in Clients THEN q ELSE OwnerOf[p]
MutexFree(q) == removing[q] = {} /\ worker[q] # "destroyed"
HasPackage(q) == worker[q] \in {"fetched", "executing", "inPost", "executed", "threw"}
HoldsFlushMutex(q) == worker[q] \in {"executing", "inPost"}

Init ==
  /\ queue = [q \in Queues |-> <<>>]
  /\ state = [p \in Packages |-> IF p \in Static THEN "staticNotInQ" ELSE "dynamicNotInQ"]
  /\ currentOwner = [q \in Queues |-> None]
  /\ current = [q \in Queues |-> None]
  /\ terminate = [q \in Queues |-> FALSE]
  /\ worker = [q \in Queues |-> "out"]
  /\ removing = [q \in Queues |-> {}]
  /\ pc = [c \in Clients |-> "idle"]
  /\ at = [c \in Clients |-> None]
  /\ closing = {}
  /\ dirty = [c \in Clients |-> Queues]
  /\ sem = [c \in Clients |-> 0]
  /\ flushed = [c \in Clients |-> {}]
  /\ calls = 0

NewCall == calls < MaxCalls /\ calls' = calls + 1

-----------------------------------------------------------------------------
(* WorkPackage::state.  "panic" stands for the call of Panic(). *)
Released(s) == CASE s = "staticInQ"     -> "staticNotInQ"
                 [] s = "staticExecInQ" -> "staticExec"
                 [] s = "dynamicInQ"    -> "dynamicNotInQ"
                 [] OTHER               -> "panic"

(* Deviation: a package enqueued again while it runs is forgotten. *)
Finished_Forgets(s) == CASE s \in {"staticExec", "staticExecInQ"} -> "staticNotInQ"
                         [] s = "dynamicInQ"                      -> "dynamicNotInQ"
                         [] OTHER                                 -> "panic"

Finished(s) == CASE s = "staticExec"    -> "staticNotInQ"
                 [] s = "staticExecInQ" -> "staticInQ"
                 [] s = "dynamicInQ"    -> "dynamicNotInQ"
                 [] OTHER               -> "panic"

(* CheckStateAndSetToInQ_static and _dynamic: the states in which q accepts *)
(* p, and the state p then gets.  (A caller can only pass a dynamic package *)
(* that is in no queue.)                                                    *)
Accepts(q, p) ==
  state[p] = IF p \notin Static THEN "dynamicNotInQ"
             ELSE IF current[q] # p THEN "staticNotInQ" ELSE "staticExec"

SetToInQ(q, p) ==
  [state EXCEPT ![p] = IF p \notin Static THEN "dynamicInQ"
                       ELSE IF current[q] # p THEN "staticInQ" ELSE "staticExecInQ"]

(* Deviation: the signal is sent if the queue is not empty. *)
SignalIfEmpty_Inverted(q) ==
  worker' = [worker EXCEPT ![q] = IF queue[q] # <<>> /\ @ = "waiting" THEN "woken" ELSE @]

(* queueConVar.Signal() if the queue is empty. *)
SignalIfEmpty(q) ==
  worker' = [worker EXCEPT ![q] = IF queue[q] = <<>> /\ @ = "waiting" THEN "woken" ELSE @]

(* Deviation: the change of the owner is not broadcast. *)
AfterBroadcast_None(q) == pc

(* ownerChangedConVar.Broadcast(): its waiters check the owner again. *)
AfterBroadcast(q) ==
  [c \in Clients |-> IF pc[c] = "waitOwner" /\ at[c] = q THEN "checkOwner" ELSE pc[c]]

-----------------------------------------------------------------------------
(* Add and InsertAtHeadOfList, by any thread, also from within a package.  *)
(* Nobody adds packages of a client that shuts down.                       *)
MayAdd(q, p) == NewCall /\ MutexFree(q) /\ OwnerOf[p] \notin closing

Enqueue(q, p, newQueue) ==
  /\ Accepts(q, p)
  /\ state' = SetToInQ(q, p)
  /\ queue' = [queue EXCEPT ![q] = newQueue]
  /\ SignalIfEmpty(q)

Add(q, p) ==
  /\ MayAdd(q, p)
  /\ Enqueue(q, p, Append(queue[q], p))
  /\ UNCHANGED <<currentOwner, current, terminate, removing, clientVars, flushed>>

InsertAtHeadOfList(q, p) ==
  /\ MayAdd(q, p)
  /\ Enqueue(q, p, <<p>> \o queue[q])
  /\ UNCHANGED <<currentOwner, current, terminate, removing, clientVars, flushed>>

(* The exception comes after the signal. *)
AddRefused(q, p) ==
  /\ MayAdd(q, p)
  /\ p \in Static
  /\ ~Accepts(q, p)
  /\ SignalIfEmpty(q)
  /\ UNCHANGED <<queue, state, currentOwner, current, terminate, removing, clientVars,
                 flushed>>

RequestTermination(q) ==
  /\ NewCall
  /\ MutexFree(q)
  /\ terminate' = [terminate EXCEPT ![q] = TRUE]
  /\ worker' = [worker EXCEPT ![q] = IF @ = "waiting" THEN "woken" ELSE @]
  /\ UNCHANGED <<queue, state, currentOwner, current, removing, clientVars, flushed>>

-----------------------------------------------------------------------------
(* Unlink the i-th package of q and release it. *)
Unlink(q, i) ==
  LET p == queue[q][i]
  IN  /\ queue' = [queue EXCEPT ![q] = [j \in 1 .. Len(@) - 1 |->
                                          IF j < i THEN @[j] ELSE @[j + 1]]]
      /\ state' = [state EXCEPT ![p] = Released(@)]
      /\ flushed' = [c \in Clients |-> IF at[c] = q THEN flushed[c] \ {<<p, "queued">>}
                                                   ELSE flushed[c]]

(* Remove(WorkPackage&) *)
Remove(q, p) ==
  /\ NewCall
  /\ MutexFree(q)
  /\ p \in Static
  /\ state[p] # "staticExec"
  /\ \E i \in 1 .. Len(queue[q]) : queue[q][i] = p /\ Unlink(q, i)
  /\ UNCHANGED <<currentOwner, current, terminate, worker, removing, clientVars>>

(* Remove(pOwnerObject) and Remove(pOwnerObject, ownerID) by any thread:   *)
(* lock the mutex, ...                                                     *)
RemoveSelected(q, selection) ==
  /\ NewCall
  /\ MutexFree(q)
  /\ selection # {}
  /\ removing' = [removing EXCEPT ![q] = selection]
  /\ UNCHANGED <<queue, state, currentOwner, current, terminate, worker, clientVars, flushed>>

(* ... unlink the next package selected, ... *)
RemoveNext(q) ==
  /\ \E i \in 1 .. Len(queue[q]) :
       /\ queue[q][i] \in removing[q]
       /\ \A j \in 1 .. i - 1 : queue[q][j] \notin removing[q]
       /\ Unlink(q, i)
  /\ UNCHANGED <<currentOwner, current, terminate, worker, removing, clientVars, calls>>

(* ... and unlock it.  The destructor of the queue ends its life here. *)
RemoveEnd(q) ==
  /\ removing[q] # {}
  /\ InQueue(q) \cap removing[q] = {}
  /\ removing' = [removing EXCEPT ![q] = {}]
  /\ worker' = [worker EXCEPT ![q] = IF @ = "destructor" THEN "destroyed" ELSE @]
  /\ dirty' = [c \in Clients |-> IF worker[q] = "destructor" THEN dirty[c] \ {q} ELSE dirty[c]]
  /\ pc' = [c \in Clients |-> IF pc[c] = "removing" /\ at[c] = q THEN "removed" ELSE pc[c]]
  /\ UNCHANGED <<queue, state, currentOwner, current, terminate, at, closing, sem, flushed,
                 calls>>

(* ~WorkQueue(): nobody is inside a method of the queue. *)
Destroy(q) ==
  /\ worker[q] = "out"
  /\ MutexFree(q)
  /\ \A c \in Clients : at[c] # q
  /\ worker' = [worker EXCEPT ![q] = "destructor"]
  /\ removing' = [removing EXCEPT ![q] = Packages]
  /\ UNCHANGED <<queue, state, currentOwner, current, terminate, clientVars, flushed, calls>>

-----------------------------------------------------------------------------
(* The loop in Work(), from its top to the next release of queueMutex; s    *)
(* and left are the package states and the flush bookkeeping at its top.    *)
StopWorking(q, s, left) ==
  /\ terminate[q]
  /\ terminate' = [terminate EXCEPT ![q] = FALSE]
  /\ worker' = [worker EXCEPT ![q] = "out"]
  /\ current' = [current EXCEPT ![q] = None]
  /\ currentOwner' = [currentOwner EXCEPT ![q] = None]
  /\ pc' = IF currentOwner[q] # None THEN AfterBroadcast(q) ELSE pc
  /\ state' = s
  /\ flushed' = left
  /\ UNCHANGED queue

WaitForWork(q, s, left) ==
  /\ ~terminate[q]
  /\ queue[q] = <<>>
  /\ worker' = [worker EXCEPT ![q] = "waiting"]
  /\ current' = [current EXCEPT ![q] = None]
  /\ currentOwner' = [currentOwner EXCEPT ![q] = None]
  /\ pc' = IF currentOwner[q] # None THEN AfterBroadcast(q) ELSE pc
  /\ state' = s
  /\ flushed' = left
  /\ UNCHANGED <<queue, terminate>>

(* Deviations: the last package is executed first; the owner is not published. *)
Fetch_Last(q, s, left) ==
  /\ ~terminate[q]
  /\ queue[q] # <<>>
  /\ LET p == queue[q][Len(queue[q])]
     IN  /\ current' = [current EXCEPT ![q] = p]
         /\ currentOwner' = [currentOwner EXCEPT ![q] = Owner(q, p)]
         /\ state' = [s EXCEPT ![p] = IF @ = "staticInQ" THEN "staticExec" ELSE @]
  /\ flushed' = left
  /\ pc' = AfterBroadcast(q)
  /\ queue' = [queue EXCEPT ![q] = SubSeq(@, 1, Len(@) - 1)]
  /\ worker' = [worker EXCEPT ![q] = "fetched"]
  /\ UNCHANGED terminate

Fetch_OwnerNotPublished(q, s, left) ==
  /\ ~terminate[q]
  /\ queue[q] # <<>>
  /\ LET p == Head(queue[q])
     IN  /\ current' = [current EXCEPT ![q] = p]
         /\ state' = [s EXCEPT ![p] = IF @ = "staticInQ" THEN "staticExec" ELSE @]
  /\ flushed' = left
  /\ pc' = pc
  /\ queue' = [queue EXCEPT ![q] = Tail(@)]
  /\ worker' = [worker EXCEPT ![q] = "fetched"]
  /\ UNCHANGED <<terminate, currentOwner>>

Fetch(q, s, left) ==
  /\ ~terminate[q]
  /\ queue[q] # <<>>
  /\ LET p == Head(queue[q])
     IN  /\ current' = [current EXCEPT ![q] = p]
         /\ currentOwner' = [currentOwner EXCEPT ![q] = Owner(q, p)]
         /\ state' = [s EXCEPT ![p] = IF @ = "staticInQ" THEN "staticExec" ELSE @]
         /\ flushed' = [c \in Clients |->
                          IF at[c] = q /\ <<p, "queued">> \in left[c]
                          THEN (left[c] \ {<<p, "queued">>}) \cup {<<p, "running">>}
                          ELSE left[c]]
  /\ pc' = AfterBroadcast(q)
  /\ queue' = [queue EXCEPT ![q] = Tail(@)]
  /\ worker' = [worker EXCEPT ![q] = "fetched"]
  /\ UNCHANGED terminate

LoopTop(q, s, left) ==
  /\ MutexFree(q)
  /\ StopWorking(q, s, left) \/ WaitForWork(q, s, left) \/ Fetch(q, s, left)
  /\ UNCHANGED <<removing, at, closing, dirty, sem, calls>>

(* Finish() for the package of q. *)
StateAfterFinish(q) == [state EXCEPT ![current[q]] = Finished(@)]
LeftAfterFinish(q) ==
  [c \in Clients |-> IF at[c] = q THEN flushed[c] \ {<<current[q], "running">>} ELSE flushed[c]]

EnterWork(q) == worker[q] = "out" /\ LoopTop(q, state, flushed)

WakeUp(q) == worker[q] = "woken" /\ LoopTop(q, state, flushed)

NextPackage(q) ==
  worker[q] = "executed" /\ LoopTop(q, StateAfterFinish(q), LeftAfterFinish(q))

(* The package has thrown: Finish(), and the exception leaves Work(). *)
LeaveWithException(q) ==
  /\ worker[q] = "threw"
  /\ MutexFree(q)
  /\ worker' = [worker EXCEPT ![q] = "out"]
  /\ current' = [current EXCEPT ![q] = None]
  /\ currentOwner' = [currentOwner EXCEPT ![q] = None]
  /\ pc' = IF currentOwner[q] # None THEN AfterBroadcast(q) ELSE pc
  /\ state' = StateAfterFinish(q)
  /\ flushed' = LeftAfterFinish(q)
  /\ UNCHANGED <<queue, terminate, removing, at, closing, dirty, sem, calls>>

WorkerMoves(q, from, to) ==
  /\ worker[q] = from
  /\ worker' = [worker EXCEPT ![q] = to]
  /\ UNCHANGED <<queue, state, currentOwner, current, terminate, removing, pc, at, closing,
                 dirty, flushed, calls>>

(* flushMutex is locked while the functor runs. *)
StartFunctor(q) == WorkerMoves(q, "fetched", "executing") /\ UNCHANGED sem

FunctorReturns(q) ==
  /\ \/ WorkerMoves(q, "executing", "executed") /\ current[q] \notin Clients
     \/ WorkerMoves(q, "inPost", "executed")
  /\ UNCHANGED sem

FunctorThrows(q) ==
  /\ current[q] \notin Clients
  /\ WorkerMoves(q, "executing", "threw")
  /\ UNCHANGED sem

(* The functor of a flush: Semaphore::Post, which is still busy with the   *)
(* semaphore when the flushing thread can already see the new value.       *)
Post(q) ==
  /\ current[q] \in Clients
  /\ WorkerMoves(q, "executing", "inPost")
  /\ sem' = [sem EXCEPT ![current[q]] = @ + 1]

-----------------------------------------------------------------------------
ClientMoves(c, from, to) == pc[c] \in from /\ pc' = [pc EXCEPT ![c] = to]

(* Queue q is clean: nothing of c is in it or executed by it. *)
Cleaned(c, from) ==
  /\ pc[c] \in from
  /\ pc' = [pc EXCEPT ![c] = IF c \in closing THEN "closing" ELSE "idle"]
  /\ dirty' = [dirty EXCEPT ![c] = IF c \in closing THEN @ \ {at[c]} ELSE @]
  /\ at' = [at EXCEPT ![c] = None]

(* FlushNonDeferredWorkPackages: a new package at the end of the queue, ... *)
Flush(c, q) ==
  /\ \/ pc[c] = "idle" /\ at' = [at EXCEPT ![c] = q] /\ NewCall
     \/ pc[c] = "removed" /\ at[c] = q /\ UNCHANGED <<at, calls>>
  /\ MutexFree(q)
  /\ Enqueue(q, c, Append(queue[q], c))
  /\ pc' = [pc EXCEPT ![c] = "flushWait"]
  /\ sem' = [sem EXCEPT ![c] = 0]
  /\ flushed' = [flushed EXCEPT
                  ![c] = {<<p, "queued">> : p \in InQueue(q)} \cup
                         {<<p, "running">> : p \in IF HasPackage(q) THEN {current[q]} ELSE {}}]
  /\ UNCHANGED <<currentOwner, current, terminate, removing, closing, dirty>>

(* ... s.Wait(), ... *)
FlushWakes(c) ==
  /\ ClientMoves(c, {"flushWait"}, "flushSync")
  /\ sem[c] > 0
  /\ sem' = [sem EXCEPT ![c] = @ - 1]
  /\ UNCHANGED <<queue, state, currentOwner, current, terminate, worker, removing, at,
                 closing, dirty, flushed, calls>>

(* Deviation: flushMutex is not used. *)
FlushReturns_NoFlushMutex(c) ==
  /\ Cleaned(c, {"flushSync"})
  /\ flushed' = [flushed EXCEPT ![c] = {}]
  /\ UNCHANGED <<queue, state, currentOwner, current, terminate, worker, removing, closing,
                 sem, calls>>

(* ... and flushMutex locked and unlocked before s is destroyed. *)
FlushReturns(c) ==
  /\ Cleaned(c, {"flushSync"})
  /\ ~HoldsFlushMutex(at[c])
  /\ flushed' = [flushed EXCEPT ![c] = {}]
  /\ UNCHANGED <<queue, state, currentOwner, current, terminate, worker, removing, closing,
                 sem, calls>>

BeginShutdown(c) ==
  /\ ClientMoves(c, {"idle"}, "closing")
  /\ closing' = closing \cup {c}
  /\ UNCHANGED <<queue, state, currentOwner, current, terminate, worker, removing, at, dirty,
                 sem, flushed, calls>>

RemoveOwn(c, q) ==
  /\ ClientMoves(c, {"closing"}, "removing")
  /\ q \in dirty[c]
  /\ MutexFree(q)
  /\ at' = [at EXCEPT ![c] = q]
  /\ removing' = [removing EXCEPT ![q] = OwnedBy(c)]
  /\ UNCHANGED <<queue, state, currentOwner, current, terminate, worker, closing, dirty, sem,
                 flushed, calls>>

(* WaitUntilCurrentWorkPackageHasBeenExecuted *)
WaitForOwnerChange(c) ==
  /\ ClientMoves(c, {"removed", "checkOwner"}, "waitOwner")
  /\ MutexFree(at[c])
  /\ currentOwner[at[c]] = c
  /\ UNCHANGED <<queue, state, currentOwner, current, terminate, worker, removing, at,
                 closing, dirty, sem, flushed, calls>>

OwnerNotExecuted(c) ==
  /\ Cleaned(c, {"removed", "checkOwner"})
  /\ MutexFree(at[c])
  /\ currentOwner[at[c]] # c
  /\ UNCHANGED <<queue, state, currentOwner, current, terminate, worker, removing, closing,
                 sem, flushed, calls>>

EndShutdown(c) ==
  /\ dirty[c] = {}
  /\ ClientMoves(c, {"closing"}, "destroyed")
  /\ UNCHANGED <<queue, state, currentOwner, current, terminate, worker, removing, at,
                 closing, dirty, sem, flushed, calls>>

SpuriousWakeup(c) ==
  /\ ClientMoves(c, {"waitOwner"}, "checkOwner")
  /\ UNCHANGED <<queue, state, currentOwner, current, terminate, worker, removing, at,
                 closing, dirty, sem, flushed, calls>>

SpuriousWorkerWakeup(q) == WorkerMoves(q, "waiting", "woken") /\ UNCHANGED sem

-----------------------------------------------------------------------------
WorkerStep(q) ==
  \/ EnterWork(q) \/ WakeUp(q) \/ NextPackage(q) \/ LeaveWithException(q)
  \/ StartFunctor(q) \/ Post(q) \/ FunctorReturns(q)

RemovalStep(q) == RemoveNext(q) \/ RemoveEnd(q)

ClientStep(c) ==
  \/ FlushWakes(c) \/ FlushReturns(c)
  \/ \E q \in Queues : RemoveOwn(c, q)
  \/ WaitForOwnerChange(c) \/ OwnerNotExecuted(c) \/ EndShutdown(c)

QueueStep(q) ==
  \/ \E p \in Static \cup Dynamic :
       Add(q, p) \/ InsertAtHeadOfList(q, p) \/ AddRefused(q, p) \/ Remove(q, p)
  \/ \E c \in Clients : RemoveSelected(q, OwnedBy(c))
  \/ \E c \in Clients : \E p \in OwnedBy(c) :
       RemoveSelected(q, {r \in OwnedBy(c) : OwnerID[r] = OwnerID[p]})
  \/ RequestTermination(q)
  \/ RemovalStep(q)
  \/ Destroy(q)
  \/ WorkerStep(q)
  \/ FunctorThrows(q)
  \/ SpuriousWorkerWakeup(q)

Next ==
  \/ \E q \in Queues : QueueStep(q) \/ \E c \in Clients : Flush(c, q)
  \/ \E c \in Clients : ClientStep(c) \/ BeginShutdown(c) \/ SpuriousWakeup(c)

Spec == Init /\ [][Next]_vars

(* A thread that can run does so eventually, every package returns, and    *)
(* the thread of a queue enters Work() again after it has left.            *)
FairSpec ==
  /\ Spec
  /\ \A q \in Queues : WF_vars(WorkerStep(q)) /\ WF_vars(RemovalStep(q))
  /\ \A c \in Clients : WF_vars(ClientStep(c))

-----------------------------------------------------------------------------
WorkerStates == {"out", "waiting", "woken", "fetched", "executing", "inPost", "executed",
                 "threw", "destructor", "destroyed"}
ClientStates == {"idle", "flushWait", "flushSync", "closing", "removing", "removed",
                 "waitOwner", "checkOwner", "destroyed"}
StaticStates == {"staticNotInQ", "staticInQ", "staticExec", "staticExecInQ"}
DynamicStates == {"dynamicNotInQ", "dynamicInQ"}

TypeOK ==
  /\ queue \in [Queues -> Seq(Packages)]
  /\ state \in [Packages -> StaticStates \cup DynamicStates \cup {"panic"}]
  /\ currentOwner \in [Queues -> Clients \cup Queues \cup {None}]
  /\ current \in [Queues -> Packages \cup {None}]
  /\ terminate \in [Queues -> BOOLEAN]
  /\ worker \in [Queues -> WorkerStates]
  /\ removing \in [Queues -> SUBSET Packages]
  /\ pc \in [Clients -> ClientStates]
  /\ at \in [Clients -> Queues \cup {None}]
  /\ closing \subseteq Clients
  /\ dirty \in [Clients -> SUBSET Queues]
  /\ sem \in [Clients -> Nat]
  /\ flushed \in [Clients -> SUBSET (Packages \X {"queued", "running"})]
  /\ calls \in Nat

(* No two places of the intrusive lists hold the same package, and none    *)
(* holds a package that another queue executes: a package has only one     *)
(* pair of pNext and pPrev (async.dox, "can be enqueued in no more than    *)
(* one work queue at any time, and it cannot be enqueued twice").  The     *)
(* queues have separate mutexes; only the state of the package prevents it.*)
OnePlace ==
  /\ \A q \in Queues : \A i, j \in 1 .. Len(queue[q]) :
       queue[q][i] = queue[q][j] => i = j
  /\ \A q, r \in Queues : q # r =>
       /\ InQueue(q) \cap InQueue(r) = {}
       /\ HasPackage(q) => current[q] \notin InQueue(r)
       /\ HasPackage(q) /\ HasPackage(r) => current[q] # current[r]

(* The state of a package says where it is.  Release() and Finish() meet   *)
(* no other state than those they expect, so that neither panics, and a    *)
(* dynamic package is freed exactly once.                                  *)
StateMatchesPlace ==
  \A p \in Packages :
    LET enqueued == \E q \in Queues : p \in InQueue(q)
        executed == \E q \in Queues : HasPackage(q) /\ current[q] = p
    IN  state[p] = IF p \in Static
                   THEN IF enqueued THEN IF executed THEN "staticExecInQ" ELSE "staticInQ"
                                    ELSE IF executed THEN "staticExec" ELSE "staticNotInQ"
                   ELSE IF enqueued \/ executed THEN "dynamicInQ" ELSE "dynamicNotInQ"

(* No lost wake-up: the thread of a queue does not sleep while there is    *)
(* work or a request to terminate, although Add signals an empty queue     *)
(* only, and several threads empty and fill it.                            *)
NeverSleepsOnWork ==
  \A q \in Queues : worker[q] = "waiting" => queue[q] = <<>> /\ ~terminate[q]

(* After the shutdown protocol of a queue nothing of the client is in that *)
(* queue or executed by it, whatever the queue's thread was doing: between *)
(* fetching a package and running it, inside it, or leaving Work() with an *)
(* exception.  This is what makes it safe to destroy the client.           *)
CleanedQueueIsClean ==
  \A c \in closing : \A q \in Queues \ dirty[c] :
    /\ OwnedBy(c) \cap InQueue(q) = {}
    /\ HasPackage(q) => current[q] \notin OwnedBy(c)

(* The flush protocol: a flush does not end before everything that was in  *)
(* the queue or running when it began has been executed or removed, and    *)
(* the semaphore on the stack of the flushing thread is alive as long as   *)
(* the queue's thread is inside Semaphore::Post.                           *)
FlushProtocol ==
  /\ \A c \in Clients : pc[c] = "flushSync" => flushed[c] = {}
  /\ \A q \in Queues : worker[q] = "inPost" =>
       pc[current[q]] \in {"flushWait", "flushSync"} /\ at[current[q]] = q

(* The queues execute packages serially, in order, once per acceptance,    *)
(* and share static packages safely.  The package runs until its functor   *)
(* has returned.                                                           *)
Executor == INSTANCE WorkExecutor WITH
  pending <- queue,
  running <- [q \in Queues |-> IF worker[q] \in {"fetched", "executing", "inPost"}
                               THEN current[q] ELSE None]
ImplementsExecutor == Executor!Spec

(* Packages do not get stuck in a queue, whatever removals, insertions,    *)
(* exceptions and terminations happen to it.                               *)
PackagesLeave ==
  \A q \in Queues, p \in Packages : p \in InQueue(q) ~> p \notin InQueue(q)

(* Flushes, waits for the owner of the package in execution, and shutdowns *)
(* of several queues complete, also across terminations and exceptions.    *)
ClientsGetThrough ==
  \A c \in Clients : pc[c] # "idle" ~> pc[c] \in {"idle", "destroyed"}
=============================================================================
