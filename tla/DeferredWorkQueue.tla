-------------------------- MODULE DeferredWorkQueue --------------------------
(***************************************************************************)
(* gpcc::execution::async::DeferredWorkQueue and DeferredWorkPackage       *)
(* (src/execution/async): one queue, its thread in Work(), owners of       *)
(* packages that flush the queue and shut themselves down, and a clock.    *)
(* An action is the code between two points at which its thread does not   *)
(* hold queueMutex.  The life-cycle of packages shared by several queues   *)
(* is the same as in module WorkQueue.                                     *)
(***************************************************************************)
EXTENDS Integers, Sequences, FiniteSets

CONSTANTS Normal,   \* the work packages
          Deferred, \* the deferred work packages
          Static,   \* the static ones among them; the others are dynamic
          Clients,  \* the owners
          OwnerOf,  \* [Normal \cup Deferred -> Clients]
          OwnerID,  \* [Normal \cup Deferred -> Nat]
          None,     \* nullptr
          MaxTime,  \* bound: the clock stops here
          MaxCalls  \* bound: calls of clients, those of a shutdown excluded

(* A client's flush enqueues a dynamic normal package identified with it. *)
UserPackages == Normal \cup Deferred
Packages == UserPackages \cup Clients
Times == 0 .. MaxTime
OwnedBy(c) == {p \in UserPackages : OwnerOf[p] = c}

ASSUME ConstantsAssumption ==
  /\ Normal \cap Deferred = {} /\ Clients \cap UserPackages = {}
  /\ None \notin Packages \cup {"queue"}
  /\ Static \subseteq UserPackages
  /\ OwnerOf \in [UserPackages -> Clients]
  /\ OwnerID \in [UserPackages -> Nat]
  /\ MaxTime \in Nat /\ MaxCalls \in Nat

VARIABLES
  queue,        \* pQueueFirst .. pQueueLast
  deferred,     \* pDeferredQueueFirst .. pDeferredQueueLast
  tp,           \* DeferredWorkPackage::tp
  state,        \* state of each package; dynamicNotInQ also if not allocated
  currentOwner, \* pOwnerOfCurrentExecutedWP
  current,      \* pCurrentExecutedWP
  terminate,    \* the terminate flag
  worker,       \* where the queue's thread is
  waitsFor,     \* the package whose tp a thread in TimeLimitedWait refers to
  pc,           \* what a client is doing
  sem,          \* the semaphore of a client inside a flush
  now,          \* the clock (ConditionVariable::clockID)
  calls,        \* number of budgeted calls so far
  arrivals      \* history: the packages of deferred in order of acceptance

clientVars == <<pc, sem>>
vars == <<queue, deferred, tp, state, currentOwner, current, terminate, worker, waitsFor,
          clientVars, now, calls, arrivals>>

Elements(s) == {s[i] : i \in 1 .. Len(s)}

(* s without the elements of S: its j-th element is the kept element of s  *)
(* that has j - 1 kept ones in front of it.                                *)
Kept(s, S) == {i \in 1 .. Len(s) : s[i] \notin S}
Without(s, S) ==
  LET Place(j) == CHOOSE i \in Kept(s, S) : Cardinality(Kept(s, S) \cap (1 .. i)) = j
  IN  [j \in 1 .. Cardinality(Kept(s, S)) |-> s[Place(j)]]
Owner(p) == IF p \in Clients THEN "queue" ELSE OwnerOf[p]
Waiting == worker \in {"waiting", "timedWaiting"}
HasPackage == worker \in {"fetched", "executing", "inPost", "executed", "threw"}
HoldsFlushMutex == worker \in {"executing", "inPost"}
Closing(c) == pc[c] \in {"closing", "removed", "closingWait", "closingSync", "waitOwner",
                         "checkOwner", "destroyed"}
Inside(c) == pc[c] \notin {"idle", "closing", "removed", "destroyed"}

(* CreateDynamic sets tp, the constructors of static packages do, too. *)
Init ==
  /\ queue = <<>> /\ deferred = <<>> /\ arrivals = <<>>
  /\ tp = [p \in Deferred |-> 0]
  /\ state = [p \in Packages |-> IF p \in Static THEN "staticNotInQ" ELSE "dynamicNotInQ"]
  /\ currentOwner = None /\ current = None /\ waitsFor = None
  /\ terminate = FALSE
  /\ worker = "out"
  /\ pc = [c \in Clients |-> "idle"]
  /\ sem = [c \in Clients |-> 0]
  /\ now = 0 /\ calls = 0

NewCall == calls < MaxCalls /\ calls' = calls + 1
MutexFree == worker # "destroyed"

-----------------------------------------------------------------------------
(* Release(), Finish() and CheckStateAndSetToInQ_static/_dynamic(); "panic" *)
(* stands for the call of Panic().                                          *)
Released(s) == CASE s = "staticInQ"     -> "staticNotInQ"
                 [] s = "staticExecInQ" -> "staticExec"
                 [] s = "dynamicInQ"    -> "dynamicNotInQ"
                 [] OTHER               -> "panic"

Finished(s) == CASE s = "staticExec"    -> "staticNotInQ"
                 [] s = "staticExecInQ" -> "staticInQ"
                 [] s = "dynamicInQ"    -> "dynamicNotInQ"
                 [] OTHER               -> "panic"

Accepts(p) ==
  state[p] = IF p \notin Static THEN "dynamicNotInQ"
             ELSE IF current # p THEN "staticNotInQ" ELSE "staticExec"

SetToInQ(p) ==
  [state EXCEPT ![p] = IF p \notin Static THEN "dynamicInQ"
                       ELSE IF current # p THEN "staticInQ" ELSE "staticExecInQ"]

(* queueConVar.Signal(): a thread that waits returns without a timeout. *)
Signal == worker' = IF Waiting THEN "woken" ELSE worker

(* Deviation: no signal. *)
SignalIf_Never(condition) == UNCHANGED worker

SignalIf(condition) == IF condition THEN Signal ELSE UNCHANGED worker

(* ownerChangedConVar.Broadcast(): its waiters check the owner again. *)
AfterBroadcast == [c \in Clients |-> IF pc[c] = "waitOwner" THEN "checkOwner" ELSE pc[c]]

-----------------------------------------------------------------------------
(* DeferredWorkPackage::SetTimePoint and SetTimeSpan by the owner. *)
SetTimePoint(p, t) ==
  /\ NewCall
  /\ p \in Deferred \cap Static
  /\ state[p] \in {"staticNotInQ", "staticExec"}
  /\ tp' = [tp EXCEPT ![p] = t]
  /\ UNCHANGED <<queue, deferred, state, currentOwner, current, terminate, worker, waitsFor,
                 clientVars, now, arrivals>>

(* Nobody adds packages of a client that shuts down. *)
MayAdd(p) == NewCall /\ MutexFree /\ ~Closing(OwnerOf[p])

Add(p) ==
  /\ MayAdd(p) /\ Accepts(p)
  /\ state' = SetToInQ(p)
  /\ queue' \in {Append(queue, p), <<p>> \o queue}
  /\ SignalIf(queue = <<>>)
  /\ UNCHANGED <<deferred, tp, currentOwner, current, terminate, waitsFor, clientVars, now, arrivals>>

(* Deviation: equal times are not executed in the order of acceptance. *)
LastNotLater_BeforeEqual(t) ==
  CHOOSE k \in 0 .. Len(deferred) :
    /\ k > 0 => tp[deferred[k]] < t
    /\ \A i \in k + 1 .. Len(deferred) : tp[deferred[i]] >= t

(* The last place after which a package due at t can be inserted, searched  *)
(* from the end of the list; 0 if it becomes the first.                     *)
LastNotLater(t) ==
  CHOOSE k \in 0 .. Len(deferred) :
    /\ k > 0 => tp[deferred[k]] <= t
    /\ \A i \in k + 1 .. Len(deferred) : tp[deferred[i]] > t

SignalIfFirst(t) == SignalIf(LastNotLater(t) = 0)

(* Add(DeferredWorkPackage); t is its tp, set by CreateDynamic if dynamic. *)
AddDeferred(p, t) ==
  /\ MayAdd(p) /\ Accepts(p)
  /\ p \in Static => t = tp[p]
  /\ tp' = [tp EXCEPT ![p] = t]
  /\ state' = SetToInQ(p)
  /\ LET k == LastNotLater(t)
     IN  deferred' = SubSeq(deferred, 1, k) \o <<p>> \o SubSeq(deferred, k + 1, Len(deferred))
  /\ arrivals' = Append(arrivals, p)
  /\ SignalIfFirst(t)
  /\ UNCHANGED <<queue, currentOwner, current, terminate, waitsFor, clientVars, now>>

(* The exception comes after the signal. *)
AddRefused(p) ==
  /\ MayAdd(p)
  /\ p \in Static /\ ~Accepts(p)
  /\ IF p \in Normal THEN SignalIf(queue = <<>>) ELSE SignalIfFirst(tp[p])
  /\ UNCHANGED <<queue, deferred, tp, state, currentOwner, current, terminate, waitsFor,
                 clientVars, now, arrivals>>

RequestTermination ==
  /\ NewCall /\ MutexFree
  /\ terminate' = TRUE
  /\ Signal
  /\ UNCHANGED <<queue, deferred, tp, state, currentOwner, current, waitsFor, clientVars, now, arrivals>>

-----------------------------------------------------------------------------
(* Deviation: the timeout is not set up again. *)
RemoveAll_NoSignal(S) ==
  /\ queue' = Without(queue, S) /\ deferred' = Without(deferred, S)
  /\ arrivals' = Without(arrivals, S)
  /\ state' = [p \in Packages |-> IF p \in S \cap (Elements(queue) \cup Elements(deferred))
                                  THEN Released(state[p]) ELSE state[p]]
  /\ UNCHANGED worker

(* Unlink and release the packages in S; the timeout must be set up again  *)
(* if another deferred package has become the first.                       *)
RemoveAll(S) ==
  /\ queue' = Without(queue, S) /\ deferred' = Without(deferred, S)
  /\ arrivals' = Without(arrivals, S)
  /\ state' = [p \in Packages |-> IF p \in S \cap (Elements(queue) \cup Elements(deferred))
                                  THEN Released(state[p]) ELSE state[p]]
  /\ SignalIf(deferred # <<>> /\ deferred' # <<>> /\ Head(deferred) \in S)

(* Remove(WorkPackage&), Remove(DeferredWorkPackage&) *)
Remove(p) ==
  /\ NewCall /\ MutexFree
  /\ p \in Static
  /\ state[p] # "staticExec"
  /\ RemoveAll({p})
  /\ UNCHANGED <<tp, currentOwner, current, terminate, waitsFor, clientVars, now>>

(* Remove(pOwnerObject), Remove(pOwnerObject, ownerID) *)
RemoveOwned(c, selection) ==
  /\ NewCall /\ MutexFree
  /\ RemoveAll(selection)
  /\ UNCHANGED <<tp, currentOwner, current, terminate, waitsFor, clientVars, now>>

(* ~DeferredWorkQueue(): nobody is inside a method of the queue. *)
Destroy ==
  /\ worker = "out"
  /\ \A c \in Clients : ~Inside(c)
  /\ worker' = "destroyed"
  /\ queue' = <<>> /\ deferred' = <<>> /\ arrivals' = <<>>
  /\ state' = [p \in Packages |-> IF p \in Elements(queue) \cup Elements(deferred)
                                  THEN Released(state[p]) ELSE state[p]]
  /\ UNCHANGED <<tp, currentOwner, current, terminate, waitsFor, clientVars, now, calls>>

-----------------------------------------------------------------------------
(* The decision taken in Work(), from the top of the loop or after a wait,  *)
(* up to the next release of queueMutex.  s is the state before it.         *)
StopWorking(s) ==
  /\ terminate
  /\ terminate' = FALSE
  /\ worker' = "out"
  /\ current' = None /\ currentOwner' = None
  /\ pc' = IF currentOwner # None THEN AfterBroadcast ELSE pc
  /\ state' = s
  /\ UNCHANGED <<queue, deferred, waitsFor, arrivals>>

(* TimeLimitedWait if there is a deferred package, Wait if there is none. *)
WaitForWork(timeout, s) ==
  /\ ~terminate
  /\ queue = <<>>
  /\ timeout => deferred = <<>>
  /\ worker' = IF deferred = <<>> THEN "waiting" ELSE "timedWaiting"
  /\ waitsFor' = IF deferred = <<>> THEN None ELSE Head(deferred)
  /\ current' = None /\ currentOwner' = None
  /\ pc' = IF currentOwner # None THEN AfterBroadcast ELSE pc
  /\ state' = s
  /\ UNCHANGED <<queue, deferred, terminate, arrivals>>

Fetch(p, s) ==
  /\ current' = p
  /\ currentOwner' = Owner(p)
  /\ state' = [s EXCEPT ![p] = IF @ = "staticInQ" THEN "staticExec" ELSE @]
  /\ pc' = AfterBroadcast
  /\ worker' = "fetched"
  /\ UNCHANGED <<terminate, waitsFor>>

FetchDeferred(timeout, s) ==
  /\ ~terminate
  /\ timeout
  /\ deferred # <<>>
  /\ deferred' = Tail(deferred)
  /\ arrivals' = Without(arrivals, {Head(deferred)})
  /\ Fetch(Head(deferred), s)
  /\ UNCHANGED queue

FetchNormal(timeout, s) ==
  /\ ~terminate
  /\ timeout => deferred = <<>>
  /\ queue # <<>>
  /\ queue' = Tail(queue)
  /\ Fetch(Head(queue), s)
  /\ UNCHANGED <<deferred, arrivals>>

Decide(timeout, s) ==
  /\ \/ StopWorking(s) \/ WaitForWork(timeout, s)
     \/ FetchDeferred(timeout, s) \/ FetchNormal(timeout, s)
  /\ UNCHANGED <<tp, sem, now, calls>>

FirstIsDue == deferred # <<>> /\ tp[Head(deferred)] <= now

(* Top of the loop. *)
LoopTop(s) == Decide(queue # <<>> /\ FirstIsDue, s)

(* Finish() for the package executed. *)
StateAfterFinish == [state EXCEPT ![current] = Finished(@)]
EnterWork == worker = "out" /\ LoopTop(state)

NextPackage == worker = "executed" /\ LoopTop(StateAfterFinish)

(* A wait has returned, and the thread has queueMutex again. *)
WakeUp == worker = "woken" /\ Decide(FALSE, state)

TimedOut == worker = "timedOut" /\ Decide(FirstIsDue, state)

LeaveWithException ==
  /\ worker = "threw"
  /\ worker' = "out"
  /\ current' = None /\ currentOwner' = None
  /\ pc' = IF currentOwner # None THEN AfterBroadcast ELSE pc
  /\ state' = StateAfterFinish
  /\ UNCHANGED <<queue, deferred, tp, terminate, waitsFor, sem, now, calls, arrivals>>

WorkerMoves(from, to) ==
  /\ worker = from
  /\ worker' = to
  /\ UNCHANGED <<queue, deferred, tp, state, currentOwner, current, terminate, waitsFor, pc,
                 now, calls, arrivals>>

(* TimeLimitedWait refers to the tp of a package.  After a removal of that  *)
(* package it may be destroyed, and the timeout may come at any time.       *)
Timeout ==
  /\ WorkerMoves("timedWaiting", "timedOut")
  /\ waitsFor \in Elements(deferred) => tp[waitsFor] <= now
  /\ UNCHANGED sem

SpuriousWorkerWakeup ==
  (WorkerMoves("waiting", "woken") \/ WorkerMoves("timedWaiting", "woken")) /\ UNCHANGED sem

(* flushMutex is locked while the functor runs. *)
StartFunctor == WorkerMoves("fetched", "executing") /\ UNCHANGED sem

FunctorReturns ==
  /\ \/ WorkerMoves("executing", "executed") /\ current \notin Clients
     \/ WorkerMoves("inPost", "executed")
  /\ UNCHANGED sem

FunctorThrows ==
  /\ current \notin Clients
  /\ WorkerMoves("executing", "threw")
  /\ UNCHANGED sem

(* The functor of a flush, Semaphore::Post, is still busy with the          *)
(* semaphore when the flushing thread can already see the new value.        *)
Post ==
  /\ current \in Clients
  /\ WorkerMoves("executing", "inPost")
  /\ sem' = [sem EXCEPT ![current] = @ + 1]

Tick ==
  /\ now < MaxTime
  /\ now' = now + 1
  /\ UNCHANGED <<queue, deferred, tp, state, currentOwner, current, terminate, worker, waitsFor,
                 clientVars, calls, arrivals>>

-----------------------------------------------------------------------------
ClientMoves(c, from, to) ==
  /\ pc[c] = from
  /\ pc' = [pc EXCEPT ![c] = to]
  /\ UNCHANGED <<queue, deferred, tp, state, currentOwner, current, terminate, worker, waitsFor,
                 now, calls, arrivals>>

(* FlushNonDeferredWorkPackages: a new package at the end of the queue, ... *)
Flush(c) ==
  /\ \/ pc[c] = "idle" /\ pc' = [pc EXCEPT ![c] = "flushWait"] /\ NewCall
     \/ pc[c] = "removed" /\ pc' = [pc EXCEPT ![c] = "closingWait"] /\ UNCHANGED calls
  /\ MutexFree /\ Accepts(c)
  /\ state' = SetToInQ(c)
  /\ queue' = Append(queue, c)
  /\ SignalIf(queue = <<>>)
  /\ sem' = [sem EXCEPT ![c] = 0]
  /\ UNCHANGED <<deferred, tp, currentOwner, current, terminate, waitsFor, now, arrivals>>

(* ... s.Wait(), ... *)
FlushWakes(c) ==
  /\ ClientMoves(c, "flushWait", "flushSync") \/ ClientMoves(c, "closingWait", "closingSync")
  /\ sem[c] > 0
  /\ sem' = [sem EXCEPT ![c] = @ - 1]

(* ... and flushMutex locked and unlocked before s is destroyed. *)
FlushReturns(c) ==
  /\ ~HoldsFlushMutex
  /\ ClientMoves(c, "flushSync", "idle") \/ ClientMoves(c, "closingSync", "destroyed")
  /\ UNCHANGED sem

BeginShutdown(c) == ClientMoves(c, "idle", "closing") /\ UNCHANGED sem

(* Deviation: the list of deferred packages is forgotten. *)
RemoveOwn_NormalOnly(c) ==
  /\ pc[c] = "closing" /\ MutexFree
  /\ pc' = [pc EXCEPT ![c] = "removed"]
  /\ RemoveAll(OwnedBy(c) \ Deferred)
  /\ UNCHANGED <<tp, currentOwner, current, terminate, waitsFor, sem, now, calls>>

RemoveOwn(c) ==
  /\ pc[c] = "closing" /\ MutexFree
  /\ pc' = [pc EXCEPT ![c] = "removed"]
  /\ RemoveAll(OwnedBy(c))
  /\ UNCHANGED <<tp, currentOwner, current, terminate, waitsFor, sem, now, calls>>

(* WaitUntilCurrentWorkPackageHasBeenExecuted *)
WaitForOwnerChange(c) ==
  /\ MutexFree /\ currentOwner = c
  /\ ClientMoves(c, "removed", "waitOwner") \/ ClientMoves(c, "checkOwner", "waitOwner")
  /\ UNCHANGED sem

OwnerNotExecuted(c) ==
  /\ MutexFree /\ currentOwner # c
  /\ ClientMoves(c, "removed", "destroyed") \/ ClientMoves(c, "checkOwner", "destroyed")
  /\ UNCHANGED sem

SpuriousWakeup(c) == ClientMoves(c, "waitOwner", "checkOwner") /\ UNCHANGED sem

(* The queue has been destroyed before. *)
EndShutdown(c) ==
  /\ worker = "destroyed"
  /\ ClientMoves(c, "closing", "destroyed") \/ ClientMoves(c, "removed", "destroyed")
  /\ UNCHANGED sem

-----------------------------------------------------------------------------
WorkerStep ==
  \/ EnterWork \/ WakeUp \/ Timeout \/ TimedOut \/ NextPackage \/ LeaveWithException
  \/ StartFunctor \/ Post \/ FunctorReturns

ClientStep(c) ==
  \/ FlushWakes(c) \/ FlushReturns(c) \/ RemoveOwn(c)
  \/ WaitForOwnerChange(c) \/ OwnerNotExecuted(c) \/ EndShutdown(c)

SameID(p) == {r \in OwnedBy(OwnerOf[p]) : OwnerID[r] = OwnerID[p]}

Next ==
  \/ \E p \in Normal : Add(p)
  \/ \E p \in Deferred, t \in Times : AddDeferred(p, t) \/ SetTimePoint(p, t)
  \/ \E p \in UserPackages : AddRefused(p) \/ Remove(p) \/ RemoveOwned(OwnerOf[p], SameID(p))
  \/ \E c \in Clients : RemoveOwned(c, OwnedBy(c))
  \/ RequestTermination \/ Destroy \/ Tick
  \/ WorkerStep \/ FunctorThrows \/ SpuriousWorkerWakeup
  \/ \E c \in Clients : ClientStep(c) \/ Flush(c) \/ BeginShutdown(c) \/ SpuriousWakeup(c)

Spec == Init /\ [][Next]_vars

(* Time passes; a thread that can run does so eventually, every package     *)
(* returns, and the thread of the queue enters Work() again after it left.  *)
(* A wait whose timeout is over is not interrupted spuriously for ever.     *)
FairSpec ==
  /\ Spec
  /\ WF_vars(Tick) /\ WF_vars(WorkerStep) /\ SF_vars(Timeout)
  /\ \A c \in Clients : WF_vars(ClientStep(c))

-----------------------------------------------------------------------------
TypeOK ==
  /\ queue \in Seq(Packages \ Deferred) /\ deferred \in Seq(Deferred)
  /\ arrivals \in Seq(Deferred)
  /\ tp \in [Deferred -> Times]
  /\ state \in [Packages -> {"staticNotInQ", "staticInQ", "staticExec", "staticExecInQ",
                             "dynamicNotInQ", "dynamicInQ", "panic"}]
  /\ currentOwner \in Clients \cup {"queue", None}
  /\ current \in Packages \cup {None} /\ waitsFor \in Deferred \cup {None}
  /\ terminate \in BOOLEAN
  /\ worker \in {"out", "waiting", "timedWaiting", "woken", "timedOut", "fetched", "executing",
                 "inPost", "executed", "threw", "destroyed"}
  /\ pc \in [Clients -> {"idle", "flushWait", "flushSync", "closing", "removed", "closingWait",
                         "closingSync", "waitOwner", "checkOwner", "destroyed"}]
  /\ sem \in [Clients -> Nat]
  /\ now \in Times /\ calls \in Nat

(* The thread of the queue never sleeps on work and never oversleeps: while *)
(* it waits there is neither a normal package nor a request to terminate,   *)
(* and its timeout is the time of the package that is first now.            *)
NeverOversleeps ==
  Waiting => /\ queue = <<>>
             /\ ~terminate
             /\ deferred # <<>> => worker = "timedWaiting" /\ waitsFor = Head(deferred)

(* After the shutdown protocol (remove, then wait or flush) nothing of the  *)
(* client is in one of the lists or executed, whatever the thread of the    *)
(* queue was doing.                                                         *)
DestroyedClientIsClean ==
  \A c \in Clients : pc[c] = "destroyed" =>
    /\ OwnedBy(c) \cap (Elements(queue) \cup Elements(deferred)) = {}
    /\ HasPackage => current \notin OwnedBy(c)

(* The queue implements the promises of DeferredWorkQueue.hpp, priority     *)
(* excepted.                                                                *)
Executor == INSTANCE DeferredExecutor WITH
  Normal <- Normal \cup Clients,
  pending <- queue,
  timed <- arrivals,
  due <- tp,
  running <- IF worker \in {"fetched", "executing", "inPost"} THEN current ELSE None
ImplementsExecutor == Executor!Spec

(* Every deferred package leaves the queue in the end, although additions   *)
(* and removals change the wait that was set up for it.                     *)
DeferredPackagesLeave ==
  \A p \in Deferred : p \in Elements(deferred) ~> p \notin Elements(deferred)
=============================================================================
