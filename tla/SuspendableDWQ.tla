--------------------------- MODULE SuspendableDWQ ---------------------------
(***************************************************************************)
(* gpcc::execution::async::SuspendableDWQwithThread: Start, Resume,        *)
(* Suspend and Stop control a thread that enters and leaves                *)
(* DeferredWorkQueue::Work().  One condition variable carries the requests *)
(* to the thread and the answers to the caller.  Of the queue the model    *)
(* keeps what module DeferredWorkQueue shows of it: Work() runs packages   *)
(* one by one and leaves, consuming the request, when termination has been *)
(* requested, but never inside a package.                                  *)
(*                                                                         *)
(* apiMutex admits one call at a time.  An action is the code between two  *)
(* points at which its thread does not hold mutex.  What module            *)
(* DeferredWorkQueue has a name for too has a name of its own here: one     *)
(* module proves about both.                                               *)
(***************************************************************************)
EXTENDS Naturals

CONSTANT MaxStray  \* bound: terminations requested through GetDWQ()

ASSUME MaxStrayAssumption == MaxStray \in Nat

VARIABLES
  ctrlStat,   \* the combined control/status value
  call,       \* the call that holds apiMutex
  callState,  \* "waiting" in cvCtrlStatEvent.Wait, "woken" from it, or "none"
  thread,     \* where the thread is
  terminateDWQ,  \* the terminate flag of the queue
  stray       \* number of stray requests for termination so far

suspendableVars == <<ctrlStat, call, callState, thread, terminateDWQ, stray>>

Requests == {"suspendReq", "startReq", "terminateReq"}
InsideWork == {"toWork", "working", "executing"}

(* What the caller waits for. *)
Awaited == IF call = "Resume" THEN "running" ELSE "suspended"

SuspendableInit ==
  /\ ctrlStat = "noThread"
  /\ call = "none" /\ callState = "none"
  /\ thread = "none"
  /\ terminateDWQ = FALSE
  /\ stray = 0

(* cvCtrlStatEvent.Signal() by a caller, which does not wait itself. *)
SignalThread == IF thread = "waiting" THEN thread' = "woken" ELSE UNCHANGED thread

-----------------------------------------------------------------------------
(* A call in another state throws std::logic_error and changes nothing.    *)
Start ==
  /\ call = "none" /\ ctrlStat = "noThread"
  /\ call' = "Start" /\ callState' = "waiting"
  /\ thread' = "locking"
  /\ ctrlStat' = "suspendReq"
  /\ UNCHANGED <<terminateDWQ, stray>>

(* Deviation: the queue is not asked to return. *)
Suspend_NoTermination ==
  /\ call = "none" /\ ctrlStat = "running"
  /\ call' = "Suspend" /\ callState' = "waiting"
  /\ SignalThread
  /\ ctrlStat' = "suspendReq"
  /\ UNCHANGED <<terminateDWQ, stray>>

(* Deviation: the thread is not waited for. *)
Suspend_AtOnce ==
  /\ call = "none" /\ ctrlStat = "running"
  /\ SignalThread
  /\ terminateDWQ' = TRUE
  /\ ctrlStat' = "suspended"
  /\ UNCHANGED <<call, callState, stray>>

Suspend ==
  /\ call = "none" /\ ctrlStat = "running"
  /\ call' = "Suspend" /\ callState' = "waiting"
  /\ SignalThread
  /\ terminateDWQ' = TRUE
  /\ ctrlStat' = "suspendReq"
  /\ UNCHANGED stray

Resume ==
  /\ call = "none" /\ ctrlStat = "suspended"
  /\ call' = "Resume" /\ callState' = "waiting"
  /\ SignalThread
  /\ ctrlStat' = "startReq"
  /\ UNCHANGED <<terminateDWQ, stray>>

(* The precondition of Stop: the thread runs, suspended or not. *)
Stop ==
  /\ call = "none" /\ ctrlStat \in {"running", "suspended"}
  /\ call' = "Stop"
  /\ terminateDWQ' = (terminateDWQ \/ ctrlStat = "running")
  /\ ctrlStat' = "terminateReq"
  /\ SignalThread
  /\ UNCHANGED <<callState, stray>>

(* thread.Join() *)
StopReturns ==
  /\ call = "Stop" /\ thread = "ended"
  /\ call' = "none" /\ thread' = "none"
  /\ UNCHANGED <<ctrlStat, callState, terminateDWQ, stray>>

(* Deviation: a wait returns, and its condition is not checked again. *)
CallWakes_NoRecheck ==
  /\ callState = "woken"
  /\ callState' = "none" /\ call' = "none"
  /\ UNCHANGED <<ctrlStat, thread, terminateDWQ, stray>>

CallWakes ==
  /\ callState = "woken"
  /\ IF ctrlStat = Awaited
     THEN callState' = "none" /\ call' = "none"
     ELSE callState' = "waiting" /\ UNCHANGED call
  /\ UNCHANGED <<ctrlStat, thread, terminateDWQ, stray>>

(* GetDWQ().RequestTermination() by anybody, also by a work package. *)
StrayTermination ==
  /\ stray < MaxStray
  /\ stray' = stray + 1
  /\ terminateDWQ' = TRUE
  /\ UNCHANGED <<ctrlStat, call, callState, thread>>

-----------------------------------------------------------------------------
(* ThreadEntry: the loop that ends with runWQ, or in a wait.  The answer is *)
(* signalled while the thread itself does not wait.                         *)
Answer == callState' = IF callState = "waiting" THEN "woken" ELSE callState

(* The thread holds mutex: before the loop, or after a wait. *)
HasMutex == thread \in {"locking", "woken"}

(* Deviation: runWQ is initialised with false. *)
KeepRunning_Waits ==
  /\ thread = "locking" /\ ctrlStat = "running"
  /\ thread' = "waiting"
  /\ UNCHANGED <<ctrlStat, call, callState, terminateDWQ, stray>>

(* Work() has returned though nobody has asked for it, or the state is      *)
(* running when the loop is entered.                                        *)
KeepRunning ==
  /\ thread = "locking" /\ ctrlStat = "running"
  /\ thread' = "toWork"
  /\ UNCHANGED <<ctrlStat, call, callState, terminateDWQ, stray>>

ObeyStart ==
  /\ HasMutex /\ ctrlStat = "startReq"
  /\ ctrlStat' = "running"
  /\ thread' = "toWork"
  /\ Answer
  /\ UNCHANGED <<call, terminateDWQ, stray>>

(* The loop continues with a wait. *)
ObeySuspend ==
  /\ HasMutex /\ ctrlStat = "suspendReq"
  /\ ctrlStat' = "suspended"
  /\ thread' = "waiting"
  /\ Answer
  /\ UNCHANGED <<call, terminateDWQ, stray>>

ObeyTerminate ==
  /\ HasMutex /\ ctrlStat = "terminateReq"
  /\ ctrlStat' = "noThread"
  /\ thread' = "ended"
  /\ Answer
  /\ UNCHANGED <<call, terminateDWQ, stray>>

WaitAgain ==
  /\ HasMutex /\ ctrlStat \notin Requests
  /\ thread = "locking" => ctrlStat # "running"
  /\ thread' = "waiting"
  /\ UNCHANGED <<ctrlStat, call, callState, terminateDWQ, stray>>

ThreadMoves(from, to) ==
  /\ thread = from /\ thread' = to
  /\ UNCHANGED <<ctrlStat, call, callState, stray>>

(* dwq.Work() *)
EnterDWQWork == ThreadMoves("toWork", "working") /\ UNCHANGED terminateDWQ
StartPackage == ~terminateDWQ /\ ThreadMoves("working", "executing") /\ UNCHANGED terminateDWQ
EndPackage == ThreadMoves("executing", "working") /\ UNCHANGED terminateDWQ
WorkReturns == terminateDWQ /\ terminateDWQ' = FALSE /\ ThreadMoves("working", "locking")

WaitEndsSpuriously ==
  \/ ThreadMoves("waiting", "woken") /\ UNCHANGED terminateDWQ
  \/ /\ callState = "waiting" /\ callState' = "woken"
     /\ UNCHANGED <<ctrlStat, call, thread, terminateDWQ, stray>>

-----------------------------------------------------------------------------
ThreadStep ==
  \/ KeepRunning \/ ObeyStart \/ ObeySuspend \/ ObeyTerminate \/ WaitAgain
  \/ EnterDWQWork \/ EndPackage \/ WorkReturns

CallStep == CallWakes \/ StopReturns

SuspendableNext ==
  \/ Start \/ Suspend \/ Resume \/ Stop \/ CallStep
  \/ StrayTermination \/ ThreadStep \/ StartPackage \/ WaitEndsSpuriously

SuspendableSpec == SuspendableInit /\ [][SuspendableNext]_suspendableVars

(* Threads that can run do so, and every package returns. *)
FairSuspendableSpec ==
  SuspendableSpec /\ WF_suspendableVars(ThreadStep) /\ WF_suspendableVars(CallStep)

-----------------------------------------------------------------------------
SuspendableTypeOK ==
  /\ ctrlStat \in Requests \cup {"noThread", "suspended", "running"}
  /\ call \in {"none", "Start", "Suspend", "Resume", "Stop"}
  /\ callState \in {"none", "waiting", "woken"}
  /\ callState # "none" => call \in {"Start", "Suspend", "Resume"}
  /\ thread \in InsideWork \cup {"none", "locking", "waiting", "woken", "ended"}
  /\ terminateDWQ \in BOOLEAN
  /\ stray \in 0 .. MaxStray

(* No package is executed while the status says suspended or stopped, nor  *)
(* while a request to start is on its way, whoever has requested           *)
(* termination of the queue and whenever Work() has returned.              *)
SuspendedIsQuiet ==
  ctrlStat \in {"noThread", "suspended", "startReq"} => thread \notin InsideWork

(* When no call is in progress the status is settled and agrees with the   *)
(* thread: Start finds no thread left over, Suspend one that it can stop.  *)
SettledBetweenCalls ==
  call = "none" => /\ ctrlStat \notin Requests
                   /\ ctrlStat = "noThread" <=> thread = "none"
                   /\ ctrlStat = "running" <=> thread \in InsideWork \cup {"locking"}

(* No lost wake-up on the shared condition variable: neither side sleeps   *)
(* when it is its turn.                                                    *)
NoLostWakeup ==
  /\ callState = "waiting" => ctrlStat # Awaited
  /\ thread = "waiting" => ctrlStat \notin Requests

(* Start, Suspend, Resume and Stop return; a queue that has been resumed   *)
(* gets to work, a pending termination request notwithstanding.            *)
CallsReturn == call # "none" ~> call = "none"
ResumedQueueWorks == ctrlStat = "running" ~> thread = "working" \/ ctrlStat # "running"
=============================================================================
