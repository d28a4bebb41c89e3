-------------------------- MODULE TTCEStartStopCtrl --------------------------
(***************************************************************************)
(* gpcc::execution::cyclic::TTCEStartStopCtrl together with the            *)
(* TriggeredThreadedCyclicExec it manages and the work queue that carries  *)
(* the reports of the cyclic thread to it.  Any thread starts and stops    *)
(* sampling; clients lock the start, stop sampling and wait until it has   *)
(* stopped.  panic records that the code has reached one of its            *)
(* PANIC()s or an exception of the TTCE.                                   *)
(*                                                                         *)
(* An action is the code executed with the controller's mutex locked; the  *)
(* TTCE's mutex is locked inside it.  The work queue executes the          *)
(* packages of the controller in FIFO order (WorkQueue!ImplementsExecutor).*)
(***************************************************************************)
EXTENDS TTCE, FiniteSets

CONSTANTS Clients,     \* objects that lock the start
          MaxAttempts, \* bound: the largest number of restart attempts
          MaxNbOfLocks \* 255 in the code

ASSUME CtrlAssumption ==
  MaxAttempts \in Nat /\ MaxNbOfLocks \in Nat /\ IsFiniteSet(Clients)

VARIABLES
  ctrl,         \* the state of the controller
  attempts,     \* restartAttemptsAfterLossOfLock
  remaining,    \* remainingRestartAttemptsAfterLossOfLock
  nbOfStartLocks,
  wq,           \* the packages of the controller in the work queue
  client,       \* what each client is doing
  panic         \* an "unexpected" branch has been taken

ctrlVars == <<ctrl, attempts, remaining, wq, panic>>
clientVars == <<nbOfStartLocks, client>>
vars == <<ttceVars, ctrlVars, clientVars>>

Init ==
  /\ TTCEInit
  /\ ctrl = "stopped"
  /\ attempts = 0 /\ remaining = 0
  /\ nbOfStartLocks = 0
  /\ wq = <<>>
  /\ client = [c \in Clients |-> "idle"]
  /\ panic = FALSE

-----------------------------------------------------------------------------
(* Deviation: nobody is woken. *)
AfterBroadcast_None == client

(* condVarStateStopped.Broadcast() *)
AfterBroadcast ==
  [c \in Clients |-> IF client[c] = "waiting" THEN "woken" ELSE client[c]]

(* Deviation: the locks are not looked at. *)
StartAsync_IgnoresLocks ==
  /\ ctrl = "stopped"
  /\ IF MayStart
     THEN /\ RequestStartSampling(0)
          /\ remaining' = attempts
          /\ ctrl' = "starting"
          /\ UNCHANGED panic
     ELSE panic' = TRUE /\ UNCHANGED <<ttceVars, ctrl, remaining>>
  /\ UNCHANGED <<attempts, wq, clientVars>>

(* Any other result than ok changes nothing. *)
StartAsync ==
  /\ nbOfStartLocks = 0
  /\ ctrl = "stopped"
  /\ IF MayStart
     THEN /\ RequestStartSampling(0)
          /\ remaining' = attempts
          /\ ctrl' = "starting"
          /\ UNCHANGED panic
     ELSE panic' = TRUE /\ UNCHANGED <<ttceVars, ctrl, remaining>>
  /\ UNCHANGED <<attempts, wq, clientVars>>

(* StopAsync if it does not return alreadyStopped or alreadyStopping. *)
StopEffect ==
  /\ ctrl \in {"starting", "running"}
  /\ IF MayStop
     THEN RequestStopSampling /\ ctrl' = "stopPending" /\ UNCHANGED panic
     ELSE panic' = TRUE /\ UNCHANGED <<ttceVars, ctrl>>

StopAsync ==
  /\ StopEffect
  /\ UNCHANGED <<attempts, remaining, wq, clientVars>>

SetRestartAttempts(n) ==
  /\ attempts' = n
  /\ UNCHANGED <<ttceVars, ctrl, remaining, wq, panic, clientVars>>

RefreshRemainingStartAttempts ==
  /\ remaining' = attempts
  /\ UNCHANGED <<ttceVars, ctrl, attempts, wq, panic, clientVars>>

-----------------------------------------------------------------------------
(* Deviation: the package is inserted at the head of the queue. *)
OnTTCEStateChange_AtHead(s, r) ==
  /\ OnStateChange(s, r)
  /\ wq' = IF s \in {"stopped", "running"} THEN <<<<s, r>>>> \o wq ELSE wq
  /\ UNCHANGED <<ctrl, attempts, remaining, panic, clientVars>>

(* OnTTCEStateChange, called by the thread of the TTCE; it tries again      *)
(* until there is memory for the package.                                   *)
OnTTCEStateChange(s, r) ==
  /\ OnStateChange(s, r)
  /\ wq' = IF s \in {"stopped", "running"} THEN Append(wq, <<s, r>>) ELSE wq
  /\ panic' = (panic \/ (s = "stopped" /\ r = "none"))
  /\ UNCHANGED <<ctrl, attempts, remaining, clientVars>>

(* Deviation: a stop is expected to have overtaken the package. *)
OnRun_WQ_NoStopPending ==
  /\ wq # <<>> /\ Head(wq)[1] = "running"
  /\ wq' = Tail(wq)
  /\ IF ctrl = "starting" THEN ctrl' = "running" /\ UNCHANGED panic
                          ELSE panic' = TRUE /\ UNCHANGED ctrl
  /\ UNCHANGED <<ttceVars, attempts, remaining, clientVars>>

OnRun_WQ ==
  /\ wq # <<>> /\ Head(wq)[1] = "running"
  /\ wq' = Tail(wq)
  /\ ctrl' = IF ctrl = "starting" THEN "running" ELSE ctrl
  /\ panic' = (panic \/ ctrl \notin {"starting", "stopPending"})
  /\ UNCHANGED <<ttceVars, attempts, remaining, clientVars>>

Becomes(s) == ctrl' = s /\ UNCHANGED <<ttceVars, remaining, panic, client>>

BecomesStopped ==
  /\ ctrl' = "stopped"
  /\ client' = AfterBroadcast
  /\ UNCHANGED <<ttceVars, remaining, panic>>

Unexpected == panic' = TRUE /\ UNCHANGED <<ttceVars, ctrl, remaining, client>>

(* Automatic restart after a loss of lock; the delay is the result of the   *)
(* virtual method OnBeforeRestartAfterLossOfLock.                           *)
Restart(delay) ==
  /\ remaining' = remaining - 1
  /\ IF MayStart
     THEN RequestStartSampling(delay) /\ ctrl' = "starting" /\ UNCHANGED panic
     ELSE panic' = TRUE /\ UNCHANGED <<ttceVars, ctrl>>
  /\ UNCHANGED client

StopWhenPending(reason) ==
  IF reason = "reqStopSampling" THEN BecomesStopped ELSE Becomes("stoppedStopPending")

StopWhenRunning(reason) ==
  CASE reason = "reqStopSampling" -> Unexpected
    [] reason = "pllLossOfLock" /\ remaining > 0 ->
         \E delay \in 0 .. MaxDelay : Restart(delay)
    [] OTHER -> BecomesStopped

OnStop_WQ ==
  /\ wq # <<>> /\ Head(wq)[1] = "stopped"
  /\ wq' = Tail(wq)
  /\ LET reason == Head(wq)[2]
     IN  CASE ctrl = "stopped"     -> Unexpected
           [] ctrl = "starting"    -> IF reason = "triggerTimeout" THEN BecomesStopped
                                                                   ELSE Unexpected
           [] ctrl = "running"     -> StopWhenRunning(reason)
           [] ctrl = "stopPending" -> StopWhenPending(reason)
           [] ctrl = "stoppedStopPending" -> IF reason = "reqStopSampling" THEN BecomesStopped
                                                                           ELSE Unexpected
  /\ UNCHANGED <<attempts, nbOfStartLocks>>

-----------------------------------------------------------------------------
(* A client: LockStart, StopAsync, WaitUntilStopped, ..., UnlockStart. *)
ClientMoves(c, from, to) == client[c] \in from /\ client' = [client EXCEPT ![c] = to]

LockStart(c) ==
  /\ ClientMoves(c, {"idle"}, "locked")
  /\ nbOfStartLocks < MaxNbOfLocks
  /\ nbOfStartLocks' = nbOfStartLocks + 1
  /\ UNCHANGED <<ttceVars, ctrlVars>>

ClientStops(c) ==
  /\ ClientMoves(c, {"locked"}, "checking")
  /\ \/ StopEffect
     \/ ctrl \notin {"starting", "running"} /\ UNCHANGED <<ttceVars, ctrl, panic>>
  /\ UNCHANGED <<attempts, remaining, wq, nbOfStartLocks>>

WaitUntilStopped(c) ==
  /\ \/ ctrl # "stopped" /\ ClientMoves(c, {"checking", "woken"}, "waiting")
     \/ ctrl = "stopped" /\ ClientMoves(c, {"checking", "woken"}, "holding")
  /\ UNCHANGED <<ttceVars, ctrlVars, nbOfStartLocks>>

UnlockStart(c) ==
  /\ ClientMoves(c, {"holding"}, "idle")
  /\ nbOfStartLocks' = nbOfStartLocks - 1
  /\ UNCHANGED <<ttceVars, ctrlVars>>

SpuriousWakeup(c) ==
  /\ ClientMoves(c, {"waiting"}, "woken")
  /\ UNCHANGED <<ttceVars, ctrlVars, nbOfStartLocks>>

(* The owner of the TTCE stops its thread in state stopped, as              *)
(* TriggeredThreadedCyclicExec.hpp recommends, and starts it again later.   *)
OwnerStopsThread ==
  /\ \E c \in Clients : client[c] = "holding"
  /\ StopThread
  /\ UNCHANGED <<ctrlVars, clientVars>>

TTCEStep ==
  \/ Cycle /\ UNCHANGED <<ctrlVars, clientVars>>
  \/ \E s \in States, r \in Reasons : OnTTCEStateChange(s, r)

QueueStep == OnRun_WQ \/ OnStop_WQ

OwnerStartsThread == StartThread /\ UNCHANGED <<ctrlVars, clientVars>>

Next ==
  \/ StartAsync \/ StopAsync \/ RefreshRemainingStartAttempts
  \/ \E n \in 0 .. MaxAttempts : SetRestartAttempts(n)
  \/ OwnerStartsThread \/ OwnerStopsThread
  \/ TTCEStep \/ QueueStep
  \/ \E c \in Clients : LockStart(c) \/ ClientStops(c) \/ WaitUntilStopped(c) \/ UnlockStart(c)
                        \/ SpuriousWakeup(c)

Spec == Init /\ [][Next]_vars

(* The trigger occurs or times out for ever, the queue works, the owner     *)
(* starts the thread again and does not always cancel it at once, waiting   *)
(* threads run when they are woken.                                         *)
FairSpec ==
  /\ Spec
  /\ SF_vars(TTCEStep) /\ WF_vars(QueueStep) /\ WF_vars(OwnerStartsThread)
  /\ \A c \in Clients : WF_vars(ClientStops(c)) /\ WF_vars(WaitUntilStopped(c))

-----------------------------------------------------------------------------
CtrlStates == {"stopped", "starting", "running", "stopPending", "stoppedStopPending"}

TypeOK ==
  /\ TTCETypeOK
  /\ ctrl \in CtrlStates
  /\ attempts \in 0 .. MaxAttempts /\ remaining \in 0 .. MaxAttempts
  /\ nbOfStartLocks = Cardinality({c \in Clients : client[c] # "idle"})
  /\ nbOfStartLocks <= MaxNbOfLocks
  /\ wq \in Seq({"stopped", "running"} \X Reasons)
  /\ client \in [Clients -> {"idle", "locked", "checking", "waiting", "woken", "holding"}]
  /\ panic \in BOOLEAN

(* "Stuff is under control at any time" (TTCEStartStopCtrl.hpp): no order  *)
(* of requests, reports and errors reaches a PANIC() of the controller or   *)
(* makes the TTCE refuse a request.                                         *)
NeverUnexpected == ~panic

(* The reports that are still on their way to the controller. *)
Pending(s) == \/ \E i \in 1 .. Len(wq) : wq[i][1] = s
              \/ \E i \in 1 .. Len(doing) : doing[i].call = "OnStateChange" /\ doing[i].state = s

(* When the controller is stopped, the TTCE is stopped, has no request, and *)
(* no report is on its way: the next start begins from scratch.             *)
StoppedIsQuiet ==
  ctrl = "stopped" => /\ state = "stopped" /\ asyncReqFlags = {}
                      /\ ~Pending("stopped") /\ ~Pending("running")

(* A client that has locked, stopped and waited holds sampling stopped      *)
(* until it unlocks: neither StartAsync nor an automatic restart gets       *)
(* between, and Sample() is not called.                                     *)
HeldStopped ==
  (\E c \in Clients : client[c] = "holding") =>
    ctrl = "stopped" /\ ~started /\ \A i \in 1 .. Len(doing) : doing[i].call # "Sample"

(* A stop that was accepted completes, and a client that waits with the     *)
(* start locked gets through.                                               *)
StopCompletes == ctrl \in {"stopPending", "stoppedStopPending"} ~> ctrl = "stopped"
WaitersReturn == \A c \in Clients : client[c] \in {"checking", "waiting"} ~> client[c] = "holding"
=============================================================================
