------------------- MODULE WorkQueueBasedRemoteAccessServer -------------------
(***************************************************************************)
(* gpcc::cood::WorkQueueBasedRemoteAccessServer: the derived class whose   *)
(* execution context is the thread of a deferred work queue, with the      *)
(* client, the user who starts and stops the server, and the two packages  *)
(* of the server in the queue.  Normal packages are executed in FIFO       *)
(* order, one at a time (DeferredWorkQueue!ImplementsExecutor).            *)
(*                                                                         *)
(* An action is the code executed with internalMutex locked; that mutex is *)
(* locked inside apiMutex if RequestWorkInvocationHook() is called.        *)
(***************************************************************************)
EXTENDS RemoteAccessServer

VARIABLES
  wqState,  \* the state of the derived class
  packages, \* normal packages in the queue: wp, and the one of Stop()'s flush
  dwp,      \* the deferred package is in the queue
  user      \* what the thread inside Stop() is doing

queueVars == <<wqState, packages, dwp, user>>
vars == <<serverVars, queueVars>>

Init ==
  /\ ServerInit
  /\ wqState = "Off"
  /\ packages = <<>>
  /\ dwp = FALSE
  /\ user = "none"

Contains(p) == \E i \in 1..Len(packages) : packages[i] = p

(* dwq.Add(wp) throws if wp is in the queue already. *)
AddFails == Contains("wp")

-----------------------------------------------------------------------------
(* Deviation: the state is not looked at. *)
RequestWorkInvocationHook_Always(hook) ==
  IF hook THEN /\ packages' = Append(packages, "wp")
               /\ wqState' = "InvocationRequested"
  ELSE UNCHANGED <<packages, wqState>>

RequestWorkInvocationHook(hook) ==
  IF hook /\ wqState = "On"
  THEN packages' = Append(packages, "wp") /\ wqState' = "InvocationRequested"
  ELSE UNCHANGED <<packages, wqState>>

(* A step of the base class in which the hook may be called *)
Invokes(hook) ==
  /\ RequestWorkInvocationHook(hook)
  /\ UNCHANGED <<dwp, user>>

Start ==
  /\ user = "none"
  /\ wqState = "Off" /\ ~AddFails
  /\ packages' = Append(packages, "wp")
  /\ wqState' = "Starting"
  /\ UNCHANGED <<serverVars, dwp, user>>

(* Stop() is called only if the server is running. *)
StopBegins ==
  /\ user = "none"
  /\ wqState # "Off"
  /\ wqState' = IF wqState = "Starting" THEN "Off" ELSE "Stopping"
  /\ IF wqState \in {"On", "RetryInvocation"}
     THEN packages' = Append(packages, "wp")
     ELSE UNCHANGED packages
  /\ dwp' = (dwp /\ wqState # "RetryInvocation")
  /\ panic' = (panic \/ wqState = "Stopping" \/
               (wqState \in {"On", "RetryInvocation"} /\ AddFails))
  /\ user' = "flush"
  /\ UNCHANGED <<state, pClient, queue, loanExecContextRequested, unregisterPending, thread,
                 serving, told>>

(* FlushNonDeferredWorkPackages *)
StopFlushes ==
  /\ user = "flush"
  /\ packages' = Append(packages, "flush")
  /\ user' = "flushing"
  /\ UNCHANGED <<serverVars, wqState, dwp>>

(* The sanity check of Stop() *)
StopReturns ==
  /\ user = "flushed"
  /\ user' = "none"
  /\ panic' = (panic \/ wqState # "Off")
  /\ UNCHANGED <<state, pClient, queue, loanExecContextRequested, unregisterPending, thread,
                 serving, told, wqState, packages, dwp>>

-----------------------------------------------------------------------------
(* The thread of the work queue: the first normal package, or the deferred *)
(* package when its time has come *)
Fetch ==
  /\ thread = "idle"
  /\ \E p \in {packages[i] : i \in 1..Len(packages) \cap {1}} \cup (IF dwp THEN {"dwp"} ELSE {}) :
       /\ packages' = IF p = "dwp" THEN packages ELSE Tail(packages)
       /\ dwp' = (dwp /\ p # "dwp")
       /\ thread' = IF p = "flush" THEN thread ELSE "entry"
       /\ user' = IF p = "flush" THEN "flushed" ELSE user
  /\ UNCHANGED <<state, pClient, queue, loanExecContextRequested, unregisterPending, serving,
                 told, panic, wqState>>

(* WQentry switches the state and calls the base class. *)
WQentry ==
  /\ thread = "entry"
  /\ wqState' = IF wqState \in {"Off", "Stopping"} THEN "Off" ELSE "On"
  /\ thread' = IF wqState = "Starting" THEN "start"
               ELSE IF wqState \in {"InvocationRequested", "RetryInvocation"} THEN "serve"
               ELSE IF wqState = "Stopping" THEN "stop"
               ELSE "idle"
  /\ panic' = (panic \/ wqState = "On")
  /\ UNCHANGED <<state, pClient, queue, loanExecContextRequested, unregisterPending, serving,
                 told, packages, dwp, user>>

(* The handler for std::bad_alloc in ServeRequest: a retry after a delay,  *)
(* if Work() will not be called anyway.                                    *)
HandleBadAlloc ==
  /\ thread = "failed" /\ thread' = "idle"
  /\ LET retry == wqState = "On"
     IN  /\ wqState' = IF retry THEN "RetryInvocation" ELSE wqState
         /\ dwp' = (dwp \/ retry)
  /\ panic' = (panic \/ wqState \notin {"Stopping", "InvocationRequested", "On"})
  /\ UNCHANGED <<state, pClient, queue, loanExecContextRequested, unregisterPending, serving,
                 told, packages, user>>

ExecutionContext ==
  \/ Fetch \/ WQentry \/ HandleBadAlloc
  \/ \E hook \in BOOLEAN : Work(hook) /\ Invokes(hook)
  \/ \E hook \in BOOLEAN : ServeFails(hook) /\ Invokes(hook)
  \/ OnStart /\ UNCHANGED queueVars
  \/ OnStop /\ UNCHANGED queueVars
  \/ OnReady /\ UNCHANGED queueVars
  \/ OnDisconnected /\ UNCHANGED queueVars
  \/ LoanExecutionContext /\ UNCHANGED queueVars
  \/ OnRequestProcessed /\ UNCHANGED queueVars

Client ==
  \/ \E c \in Clients, hook \in BOOLEAN : Register(c, hook) /\ Invokes(hook)
  \/ \E r \in Requests, hook \in BOOLEAN : Send(r, hook) /\ Invokes(hook)
  \/ \E hook \in BOOLEAN : RequestExecutionContext(hook) /\ Invokes(hook)
  \/ UnregisterBegins /\ UNCHANGED queueVars
  \/ Unregister /\ UNCHANGED queueVars

User == Start \/ StopBegins \/ StopFlushes \/ StopReturns

Next == ExecutionContext \/ Client \/ User

Spec == Init /\ [][Next]_vars

(* The thread of the work queue runs, whatever the client and the user do; *)
(* a call that has begun goes on.  There is memory for a response sooner   *)
(* or later.  Nobody is bound to call anything.                            *)
Fairness ==
  /\ WF_vars(ExecutionContext)
  /\ SF_vars(OnRequestProcessed /\ UNCHANGED queueVars)
  /\ WF_vars(Unregister /\ UNCHANGED queueVars)
  /\ WF_vars(StopFlushes) /\ WF_vars(StopReturns)

FairSpec == Spec /\ Fairness

-----------------------------------------------------------------------------
TypeOK ==
  /\ state \in {"UnregisteredAndOff", "UnregisteredAndIdle", "off", "justRegistered", "idle",
                "processing"}
  /\ pClient \in Clients \cup {None}
  /\ queue \in Seq(Requests)
  /\ loanExecContextRequested \in BOOLEAN
  /\ unregisterPending \in BOOLEAN
  /\ thread \in {"idle", "entry", "start", "serve", "stop", "failed"} \cup InCallback
  /\ serving \in Requests \cup {None}
  /\ told \in BOOLEAN /\ panic \in BOOLEAN
  /\ wqState \in {"Off", "Starting", "On", "InvocationRequested", "RetryInvocation", "Stopping"}
  /\ packages \in {<<>>, <<"wp">>, <<"flush">>, <<"wp", "flush">>}
  /\ dwp \in BOOLEAN
  /\ user \in {"none", "flush", "flushing", "flushed"}

(* No order of starts, stops, registrations, requests and failures reaches *)
(* a PANIC(): the two state machines, which are guarded by two mutexes,    *)
(* agree, wp is never added while it is in the queue, it is executed only  *)
(* in states that expect it, and Stop() finds the server off.              *)
NeverPanics ==
  /\ ~panic
  /\ \A i, j \in 1..Len(packages) : packages[i] = "wp" /\ packages[j] = "wp" => i = j

(* No lost invocation: while there is something to do for Work(), it will  *)
(* be invoked, although the hook is called only when the state changes, is *)
(* ignored in most states of the derived class, and Work() returns early   *)
(* and by exceptions.                                                      *)
SomethingToDo == state \in {"justRegistered", "processing"} \/ loanExecContextRequested
InvocationComing ==
  /\ wqState \in {"InvocationRequested", "RetryInvocation", "Stopping"}
  /\ thread = "entry" \/ Contains("wp") \/ dwp
NothingStranded ==
  SomethingToDo /\ ~unregisterPending => thread \in {"serve", "stop"} \/ InvocationComing

(* Every request that was accepted is answered or dropped, although Work() *)
(* serves one request per invocation and lends the execution context       *)
(* first: as long as that is not asked for for ever.  Unregister() gets    *)
(* the mutex even if the server never pauses and has a higher priority,    *)
(* because Work() steps aside: as long as the server is not started and    *)
(* stopped for ever.  Stop() returns.                                      *)
EverythingCompletes ==
  /\ <>[](~loanExecContextRequested) => \A r \in Requests : IsPending(r) ~> ~IsPending(r)
  /\ <>[](user = "none" /\ wqState # "Starting") => (unregisterPending ~> ~unregisterPending)
  /\ (user = "flush") ~> (user = "none")

(* What the client sees is a RODA/RODAN interface. *)
RODA == INSTANCE RemoteAccess WITH
  client <- pClient,
  ready <- state \in {"idle", "processing"},
  pending <- Pending,
  loan <- loanExecContextRequested
ImplementsRemoteAccess == RODA!Spec
=============================================================================
