-------------------------- MODULE RemoteAccessServer --------------------------
(***************************************************************************)
(* gpcc::cood::RemoteAccessServer: the base class of the remote access     *)
(* servers.  A client is registered with it and sends requests from any    *)
(* thread; a derived class calls OnStart(), Work() and OnStop() from its   *)
(* execution context, Work() after RequestWorkInvocationHook().            *)
(*                                                                         *)
(* An action is the code executed with apiMutex locked.  clientMutex is    *)
(* locked as long as the execution context is inside OnStart(), Work() or  *)
(* OnStop(): that is while thread is in InCallback.  The parameter hook of *)
(* an action tells whether it calls RequestWorkInvocationHook().           *)
(***************************************************************************)
EXTENDS Naturals, Sequences

CONSTANTS Clients,   \* the notifiable interfaces
          Requests,  \* request objects; one that was sent belongs to the server
          None

ASSUME NoneAssumption == None \notin Clients /\ None \notin Requests

VARIABLES
  state,                    \* the state of the server
  pClient,                  \* the client that is registered
  queue,                    \* incoming requests
  loanExecContextRequested,
  unregisterPending,        \* a thread has entered Unregister()
  thread,                   \* where the thread of the execution context is
  serving,                  \* pRequestToBeProcessed
  told,      \* auxiliary: OnReady() was called later than OnDisconnected()
  panic      \* a PANIC() has been reached, or an exception that leads to it;
             \* what a step does besides is then without meaning

serverVars == <<state, pClient, queue, loanExecContextRequested, unregisterPending,
                thread, serving, told, panic>>

InCallback == {"onReady", "lend", "process", "onDisconnected"}
ClientMutexFree == thread \notin InCallback

(* The requests that are neither answered nor dropped, in order *)
Pending == (IF thread = "process" THEN <<serving>> ELSE <<>>) \o queue
IsPending(r) == \E i \in 1..Len(Pending) : Pending[i] = r

ServerInit ==
  /\ state = "UnregisteredAndOff"
  /\ pClient = None
  /\ queue = <<>>
  /\ loanExecContextRequested = FALSE
  /\ unregisterPending = FALSE
  /\ thread = "idle"
  /\ serving = None
  /\ told = FALSE
  /\ panic = FALSE

-----------------------------------------------------------------------------
(* The RODA interface, called by the client from any thread *)

Register(c, hook) ==
  /\ ClientMutexFree
  /\ pClient = None
  /\ hook = (state = "UnregisteredAndIdle")
  /\ state' = IF state = "UnregisteredAndOff" THEN "off" ELSE "justRegistered"
  /\ panic' = (panic \/ state \notin {"UnregisteredAndOff", "UnregisteredAndIdle"})
  /\ pClient' = c
  /\ UNCHANGED <<queue, loanExecContextRequested, unregisterPending, thread, serving, told>>

(* Unregister() is executed by one thread only: the flag is set, ... *)
UnregisterBegins ==
  /\ ~unregisterPending
  /\ unregisterPending' = TRUE
  /\ UNCHANGED <<state, pClient, queue, loanExecContextRequested, thread, serving, told, panic>>

(* ... the mutexes are locked, a client that is registered is removed. *)
Unregister ==
  /\ unregisterPending
  /\ ClientMutexFree
  /\ unregisterPending' = FALSE
  /\ IF pClient = None
     THEN UNCHANGED <<state, pClient, queue, loanExecContextRequested, told, panic>>
     ELSE /\ state' = IF state = "off" THEN "UnregisteredAndOff" ELSE "UnregisteredAndIdle"
          /\ panic' = (panic \/ state \in {"UnregisteredAndOff", "UnregisteredAndIdle"})
          /\ pClient' = None
          /\ queue' = <<>> /\ loanExecContextRequested' = FALSE
          /\ told' = FALSE
  /\ UNCHANGED <<thread, serving>>

Send(r, hook) ==
  /\ state \in {"idle", "processing"}
  /\ ~IsPending(r)
  /\ hook = (state = "idle")
  /\ queue' = Append(queue, r)
  /\ state' = "processing"
  /\ UNCHANGED <<pClient, loanExecContextRequested, unregisterPending, thread, serving, told, panic>>

RequestExecutionContext(hook) ==
  /\ state \in {"idle", "processing"}
  /\ hook = (state = "idle")
  /\ loanExecContextRequested' = TRUE
  /\ UNCHANGED <<state, pClient, queue, unregisterPending, thread, serving, told, panic>>

-----------------------------------------------------------------------------
(* The execution context *)

(* A callback of the client has returned. *)
Returns(from) == thread = from /\ thread' = "idle"

OnStart ==
  /\ thread = "start"
  /\ \/ /\ state # "off"
        /\ panic' = (panic \/ state # "UnregisteredAndOff")
        /\ state' = "UnregisteredAndIdle"
        /\ thread' = "idle"
     \/ /\ state = "off"
        /\ state' = "idle"
        /\ thread' = "onReady"
        /\ UNCHANGED panic
  /\ UNCHANGED <<pClient, queue, loanExecContextRequested, unregisterPending, serving, told>>

(* OnReady(), called by OnStart() and Work() *)
OnReady ==
  /\ Returns("onReady")
  /\ told' = TRUE
  /\ UNCHANGED <<state, pClient, queue, loanExecContextRequested, unregisterPending, serving, panic>>

(* Work() does one thing: it tells a new client that the server is ready,  *)
(* or lends the execution context, or takes a request out of the queue.    *)
WorkTellsReady(hook) ==
  /\ state = "justRegistered"
  /\ hook = FALSE
  /\ panic' = (panic \/ queue # <<>> \/ loanExecContextRequested)
  /\ state' = "idle"
  /\ thread' = "onReady"
  /\ UNCHANGED <<queue, loanExecContextRequested, serving>>

WorkLends(hook) ==
  /\ state # "justRegistered" /\ loanExecContextRequested
  /\ hook = (state = "processing")
  /\ loanExecContextRequested' = FALSE
  /\ thread' = "lend"
  /\ UNCHANGED <<state, queue, serving, panic>>

(* Deviation: the next invocation is not requested. *)
WorkTakesRequest_NoHook(hook) ==
  /\ state = "processing" /\ ~loanExecContextRequested
  /\ queue # <<>>
  /\ hook = FALSE
  /\ serving' = Head(queue) /\ queue' = Tail(queue)
  /\ state' = IF Tail(queue) = <<>> THEN "idle" ELSE state
  /\ thread' = "process"
  /\ UNCHANGED <<loanExecContextRequested, panic>>

WorkTakesRequest(hook) ==
  /\ state = "processing" /\ ~loanExecContextRequested
  /\ IF queue = <<>>
     THEN /\ panic' = TRUE /\ hook = FALSE
          /\ UNCHANGED <<serving, queue, state, thread>>
     ELSE /\ hook = (Len(queue) > 1)
          /\ serving' = Head(queue) /\ queue' = Tail(queue)
          /\ state' = IF Tail(queue) = <<>> THEN "idle" ELSE state
          /\ thread' = "process"
          /\ UNCHANGED panic
  /\ UNCHANGED loanExecContextRequested

WorkIsSpurious(hook) ==
  /\ state \notin {"justRegistered", "processing"} /\ ~loanExecContextRequested
  /\ hook = FALSE
  /\ thread' = "idle"
  /\ UNCHANGED <<state, queue, loanExecContextRequested, serving, panic>>

(* Deviation: Work() goes on although a thread waits in Unregister(). *)
Work_IgnoresUnregister(hook) ==
  /\ thread = "serve"
  /\ IF pClient = None
     THEN /\ hook = FALSE
          /\ thread' = "idle"
          /\ UNCHANGED <<state, queue, loanExecContextRequested, serving, panic>>
     ELSE \/ WorkTellsReady(hook)
          \/ WorkLends(hook)
          \/ WorkTakesRequest(hook)
          \/ WorkIsSpurious(hook)
  /\ UNCHANGED <<pClient, unregisterPending, told>>

Work(hook) ==
  /\ thread = "serve"
  /\ IF unregisterPending \/ pClient = None
     THEN /\ hook = FALSE
          /\ thread' = "idle"
          /\ panic' = (panic \/ (~unregisterPending /\
                                 state \notin {"UnregisteredAndOff", "UnregisteredAndIdle"}))
          /\ UNCHANGED <<state, queue, loanExecContextRequested, serving>>
     ELSE \/ WorkTellsReady(hook)
          \/ WorkLends(hook)
          \/ WorkTakesRequest(hook)
          \/ WorkIsSpurious(hook)
  /\ UNCHANGED <<pClient, unregisterPending, told>>

LoanExecutionContext ==
  /\ Returns("lend")
  /\ UNCHANGED <<state, pClient, queue, loanExecContextRequested, unregisterPending, serving,
                 told, panic>>

(* ServeRequest() calls OnRequestProcessed() with the response. *)
OnRequestProcessed ==
  /\ Returns("process")
  /\ serving' = None
  /\ UNCHANGED <<state, pClient, queue, loanExecContextRequested, unregisterPending, told, panic>>

(* Deviation: the request goes to the end of the queue. *)
ServeFails_ToTheEnd(hook) ==
  /\ thread = "process" /\ thread' = "failed"
  /\ hook = (queue = <<>>)
  /\ state' = IF queue = <<>> THEN "processing" ELSE state
  /\ queue' = Append(queue, serving)
  /\ serving' = None
  /\ UNCHANGED <<pClient, loanExecContextRequested, unregisterPending, told, panic>>

(* No memory for the response: std::bad_alloc leaves Work(), the request   *)
(* goes back into the queue (undoQueuePop).                                *)
ServeFails(hook) ==
  /\ thread = "process" /\ thread' = "failed"
  /\ hook = (queue = <<>>)
  /\ state' = IF queue = <<>> THEN "processing" ELSE state
  /\ queue' = <<serving>> \o queue
  /\ serving' = None
  /\ UNCHANGED <<pClient, loanExecContextRequested, unregisterPending, told, panic>>

OnStop ==
  /\ thread = "stop"
  /\ \/ /\ state \notin {"idle", "processing"}
        /\ panic' = (panic \/ state \in {"UnregisteredAndOff", "off"})
        /\ state' = IF state = "justRegistered" THEN "off" ELSE "UnregisteredAndOff"
        /\ thread' = "idle"
        /\ UNCHANGED <<queue, loanExecContextRequested>>
     \/ /\ state \in {"idle", "processing"}
        /\ panic' = (panic \/ (state = "idle" /\ queue # <<>>))
        /\ state' = "off"
        /\ queue' = <<>> /\ loanExecContextRequested' = FALSE
        /\ thread' = "onDisconnected"
  /\ UNCHANGED <<pClient, unregisterPending, serving, told>>

OnDisconnected ==
  /\ Returns("onDisconnected")
  /\ told' = FALSE
  /\ UNCHANGED <<state, pClient, queue, loanExecContextRequested, unregisterPending, serving, panic>>
=============================================================================
