----------------------- MODULE RemoteAccessServer_proofs -----------------------
(***************************************************************************)
(* Proofs about WorkQueueBasedRemoteAccessServer for any clients and       *)
(* requests: no panic is reached, no invocation of Work() is lost, and     *)
(* the client sees a RODA/RODAN interface.                                 *)
(*                                                                         *)
(* The invariant relates three things that no mutex protects together: the *)
(* state of the base class (apiMutex), the state of the derived class      *)
(* (internalMutex), and the places of the package wp and of the thread.    *)
(***************************************************************************)
EXTENDS WorkQueueBasedRemoteAccessServer, SequenceTheorems, TLAPS

(* The normal packages in the queue *)
Shapes == {<<>>, <<"wp">>, <<"flush">>, <<"wp", "flush">>}
WpQueued == packages \in {<<"wp">>, <<"wp", "flush">>}
FlushQueued == packages \in {<<"flush">>, <<"wp", "flush">>}

Ready == state \in {"idle", "processing"}
ServesClient == {"onReady", "lend", "process", "failed"}

(* The base class has been started and not yet stopped. *)
Up ==
  \/ wqState \in {"On", "InvocationRequested", "Stopping"} /\ thread # "start"
  \/ thread = "stop"

(* The derived class and its packages.  The thread is about to execute wp, *)
(* or wp is in the queue, exactly in the three states that wait for it;    *)
(* except for a server that was stopped before it has started, until the   *)
(* queue is flushed.                                                       *)
WpPlace ==
  /\ ~(WpQueued /\ thread = "entry")
  /\ wqState \in {"Starting", "InvocationRequested", "Stopping"} => WpQueued \/ thread = "entry"
  /\ wqState = "On" => ~WpQueued /\ thread # "entry"
  /\ wqState = "Starting" => thread \in {"idle", "entry"}
  /\ wqState = "Off" /\ (WpQueued \/ thread = "entry") => user \in {"flush", "flushing"}

StopPhases ==
  /\ wqState = "Stopping" => user \in {"flush", "flushing"}
  /\ user \in {"flush", "flushing"} => wqState \in {"Off", "Stopping"}
  /\ user = "flushing" <=> FlushQueued
  /\ user = "flushed" => wqState = "Off" /\ packages = <<>> /\ thread = "idle"
  /\ user = "none" /\ wqState = "Off" => packages = <<>> /\ thread = "idle"

(* Where the thread may be in which state of the derived class *)
ThreadPlace ==
  /\ thread = "start" => wqState \in {"On", "Stopping"}
  /\ thread \in {"serve", "onReady", "lend", "process", "failed"} =>
       wqState \in {"On", "InvocationRequested", "Stopping"}
  /\ thread \in {"stop", "onDisconnected"} => wqState = "Off"
  /\ wqState = "Off" => thread \in {"idle", "entry", "stop", "onDisconnected"}

(* The base class *)
BaseState ==
  /\ Up <=> state \notin {"UnregisteredAndOff", "off"}
  /\ (pClient = None) <=> state \in {"UnregisteredAndOff", "UnregisteredAndIdle"}
  /\ (queue = <<>>) <=> state # "processing"
  /\ loanExecContextRequested => Ready
  /\ thread \in {"onReady", "lend", "process"} => Ready
  /\ thread = "onDisconnected" => state = "off"
  /\ told <=> (Ready /\ thread # "onReady") \/ thread = "onDisconnected"
  /\ (serving # None) <=> thread = "process"

(* NothingStranded, and more than it as long as the thread is on its way   *)
(* out of Work(): then the invocation is asked for even if a thread waits  *)
(* in Unregister().                                                        *)
Invoked ==
  SomethingToDo /\ (~unregisterPending \/ thread \in ServesClient) =>
    thread \in {"serve", "stop"} \/ wqState \in {"InvocationRequested", "Stopping"}
FailedIsInvoked == thread = "failed" => wqState \in {"InvocationRequested", "Stopping"}

NoRetry == dwp = FALSE /\ wqState # "RetryInvocation"

IInv ==
  /\ TypeOK
  /\ panic = FALSE
  /\ NoRetry
  /\ WpPlace /\ StopPhases /\ ThreadPlace
  /\ BaseState
  /\ Invoked /\ FailedIsInvoked
-----------------------------------------------------------------------------
(* Facts about sequences *)

(* The four shapes differ. *)
LEMMA ShapesDiffer ==
  /\ <<>> # <<"wp">> /\ <<>> # <<"flush">> /\ <<>> # <<"wp", "flush">>
  /\ <<"wp">> # <<"flush">> /\ <<"wp">> # <<"wp", "flush">> /\ <<"flush">> # <<"wp", "flush">>
<1>1. <<>> # <<"wp">> /\ <<>> # <<"flush">> /\ <<>> # <<"wp", "flush">>
  OBVIOUS
<1>2. <<"wp">> # <<"flush">>
  <2>1. <<"wp">>[1] = "wp" /\ <<"flush">>[1] = "flush"
    OBVIOUS
  <2> QED
    BY <2>1
<1>3. Len(<<"wp">>) = 1 /\ Len(<<"flush">>) = 1 /\ Len(<<"wp", "flush">>) = 2
  OBVIOUS
<1> QED
  BY <1>1, <1>2, <1>3

(* A sequence of one element becomes a pair. *)
LEMMA AppendToOne == \A x, y : Append(<<x>>, y) = <<x, y>>
<1> SUFFICES ASSUME NEW x, NEW y PROVE Append(<<x>>, y) = <<x, y>>
  OBVIOUS
<1> DEFINE S == {x, y}
           a == Append(<<x>>, y)
           b == <<x, y>>
<1>1. <<x>> \in Seq(S) /\ y \in S /\ Len(<<x>>) = 1 /\ <<x>>[1] = x
  OBVIOUS
<1>2. a \in Seq(S) /\ Len(a) = 1 + 1 /\ a[1] = x /\ a[2] = y
  <2> HIDE DEF S
  <2>1. Append(<<x>>, y) \in Seq(S) /\ Len(Append(<<x>>, y)) = Len(<<x>>) + 1
    BY <1>1, AppendProperties
  <2>2. /\ \A i \in 1..Len(<<x>>) : Append(<<x>>, y)[i] = <<x>>[i]
        /\ Append(<<x>>, y)[Len(<<x>>) + 1] = y
    BY <1>1, AppendProperties
  <2> QED
    BY <1>1, <2>1, <2>2
<1>3. b \in Seq(S) /\ Len(b) = 2 /\ b[1] = x /\ b[2] = y
  OBVIOUS
<1>4. \A i \in 1..2 : i = 1 \/ i = 2
  OBVIOUS
<1> HIDE DEF S, a, b
<1>5. Len(a) = Len(b) /\ \A i \in 1..Len(a) : a[i] = b[i]
  BY <1>2, <1>3, <1>4
<1>6. a = b
  BY <1>2, <1>3, <1>5, SeqEqual
<1> QED
  BY <1>6 DEF a, b

(* What Add() and the thread of the queue make of a shape *)
LEMMA ShapesChange ==
  /\ Append(<<>>, "wp") = <<"wp">>
  /\ Append(<<>>, "flush") = <<"flush">>
  /\ Append(<<"wp">>, "flush") = <<"wp", "flush">>
  /\ Tail(<<"wp">>) = <<>> /\ Tail(<<"flush">>) = <<>>
  /\ Tail(<<"wp", "flush">>) = <<"flush">>
<1>1. Append(<<>>, "wp") = <<"wp">>
  OBVIOUS
<1>2. Append(<<>>, "flush") = <<"flush">>
  OBVIOUS
<1>3. Append(<<"wp">>, "flush") = <<"wp", "flush">>
  BY AppendToOne
<1>4. Tail(<<"wp">>) = <<>> /\ Tail(<<"flush">>) = <<>>
  OBVIOUS
<1>5. Tail(<<"wp", "flush">>) = <<"flush">>
  OBVIOUS
<1> QED
  BY <1>1, <1>2, <1>3, <1>4, <1>5

(* wp is looked for in the queue. *)
LEMMA ContainsWp == packages \in Shapes => (Contains("wp") <=> WpQueued)
<1> SUFFICES ASSUME packages \in Shapes PROVE Contains("wp") <=> WpQueued
  OBVIOUS
<1>1. CASE packages = <<>>
  BY <1>1, ShapesDiffer DEF Contains, WpQueued
<1>2. CASE packages = <<"flush">>
  BY <1>2, ShapesDiffer DEF Contains, WpQueued
<1>3. CASE packages = <<"wp">>
  <2>1. 1 \in 1..Len(packages) /\ packages[1] = "wp"
    BY <1>3
  <2> QED
    BY <2>1, <1>3 DEF Contains, WpQueued
<1>4. CASE packages = <<"wp", "flush">>
  <2>1. 1 \in 1..Len(packages) /\ packages[1] = "wp"
    BY <1>4
  <2> QED
    BY <2>1, <1>4 DEF Contains, WpQueued
<1> QED
  BY <1>1, <1>2, <1>3, <1>4 DEF Shapes

(* A queue of requests at which one is added or taken, at either end *)
LEMMA QueueGrows ==
  ASSUME NEW S, NEW q \in Seq(S), NEW r \in S
  PROVE  /\ Append(q, r) \in Seq(S) /\ Append(q, r) # <<>>
         /\ <<r>> \o q \in Seq(S) /\ <<r>> \o q # <<>>
<1>1. Append(q, r) \in Seq(S) /\ Append(q, r) # <<>>
  <2>1. Append(q, r) \in Seq(S) /\ Len(Append(q, r)) = Len(q) + 1
    OBVIOUS
  <2>2. Len(q) \in Nat /\ Len(<<>>) = 0
    OBVIOUS
  <2>3. Append(q, r) # <<>>
    BY <2>1, <2>2
  <2> QED
    BY <2>1, <2>3
<1>2. <<r>> \in Seq(S)
  OBVIOUS
<1>3. <<r>> \o q \in Seq(S) /\ Len(<<r>> \o q) = 1 + Len(q)
  BY <1>2
<1> QED
  BY <1>1, <1>3

LEMMA QueueShrinks ==
  ASSUME NEW S, NEW q \in Seq(S), q # <<>>
  PROVE  /\ Head(q) \in S /\ Tail(q) \in Seq(S)
         /\ (Len(q) > 1) = (Tail(q) # <<>>)
         /\ <<Head(q)>> \o Tail(q) = q
<1>1. Len(q) \in Nat /\ Len(q) # 0
  OBVIOUS
<1>2. Head(q) \in S /\ Tail(q) \in Seq(S) /\ Len(Tail(q)) = Len(q) - 1
  BY <1>1
<1>3. (Len(q) > 1) = (Tail(q) # <<>>)
  BY <1>1, <1>2
<1>4. <<Head(q)>> \o Tail(q) = q
  BY <1>1, <1>2
<1> QED
  BY <1>2, <1>3, <1>4

LEMMA AppendBehind ==
  ASSUME NEW S, NEW q \in Seq(S), NEW x \in S, NEW r \in S
  PROVE  /\ Append(<<x>> \o q, r) = <<x>> \o Append(q, r)
         /\ Tail(<<x>> \o q) = q
<1>1. <<x>> \in Seq(S) /\ <<x>> \o q \in Seq(S) /\ Append(q, r) \in Seq(S)
  OBVIOUS
<1>2. Append(<<x>> \o q, r) = <<x>> \o Append(q, r)
  BY <1>1
<1>3. Tail(<<x>> \o q) = q
  BY <1>1
<1> QED
  BY <1>2, <1>3
-----------------------------------------------------------------------------
(* The invariant holds at first: the server is off, no client registered. *)
LEMMA InitEstablishesIInv == Init => IInv
<1> SUFFICES ASSUME Init PROVE IInv
  OBVIOUS
<1>1. TypeOK
  <2>1. queue \in Seq(Requests) /\ packages \in {<<>>, <<"wp">>, <<"flush">>, <<"wp", "flush">>}
    BY DEF Init, ServerInit
  <2> QED
    BY <2>1 DEF Init, ServerInit, TypeOK, InCallback
<1>2. ~WpQueued /\ ~FlushQueued
  BY ShapesDiffer DEF Init, WpQueued, FlushQueued
<1>3. panic = FALSE
  BY DEF Init, ServerInit
<1>4. NoRetry
  BY DEF Init, NoRetry
<1>5. WpPlace
  BY <1>2 DEF Init, ServerInit, WpPlace
<1>6. StopPhases
  BY <1>2 DEF Init, ServerInit, StopPhases
<1>7. ThreadPlace
  BY DEF Init, ServerInit, ThreadPlace
<1>8. BaseState
  BY NoneAssumption DEF Init, ServerInit, BaseState, Up, Ready
<1>9. Invoked /\ FailedIsInvoked
  BY DEF Init, ServerInit, Invoked, FailedIsInvoked, SomethingToDo, ServesClient
<1> QED
  BY <1>1, <1>3, <1>4, <1>5, <1>6, <1>7, <1>8, <1>9 DEF IInv

(* The parts of the invariant about the derived class ... *)
QueueInv ==
  /\ packages \in Shapes
  /\ wqState \in {"Off", "Starting", "On", "InvocationRequested", "RetryInvocation", "Stopping"}
  /\ user \in {"none", "flush", "flushing", "flushed"}
  /\ NoRetry
  /\ WpPlace /\ StopPhases /\ ThreadPlace

(* ... and about the base class *)
BaseInv ==
  /\ state \in {"UnregisteredAndOff", "UnregisteredAndIdle", "off", "justRegistered", "idle",
                "processing"}
  /\ pClient \in Clients \cup {None}
  /\ queue \in Seq(Requests)
  /\ loanExecContextRequested \in BOOLEAN
  /\ unregisterPending \in BOOLEAN
  /\ thread \in {"idle", "entry", "start", "serve", "stop", "failed"} \cup InCallback
  /\ serving \in Requests \cup {None}
  /\ told \in BOOLEAN
  /\ panic = FALSE
  /\ BaseState
  /\ Invoked /\ FailedIsInvoked

LEMMA TwoParts == IInv <=> QueueInv /\ BaseInv
<1>1. IInv => QueueInv
  BY DEF IInv, QueueInv, TypeOK, Shapes
<1>2. IInv => BaseInv
  BY DEF IInv, BaseInv, TypeOK
<1>3. QueueInv /\ BaseInv => TypeOK
  <2>1. NoRetry => dwp \in BOOLEAN
    BY DEF NoRetry
  <2>2. panic = FALSE => panic \in BOOLEAN
    OBVIOUS
  <2> QED
    BY <2>1, <2>2 DEF QueueInv, BaseInv, TypeOK, Shapes
<1>4. QueueInv /\ BaseInv => IInv
  BY <1>3 DEF IInv, QueueInv, BaseInv
<1> QED
  BY <1>1, <1>2, <1>4

LEMMA TwoPartsNext == QueueInv' /\ BaseInv' => IInv'
<1>1. QueueInv' /\ BaseInv' => TypeOK'
  <2>1. NoRetry' => dwp' \in BOOLEAN
    BY DEF NoRetry
  <2>2. (panic = FALSE)' => panic' \in BOOLEAN
    OBVIOUS
  <2> QED
    BY <2>1, <2>2 DEF QueueInv, BaseInv, TypeOK, Shapes
<1> QED
  BY <1>1 DEF IInv, QueueInv, BaseInv

(* A thread that is in the queue's code executes nothing else. *)
HookThreads ==
  \/ thread' = thread
  \/ thread \in {"serve", "process"} /\ thread' \in {"idle", "onReady", "lend", "process", "failed"}

(* What RequestWorkInvocationHook() does: if the server is on, wp is not   *)
(* in the queue, nobody stops the server, and wp gets there.               *)
LEMMA HookEffect ==
  ASSUME QueueInv, NEW hook \in BOOLEAN, Invokes(hook)
  PROVE  \/ /\ hook /\ wqState = "On"
            /\ packages = <<>> /\ packages' = <<"wp">>
            /\ wqState' = "InvocationRequested"
            /\ UNCHANGED <<dwp, user>>
         \/ ~(hook /\ wqState = "On") /\ UNCHANGED queueVars
<1>1. CASE hook /\ wqState = "On"
  <2>1. ~WpQueued /\ ~FlushQueued
    BY <1>1 DEF QueueInv, WpPlace, StopPhases
  <2>2. packages = <<>>
    BY <2>1 DEF QueueInv, Shapes, WpQueued, FlushQueued
  <2>3. packages' = Append(packages, "wp") /\ wqState' = "InvocationRequested"
    BY <1>1 DEF Invokes, RequestWorkInvocationHook
  <2> QED
    BY <1>1, <2>2, <2>3, ShapesChange DEF Invokes
<1>2. CASE ~(hook /\ wqState = "On")
  BY <1>2 DEF Invokes, RequestWorkInvocationHook, queueVars
<1> QED
  BY <1>1, <1>2

LEMMA HookKeepsQueueInv ==
  ASSUME QueueInv, NEW hook \in BOOLEAN, Invokes(hook), HookThreads, hook => thread # "start"
  PROVE  QueueInv'
<1>1. CASE /\ hook /\ wqState = "On" /\ packages = <<>> /\ packages' = <<"wp">>
           /\ wqState' = "InvocationRequested" /\ UNCHANGED <<dwp, user>>
  <2>1. WpQueued' /\ ~FlushQueued' /\ ~FlushQueued
    BY <1>1, ShapesDiffer DEF WpQueued, FlushQueued
  <2>2. packages' \in Shapes
    BY <1>1 DEF Shapes
  <2>3. NoRetry'
    BY <1>1 DEF QueueInv, NoRetry
  <2>4. WpPlace'
    BY <1>1, <2>1 DEF QueueInv, WpPlace, HookThreads
  <2>5. StopPhases'
    BY <1>1, <2>1 DEF QueueInv, StopPhases, HookThreads
  <2>6. ThreadPlace'
    BY <1>1 DEF QueueInv, ThreadPlace, HookThreads
  <2> QED
    BY <1>1, <2>2, <2>3, <2>4, <2>5, <2>6 DEF QueueInv
<1>2. CASE UNCHANGED queueVars
  <2>0. packages' = packages /\ wqState' = wqState /\ user' = user /\ dwp' = dwp
    BY <1>2 DEF queueVars
  <2>1. (WpQueued' <=> WpQueued) /\ (FlushQueued' <=> FlushQueued)
    BY <2>0 DEF WpQueued, FlushQueued
  <2>2. NoRetry'
    BY <2>0 DEF QueueInv, NoRetry
  <2>3. WpPlace'
    BY <2>0, <2>1 DEF QueueInv, WpPlace, HookThreads, ThreadPlace
  <2>4. StopPhases'
    BY <2>0, <2>1 DEF QueueInv, StopPhases, HookThreads, ThreadPlace
  <2>5. ThreadPlace'
    <3>1. CASE thread' = thread
      BY <2>0, <3>1 DEF QueueInv, ThreadPlace
    <3>2. CASE thread \in {"serve", "process"}
      BY <2>0, <3>2 DEF QueueInv, ThreadPlace, HookThreads
    <3> QED
      BY <3>1, <3>2 DEF HookThreads
  <2> QED
    BY <2>0, <2>2, <2>3, <2>4, <2>5 DEF QueueInv
<1> QED
  BY <1>1, <1>2, HookEffect
(* A step of the base class that leaves the derived class alone *)
BaseThreads ==
  \/ thread' = thread
  \/ thread \in {"start", "onReady", "lend", "process"} /\ thread' \in {"idle", "onReady"}
  \/ thread \in {"stop", "onDisconnected"} /\ thread' \in {"idle", "onDisconnected"}

LEMMA BaseKeepsQueueInv ==
  ASSUME QueueInv, UNCHANGED queueVars, BaseThreads
  PROVE  QueueInv'
<1>1. packages' = packages /\ wqState' = wqState /\ user' = user /\ dwp' = dwp
  BY DEF queueVars
<1>2. (WpQueued' <=> WpQueued) /\ (FlushQueued' <=> FlushQueued)
  BY <1>1 DEF WpQueued, FlushQueued
<1>3. NoRetry'
  BY <1>1 DEF QueueInv, NoRetry
<1>4. WpPlace'
  BY <1>1, <1>2 DEF QueueInv, WpPlace, BaseThreads, ThreadPlace
<1>5. StopPhases'
  BY <1>1, <1>2 DEF QueueInv, StopPhases, BaseThreads, ThreadPlace
<1>6. ThreadPlace'
  <2>1. CASE thread' = thread
    BY <1>1, <2>1 DEF QueueInv, ThreadPlace
  <2>2. CASE thread \in {"start", "onReady", "lend", "process"} /\ thread' \in {"idle", "onReady"}
    BY <1>1, <2>2 DEF QueueInv, ThreadPlace
  <2>3. CASE thread \in {"stop", "onDisconnected"} /\ thread' \in {"idle", "onDisconnected"}
    BY <1>1, <2>3 DEF QueueInv, ThreadPlace
  <2> QED
    BY <2>1, <2>2, <2>3 DEF BaseThreads
<1> QED
  BY <1>1, <1>3, <1>4, <1>5, <1>6 DEF QueueInv

(* What the base class may rely on when it calls the hook: it cannot tell  *)
(* a server that is on from one for which an invocation is requested, and  *)
(* afterwards an invocation or OnStop() is to come.                        *)
IsUp == {"On", "InvocationRequested", "Stopping"}
IsInvoked == {"InvocationRequested", "Stopping"}

LEMMA HookInvokes ==
  ASSUME QueueInv, NEW hook \in BOOLEAN, Invokes(hook)
  PROVE  /\ wqState \in IsUp <=> wqState' \in IsUp
         /\ wqState \in IsInvoked => wqState' \in IsInvoked
         /\ hook /\ wqState \in IsUp => wqState' \in IsInvoked
<1>1. \/ hook /\ wqState = "On" /\ wqState' = "InvocationRequested"
      \/ ~(hook /\ wqState = "On") /\ wqState' = wqState
  BY HookEffect DEF queueVars
<1> QED
  BY <1>1 DEF IsUp, IsInvoked

-----------------------------------------------------------------------------
(* The steps of the client *)

LEMMA RegisterStep ==
  ASSUME QueueInv, BaseInv, NEW c \in Clients, NEW hook \in BOOLEAN,
         Register(c, hook), Invokes(hook)
  PROVE  QueueInv' /\ BaseInv'
<1>1. state \in {"UnregisteredAndOff", "UnregisteredAndIdle"} /\ thread' = thread
  BY DEF Register, BaseInv, BaseState
<1>2. hook => (wqState \in IsUp /\ thread # "start") \/ thread = "stop"
  BY DEF Register, BaseInv, BaseState, Up, IsUp
<1>3. QueueInv'
  BY <1>1, <1>2, HookKeepsQueueInv DEF HookThreads
<1>4. /\ wqState \in IsUp <=> wqState' \in IsUp
      /\ wqState \in IsInvoked => wqState' \in IsInvoked
      /\ hook /\ wqState \in IsUp => wqState' \in IsInvoked
  BY HookInvokes
<1>5. BaseState'
  <2>1. Up' <=> Up
    BY <1>1, <1>4 DEF Up, IsUp
  <2>2. (state = "UnregisteredAndOff" /\ state' = "off" /\ ~Up)
        \/ (state = "UnregisteredAndIdle" /\ state' = "justRegistered" /\ Up)
    BY <1>1 DEF Register, BaseInv, BaseState
  <2>3. pClient' # None
    BY NoneAssumption DEF Register
  <2> QED
    BY <1>1, <2>1, <2>2, <2>3 DEF Register, BaseInv, BaseState, Ready, ClientMutexFree, InCallback
<1>6. Invoked'
  BY <1>1, <1>2, <1>4 DEF Register, BaseInv, BaseState, Invoked, SomethingToDo, ServesClient,
                          IsInvoked, Ready
<1>7. FailedIsInvoked'
  BY <1>1, <1>4 DEF BaseInv, FailedIsInvoked, IsInvoked
<1> QED
  BY <1>1, <1>3, <1>5, <1>6, <1>7 DEF BaseInv, Register

LEMMA SendStep ==
  ASSUME QueueInv, BaseInv, NEW r \in Requests, NEW hook \in BOOLEAN,
         Send(r, hook), Invokes(hook)
  PROVE  QueueInv' /\ BaseInv'
<1>1. Ready /\ thread' = thread
  BY DEF Send, Ready
<1>2. (wqState \in IsUp /\ thread # "start") \/ thread = "stop"
  BY <1>1 DEF Ready, BaseInv, BaseState, Up, IsUp
<1>3. QueueInv'
  BY <1>1, <1>2, HookKeepsQueueInv DEF HookThreads
<1>4. /\ wqState \in IsUp <=> wqState' \in IsUp
      /\ wqState \in IsInvoked => wqState' \in IsInvoked
      /\ hook /\ wqState \in IsUp => wqState' \in IsInvoked
  BY HookInvokes
<1>5. queue' \in Seq(Requests) /\ queue' # <<>>
  BY QueueGrows DEF Send, BaseInv
<1>6. BaseState'
  <2>1. Up' <=> Up
    BY <1>1, <1>4 DEF Up, IsUp
  <2> QED
    BY <1>1, <1>5, <2>1 DEF Send, BaseInv, BaseState, Ready
<1>7. Invoked'
  BY <1>1, <1>2, <1>4 DEF Send, BaseInv, Invoked, SomethingToDo, IsInvoked
<1>8. FailedIsInvoked'
  BY <1>1, <1>4 DEF BaseInv, FailedIsInvoked, IsInvoked
<1> QED
  BY <1>1, <1>3, <1>5, <1>6, <1>7, <1>8 DEF BaseInv, Send

LEMMA RequestExecutionContextStep ==
  ASSUME QueueInv, BaseInv, NEW hook \in BOOLEAN,
         RequestExecutionContext(hook), Invokes(hook)
  PROVE  QueueInv' /\ BaseInv'
<1>1. Ready /\ thread' = thread
  BY DEF RequestExecutionContext, Ready
<1>2. (wqState \in IsUp /\ thread # "start") \/ thread = "stop"
  BY <1>1 DEF Ready, BaseInv, BaseState, Up, IsUp
<1>3. QueueInv'
  BY <1>1, <1>2, HookKeepsQueueInv DEF HookThreads
<1>4. /\ wqState \in IsUp <=> wqState' \in IsUp
      /\ wqState \in IsInvoked => wqState' \in IsInvoked
      /\ hook /\ wqState \in IsUp => wqState' \in IsInvoked
  BY HookInvokes
<1>5. BaseState'
  <2>1. Up' <=> Up
    BY <1>1, <1>4 DEF Up, IsUp
  <2> QED
    BY <1>1, <2>1 DEF RequestExecutionContext, BaseInv, BaseState, Ready
<1>6. Invoked'
  BY <1>1, <1>2, <1>4 DEF RequestExecutionContext, BaseInv, Invoked, SomethingToDo, IsInvoked
<1>7. FailedIsInvoked'
  BY <1>1, <1>4 DEF BaseInv, FailedIsInvoked, IsInvoked
<1> QED
  BY <1>1, <1>3, <1>5, <1>6, <1>7 DEF BaseInv, RequestExecutionContext

LEMMA UnregisterStep ==
  ASSUME QueueInv, BaseInv, UNCHANGED queueVars, UnregisterBegins \/ Unregister
  PROVE  QueueInv' /\ BaseInv'
<1>1. thread' = thread /\ wqState' = wqState
  BY DEF UnregisterBegins, Unregister, queueVars
<1>2. QueueInv'
  BY <1>1, BaseKeepsQueueInv DEF BaseThreads
<1>3. Up' <=> Up
  BY <1>1 DEF Up
<1>4. CASE UnregisterBegins
  <2>1. BaseState'
    BY <1>3, <1>4 DEF UnregisterBegins, BaseInv, BaseState, Ready
  <2>2. Invoked' /\ FailedIsInvoked'
    BY <1>1, <1>4 DEF UnregisterBegins, BaseInv, Invoked, FailedIsInvoked, SomethingToDo
  <2> QED
    BY <1>2, <1>4, <2>1, <2>2 DEF UnregisterBegins, BaseInv
<1>5. CASE Unregister /\ pClient = None
  <2>1. BaseState'
    BY <1>3, <1>5 DEF Unregister, BaseInv, BaseState, Ready
  <2>2. Invoked' /\ FailedIsInvoked'
    BY <1>1, <1>5 DEF Unregister, BaseInv, BaseState, Invoked, FailedIsInvoked, SomethingToDo, Ready
  <2> QED
    BY <1>2, <1>5, <2>1, <2>2 DEF Unregister, BaseInv
<1>6. CASE Unregister /\ pClient # None
  <2>1. /\ (state = "off" /\ ~Up /\ state' = "UnregisteredAndOff")
           \/ (state # "off" /\ Up /\ state' = "UnregisteredAndIdle")
        /\ panic' = FALSE
        /\ pClient' = None /\ queue' = <<>> /\ loanExecContextRequested' = FALSE /\ told' = FALSE
    BY <1>6 DEF Unregister, BaseInv, BaseState
  <2>2. BaseState'
    BY <1>1, <1>3, <1>6, <2>1 DEF Unregister, BaseInv, BaseState, Ready, ClientMutexFree, InCallback
  <2>3. Invoked' /\ FailedIsInvoked'
    BY <1>1, <2>1 DEF BaseInv, Invoked, FailedIsInvoked, SomethingToDo
  <2>4. queue' \in Seq(Requests)
    BY <2>1
  <2> QED
    BY <1>1, <1>2, <1>6, <2>1, <2>2, <2>3, <2>4 DEF Unregister, BaseInv
<1> QED
  BY <1>4, <1>5, <1>6
-----------------------------------------------------------------------------
(* The steps of the execution context in the base class *)

LEMMA OnStartStep ==
  ASSUME QueueInv, BaseInv, UNCHANGED queueVars, OnStart
  PROVE  QueueInv' /\ BaseInv'
<1>1. thread = "start" /\ thread' \in {"idle", "onReady"} /\ wqState' = wqState
  BY DEF OnStart, queueVars
<1>2. QueueInv'
  BY <1>1, BaseKeepsQueueInv DEF BaseThreads
<1>3. ~Up /\ Up' /\ ~Ready
  BY <1>1 DEF Up, QueueInv, ThreadPlace, BaseInv, BaseState, Ready
<1>4. \/ /\ state = "UnregisteredAndOff" /\ state' = "UnregisteredAndIdle"
         /\ panic' = FALSE /\ thread' = "idle"
      \/ /\ state = "off" /\ state' = "idle"
         /\ panic' = FALSE /\ thread' = "onReady"
  BY <1>3 DEF OnStart, BaseInv, BaseState
<1>5. BaseState'
  BY <1>1, <1>3, <1>4 DEF OnStart, BaseInv, BaseState, Ready
<1>6. Invoked' /\ FailedIsInvoked'
  BY <1>1, <1>3, <1>4 DEF OnStart, BaseInv, BaseState, Invoked, FailedIsInvoked, SomethingToDo
<1> QED
  BY <1>2, <1>4, <1>5, <1>6 DEF OnStart, BaseInv, InCallback

LEMMA OnStopStep ==
  ASSUME QueueInv, BaseInv, UNCHANGED queueVars, OnStop
  PROVE  QueueInv' /\ BaseInv'
<1>1. thread = "stop" /\ thread' \in {"idle", "onDisconnected"} /\ wqState' = wqState
  BY DEF OnStop, queueVars
<1>2. QueueInv'
  BY <1>1, BaseKeepsQueueInv DEF BaseThreads
<1>3. Up /\ ~Up'
  BY <1>1 DEF Up, QueueInv, ThreadPlace
<1>4. /\ panic' = FALSE
      /\ queue' = <<>> /\ queue' \in Seq(Requests) /\ loanExecContextRequested' = FALSE
      /\ \/ state = "justRegistered" /\ state' = "off" /\ thread' = "idle"
         \/ state = "UnregisteredAndIdle" /\ state' = "UnregisteredAndOff" /\ thread' = "idle"
         \/ Ready /\ state' = "off" /\ thread' = "onDisconnected"
  <2>1. CASE Ready
    <3>1. queue' = <<>> /\ loanExecContextRequested' = FALSE /\ state' = "off"
          /\ thread' = "onDisconnected"
          /\ panic' = (panic \/ (state = "idle" /\ queue # <<>>))
      BY <2>1 DEF OnStop, Ready
    <3>2. panic' = FALSE
      BY <3>1 DEF BaseInv, BaseState
    <3>3. queue' \in Seq(Requests)
      BY <3>1
    <3> QED
      BY <2>1, <3>1, <3>2, <3>3
  <2>2. CASE ~Ready
    BY <1>3, <2>2 DEF OnStop, BaseInv, BaseState, Ready
  <2> QED
    BY <2>1, <2>2
<1>5. BaseState'
  BY <1>1, <1>3, <1>4 DEF OnStop, BaseInv, BaseState, Ready
<1>6. Invoked' /\ FailedIsInvoked'
  BY <1>4 DEF Invoked, FailedIsInvoked, SomethingToDo
<1> QED
  BY <1>2, <1>4, <1>5, <1>6 DEF OnStop, BaseInv, InCallback

(* The return of a callback *)
LEMMA ReturnStep ==
  ASSUME QueueInv, BaseInv, UNCHANGED queueVars,
         OnReady \/ LoanExecutionContext \/ OnRequestProcessed \/ OnDisconnected
  PROVE  QueueInv' /\ BaseInv'
<1>1. /\ thread \in InCallback /\ thread' = "idle" /\ wqState' = wqState
      /\ UNCHANGED <<state, pClient, queue, loanExecContextRequested, unregisterPending, panic>>
  BY DEF OnReady, LoanExecutionContext, OnRequestProcessed, OnDisconnected, Returns, InCallback,
         queueVars
<1>2. QueueInv'
  BY <1>1, BaseKeepsQueueInv DEF BaseThreads, InCallback
<1>3. Up' <=> Up
  BY <1>1 DEF Up, InCallback
<1>4. told' \in BOOLEAN /\ (told' <=> Ready) /\ serving' = None
  <2>1. CASE OnReady
    BY <2>1 DEF OnReady, Returns, BaseInv, BaseState
  <2>2. CASE LoanExecutionContext
    BY <2>2 DEF LoanExecutionContext, Returns, BaseInv, BaseState
  <2>3. CASE OnRequestProcessed
    BY <2>3 DEF OnRequestProcessed, Returns, BaseInv, BaseState
  <2>4. CASE OnDisconnected
    BY <2>4 DEF OnDisconnected, Returns, BaseInv, BaseState, Ready
  <2> QED
    BY <2>1, <2>2, <2>3, <2>4
<1>5. BaseState'
  BY <1>1, <1>3, <1>4 DEF BaseInv, BaseState, Ready
<1>6. Invoked'
  <2>1. thread \in {"onReady", "lend", "process"} \/ ~SomethingToDo
    BY <1>1 DEF BaseInv, BaseState, SomethingToDo, InCallback, Ready
  <2>2. SomethingToDo' <=> SomethingToDo
    BY <1>1 DEF SomethingToDo
  <2> QED
    BY <1>1, <2>1, <2>2 DEF BaseInv, Invoked, ServesClient
<1>7. FailedIsInvoked'
  BY <1>1 DEF FailedIsInvoked
<1> QED
  BY <1>1, <1>2, <1>4, <1>5, <1>6, <1>7 DEF BaseInv

LEMMA ServeFailsStep ==
  ASSUME QueueInv, BaseInv, NEW hook \in BOOLEAN, ServeFails(hook), Invokes(hook)
  PROVE  QueueInv' /\ BaseInv'
<1>1. thread = "process" /\ thread' = "failed" /\ Ready /\ wqState \in IsUp
  BY DEF ServeFails, QueueInv, ThreadPlace, BaseInv, BaseState, IsUp
<1>2. QueueInv'
  BY <1>1, HookKeepsQueueInv DEF HookThreads
<1>3. /\ wqState \in IsUp <=> wqState' \in IsUp
      /\ wqState \in IsInvoked => wqState' \in IsInvoked
      /\ hook /\ wqState \in IsUp => wqState' \in IsInvoked
  BY HookInvokes
<1>4. serving \in Requests
  BY <1>1 DEF BaseInv, BaseState
<1>5. queue' \in Seq(Requests) /\ queue' # <<>>
  BY <1>4, QueueGrows DEF ServeFails, BaseInv
<1>6. state' = "processing" /\ (hook \/ state = "processing")
  BY <1>1 DEF ServeFails, BaseInv, BaseState, Ready
<1>7. BaseState'
  <2>1. Up' <=> Up
    BY <1>1, <1>3 DEF Up, IsUp
  <2> QED
    BY <1>1, <1>5, <1>6, <2>1 DEF ServeFails, BaseInv, BaseState, Ready
<1>8. wqState' \in IsInvoked
  <2>1. hook \/ wqState \in IsInvoked
    BY <1>1, <1>6 DEF BaseInv, Invoked, SomethingToDo, ServesClient, IsInvoked
  <2> QED
    BY <1>1, <1>3, <2>1
<1>9. Invoked' /\ FailedIsInvoked'
  BY <1>8 DEF Invoked, FailedIsInvoked, IsInvoked
<1> QED
  BY <1>1, <1>2, <1>5, <1>6, <1>7, <1>9 DEF ServeFails, BaseInv

(* Work() that does something for the client *)
LEMMA WorkServesStep ==
  ASSUME BaseInv, thread = "serve", wqState \in IsUp, ~unregisterPending, pClient # None,
         NEW hook \in BOOLEAN,
         WorkTellsReady(hook) \/ WorkLends(hook) \/ WorkTakesRequest(hook) \/ WorkIsSpurious(hook),
         UNCHANGED <<pClient, unregisterPending, told>>,
         wqState \in IsUp <=> wqState' \in IsUp,
         wqState \in IsInvoked => wqState' \in IsInvoked,
         hook /\ wqState \in IsUp => wqState' \in IsInvoked
  PROVE  BaseInv'
<1>1. Up /\ (told <=> Ready) /\ serving = None
  BY DEF Up, IsUp, BaseInv, BaseState
<1>2. thread' # "start" => Up'
  BY DEF Up, IsUp
<1>3. CASE WorkTellsReady(hook)
  <2>1. panic' = FALSE /\ queue = <<>> /\ ~loanExecContextRequested
    BY <1>3 DEF WorkTellsReady, BaseInv, BaseState, Ready
  <2>2. BaseState'
    BY <1>1, <1>2, <1>3, <2>1 DEF WorkTellsReady, BaseInv, BaseState, Ready
  <2>3. Invoked' /\ FailedIsInvoked'
    BY <1>3, <2>1 DEF WorkTellsReady, Invoked, FailedIsInvoked, SomethingToDo
  <2> QED
    BY <1>3, <2>1, <2>2, <2>3 DEF WorkTellsReady, BaseInv, InCallback
<1>4. CASE WorkLends(hook)
  <2>1. BaseState'
    BY <1>1, <1>2, <1>4 DEF WorkLends, BaseInv, BaseState, Ready
  <2>2. Invoked' /\ FailedIsInvoked'
    BY <1>4 DEF WorkLends, Invoked, FailedIsInvoked, SomethingToDo, IsInvoked
  <2> QED
    BY <1>4, <2>1, <2>2 DEF WorkLends, BaseInv, InCallback
<1>5. CASE WorkTakesRequest(hook)
  <2>1. state = "processing" /\ queue # <<>> /\ ~loanExecContextRequested
    BY <1>5 DEF WorkTakesRequest, BaseInv, BaseState
  <2>2. /\ Head(queue) \in Requests /\ Tail(queue) \in Seq(Requests)
        /\ (Len(queue) > 1) = (Tail(queue) # <<>>)
    BY <2>1, QueueShrinks DEF BaseInv
  <2>3. /\ hook = (Tail(queue) # <<>>)
        /\ serving' = Head(queue) /\ queue' = Tail(queue)
        /\ state' = (IF Tail(queue) = <<>> THEN "idle" ELSE "processing")
        /\ thread' = "process" /\ panic' = panic
        /\ loanExecContextRequested' = loanExecContextRequested
    BY <1>5, <2>1, <2>2 DEF WorkTakesRequest
  <2>4. BaseState'
    BY <1>1, <1>2, <2>1, <2>2, <2>3, NoneAssumption DEF BaseInv, BaseState, Ready
  <2>5. Invoked' /\ FailedIsInvoked'
    BY <2>1, <2>3 DEF Invoked, FailedIsInvoked, SomethingToDo, IsInvoked
  <2> QED
    BY <2>2, <2>3, <2>4, <2>5 DEF BaseInv, InCallback
<1>6. CASE WorkIsSpurious(hook)
  <2>1. BaseState'
    BY <1>1, <1>2, <1>6 DEF WorkIsSpurious, BaseInv, BaseState, Ready
  <2>2. Invoked' /\ FailedIsInvoked'
    BY <1>6 DEF WorkIsSpurious, Invoked, FailedIsInvoked, SomethingToDo
  <2> QED
    BY <1>6, <2>1, <2>2 DEF WorkIsSpurious, BaseInv
<1> QED
  BY <1>3, <1>4, <1>5, <1>6

LEMMA WorkStep ==
  ASSUME QueueInv, BaseInv, NEW hook \in BOOLEAN, Work(hook), Invokes(hook)
  PROVE  QueueInv' /\ BaseInv'
<1>1. thread = "serve" /\ wqState \in IsUp
  BY DEF Work, QueueInv, ThreadPlace, IsUp
<1>2. /\ wqState \in IsUp <=> wqState' \in IsUp
      /\ wqState \in IsInvoked => wqState' \in IsInvoked
      /\ hook /\ wqState \in IsUp => wqState' \in IsInvoked
  BY HookInvokes
<1>3. CASE unregisterPending \/ pClient = None
  <2>1. hook = FALSE /\ thread' = "idle" /\ panic' = FALSE
    BY <1>3 DEF Work, BaseInv, BaseState
  <2>2. QueueInv'
    BY <1>1, <2>1, HookKeepsQueueInv DEF HookThreads
  <2>3. Up /\ Up'
    BY <1>1, <1>2, <2>1 DEF Up, IsUp
  <2>4. BaseState'
    BY <1>1, <1>3, <2>1, <2>3 DEF Work, BaseInv, BaseState, Ready
  <2>5. Invoked' /\ FailedIsInvoked'
    BY <1>1, <1>3, <2>1 DEF Work, BaseInv, BaseState, Ready, Invoked, FailedIsInvoked,
                            SomethingToDo, ServesClient
  <2> QED
    BY <1>1, <1>3, <2>1, <2>2, <2>4, <2>5 DEF Work, BaseInv
<1>4. CASE ~unregisterPending /\ pClient # None
  <2>1. /\ WorkTellsReady(hook) \/ WorkLends(hook) \/ WorkTakesRequest(hook) \/ WorkIsSpurious(hook)
        /\ UNCHANGED <<pClient, unregisterPending, told>>
    BY <1>4 DEF Work
  <2>2. BaseInv'
    BY <1>1, <1>2, <1>4, <2>1, WorkServesStep
  <2>3. HookThreads
    <3>1. WorkTakesRequest(hook) => thread' = thread \/ thread' = "process"
      BY DEF WorkTakesRequest
    <3> QED
      BY <1>1, <2>1, <3>1 DEF HookThreads, WorkTellsReady, WorkLends, WorkIsSpurious
  <2> QED
    BY <1>1, <2>2, <2>3, HookKeepsQueueInv
<1> QED
  BY <1>3, <1>4 DEF BaseInv
-----------------------------------------------------------------------------
(* The steps of the derived class: those that do not call the base class   *)
(* keep its part of the invariant, if they do not start or stop it and do  *)
(* not withdraw an invocation.                                             *)
BaseVarsButThread ==
  <<state, pClient, queue, loanExecContextRequested, unregisterPending, serving, told>>

PackageThreads ==
  \/ thread' = thread
  \/ thread \in {"idle", "entry", "failed"} /\ thread' \in {"idle", "entry"}

LEMMA BaseFrame ==
  ASSUME BaseInv, UNCHANGED BaseVarsButThread, panic' = FALSE,
         PackageThreads, Up' <=> Up, wqState \in IsInvoked => wqState' \in IsInvoked
  PROVE  BaseInv'
<1>1. /\ state' = state /\ pClient' = pClient /\ queue' = queue
      /\ loanExecContextRequested' = loanExecContextRequested
      /\ unregisterPending' = unregisterPending /\ serving' = serving /\ told' = told
  BY DEF BaseVarsButThread
<1>2. BaseState'
  BY <1>1 DEF BaseInv, BaseState, Ready, PackageThreads
<1>3. Invoked'
  <2>1. SomethingToDo' <=> SomethingToDo
    BY <1>1 DEF SomethingToDo
  <2> QED
    BY <1>1, <2>1 DEF BaseInv, Invoked, ServesClient, IsInvoked, PackageThreads
<1>4. FailedIsInvoked'
  BY DEF BaseInv, FailedIsInvoked, IsInvoked, PackageThreads
<1> QED
  BY <1>1, <1>2, <1>3, <1>4 DEF BaseInv, PackageThreads, InCallback

LEMMA StartStep ==
  ASSUME QueueInv, BaseInv, Start
  PROVE  QueueInv' /\ BaseInv'
<1>1. packages = <<>> /\ thread = "idle" /\ user = "none" /\ wqState = "Off"
  BY DEF Start, QueueInv, StopPhases
<1>2. packages' = <<"wp">> /\ wqState' = "Starting" /\ thread' = thread /\ user' = user /\ dwp' = dwp
  BY <1>1, ShapesChange DEF Start, serverVars
<1>3. WpQueued' /\ ~FlushQueued' /\ packages' \in Shapes
  BY <1>2, ShapesDiffer DEF WpQueued, FlushQueued, Shapes
<1>4. QueueInv'
  BY <1>1, <1>2, <1>3 DEF QueueInv, NoRetry, WpPlace, StopPhases, ThreadPlace
<1>5. Up' <=> Up
  BY <1>1, <1>2 DEF Up
<1>6. UNCHANGED BaseVarsButThread /\ panic' = FALSE
  BY DEF Start, serverVars, BaseVarsButThread, BaseInv
<1> QED
  BY <1>1, <1>2, <1>4, <1>5, <1>6, BaseFrame DEF IsInvoked, PackageThreads

LEMMA StopBeginsStep ==
  ASSUME QueueInv, BaseInv, StopBegins
  PROVE  QueueInv' /\ BaseInv'
<1>1. /\ user = "none" /\ wqState \in {"Starting", "On", "InvocationRequested"}
      /\ ~FlushQueued
  BY DEF StopBegins, QueueInv, StopPhases, NoRetry
<1>2. user' = "flush" /\ thread' = thread /\ UNCHANGED BaseVarsButThread /\ dwp' = FALSE
  BY DEF StopBegins, BaseVarsButThread, QueueInv, NoRetry
<1>3. CASE wqState = "Starting"
  <2>1. wqState' = "Off" /\ packages' = packages /\ panic' = FALSE
    BY <1>3 DEF StopBegins, BaseInv
  <2>2. (WpQueued' <=> WpQueued) /\ ~FlushQueued'
    BY <1>1, <2>1 DEF WpQueued, FlushQueued
  <2>3. thread \in {"idle", "entry"}
    BY <1>3 DEF QueueInv, WpPlace
  <2>4. QueueInv'
    BY <1>2, <2>1, <2>2, <2>3 DEF QueueInv, NoRetry, WpPlace, StopPhases, ThreadPlace
  <2>5. Up' <=> Up
    BY <1>2, <1>3, <2>1, <2>3 DEF Up
  <2> QED
    BY <1>2, <1>3, <2>1, <2>4, <2>5, BaseFrame DEF IsInvoked, PackageThreads
<1>4. CASE wqState = "InvocationRequested"
  <2>1. wqState' = "Stopping" /\ packages' = packages /\ panic' = FALSE
    BY <1>4 DEF StopBegins, BaseInv
  <2>2. (WpQueued' <=> WpQueued) /\ ~FlushQueued'
    BY <1>1, <2>1 DEF WpQueued, FlushQueued
  <2>3. QueueInv'
    BY <1>2, <1>4, <2>1, <2>2 DEF QueueInv, NoRetry, WpPlace, StopPhases, ThreadPlace
  <2>4. Up' <=> Up
    BY <1>2, <1>4, <2>1 DEF Up
  <2> QED
    BY <1>2, <1>4, <2>1, <2>3, <2>4, BaseFrame DEF IsInvoked, PackageThreads
<1>5. CASE wqState = "On"
  <2>1. ~WpQueued
    BY <1>5 DEF QueueInv, WpPlace
  <2>2. packages = <<>>
    BY <1>1, <2>1 DEF QueueInv, Shapes, WpQueued, FlushQueued
  <2>3. ~AddFails
    BY <2>1, ContainsWp DEF QueueInv, AddFails
  <2>4. wqState' = "Stopping" /\ packages' = <<"wp">> /\ panic' = FALSE
    BY <1>5, <2>2, <2>3, ShapesChange DEF StopBegins, BaseInv
  <2>5. WpQueued' /\ ~FlushQueued' /\ packages' \in Shapes
    BY <2>4, ShapesDiffer DEF WpQueued, FlushQueued, Shapes
  <2>6. QueueInv'
    BY <1>2, <1>5, <2>4, <2>5 DEF QueueInv, NoRetry, WpPlace, StopPhases, ThreadPlace
  <2>7. Up' <=> Up
    BY <1>2, <1>5, <2>4 DEF Up
  <2> QED
    BY <1>2, <1>5, <2>4, <2>6, <2>7, BaseFrame DEF IsInvoked, PackageThreads
<1> QED
  BY <1>1, <1>3, <1>4, <1>5

LEMMA StopFlushesStep ==
  ASSUME QueueInv, BaseInv, StopFlushes
  PROVE  QueueInv' /\ BaseInv'
<1>1. ~FlushQueued /\ user = "flush" /\ user' = "flushing"
  BY DEF StopFlushes, QueueInv, StopPhases
<1>2. wqState' = wqState /\ thread' = thread /\ dwp' = dwp
  BY DEF StopFlushes, serverVars
<1>3. \/ packages = <<>> /\ packages' = <<"flush">>
      \/ packages = <<"wp">> /\ packages' = <<"wp", "flush">>
  <2>1. packages = <<>> \/ packages = <<"wp">>
    BY <1>1 DEF QueueInv, Shapes, FlushQueued
  <2> QED
    BY <2>1, ShapesChange DEF StopFlushes
<1>4. (WpQueued' <=> WpQueued) /\ FlushQueued' /\ packages' \in Shapes
  BY <1>3, ShapesDiffer DEF WpQueued, FlushQueued, Shapes
<1>5. QueueInv'
  <2>1. WpPlace'
    BY <1>1, <1>2, <1>4 DEF QueueInv, WpPlace
  <2>2. StopPhases'
    BY <1>1, <1>2, <1>4 DEF QueueInv, StopPhases
  <2> QED
    BY <1>1, <1>2, <1>4, <2>1, <2>2 DEF QueueInv, NoRetry, ThreadPlace
<1>6. Up' <=> Up
  BY <1>2 DEF Up
<1>7. UNCHANGED BaseVarsButThread /\ panic' = FALSE
  BY DEF StopFlushes, serverVars, BaseVarsButThread, BaseInv
<1>8. wqState \in IsInvoked => wqState' \in IsInvoked
  BY <1>2
<1> QED
  BY <1>2, <1>5, <1>6, <1>7, <1>8, BaseFrame DEF PackageThreads

LEMMA StopReturnsStep ==
  ASSUME QueueInv, BaseInv, StopReturns
  PROVE  QueueInv' /\ BaseInv'
<1>1. user = "flushed" /\ user' = "none" /\ wqState = "Off" /\ packages = <<>> /\ thread = "idle"
  BY DEF StopReturns, QueueInv, StopPhases
<1>2. wqState' = wqState /\ thread' = thread /\ dwp' = dwp /\ packages' = packages
  BY DEF StopReturns
<1>3. ~WpQueued' /\ ~FlushQueued'
  BY <1>1, <1>2, ShapesDiffer DEF WpQueued, FlushQueued
<1>4. QueueInv'
  BY <1>1, <1>2, <1>3 DEF QueueInv, NoRetry, WpPlace, StopPhases, ThreadPlace
<1>5. Up' <=> Up
  BY <1>2 DEF Up
<1>6. UNCHANGED BaseVarsButThread /\ panic' = FALSE
  BY <1>1 DEF StopReturns, BaseVarsButThread, BaseInv
<1>7. wqState \in IsInvoked => wqState' \in IsInvoked
  BY <1>2
<1> QED
  BY <1>2, <1>4, <1>5, <1>6, <1>7, BaseFrame DEF PackageThreads
(* The thread takes what is first in the queue; nothing is deferred. *)
LEMMA FetchCases ==
  ASSUME QueueInv, Fetch
  PROVE  \/ /\ packages = <<"flush">> /\ packages' = <<>>
            /\ thread' = "idle" /\ user' = "flushed"
         \/ /\ \/ packages = <<"wp">> /\ packages' = <<>>
               \/ packages = <<"wp", "flush">> /\ packages' = <<"flush">>
            /\ thread' = "entry" /\ user' = user
<1>1. dwp = FALSE /\ thread = "idle"
  BY DEF Fetch, QueueInv, NoRetry
<1>2. PICK p \in {packages[i] : i \in 1..Len(packages) \cap {1}} \cup {} :
        /\ packages' = IF p = "dwp" THEN packages ELSE Tail(packages)
        /\ thread' = IF p = "flush" THEN thread ELSE "entry"
        /\ user' = IF p = "flush" THEN "flushed" ELSE user
  BY <1>1 DEF Fetch
<1>3. p = packages[1] /\ packages # <<>>
  <2>1. PICK i \in 1..Len(packages) \cap {1} : p = packages[i]
    BY <1>2
  <2>2. 1 \in 1..Len(packages) /\ p = packages[1]
    BY <2>1
  <2>3. packages # <<>>
    BY <2>2
  <2> QED
    BY <2>2, <2>3
<1>4. CASE packages = <<"flush">>
  <2>1. p = "flush"
    BY <1>3, <1>4
  <2> QED
    BY <1>1, <1>2, <1>4, <2>1, ShapesChange
<1>5. CASE packages = <<"wp">>
  <2>1. p = "wp"
    BY <1>3, <1>5
  <2> QED
    BY <1>2, <1>5, <2>1, ShapesChange
<1>6. CASE packages = <<"wp", "flush">>
  <2>1. p = "wp"
    BY <1>3, <1>6
  <2> QED
    BY <1>2, <1>6, <2>1, ShapesChange
<1> QED
  BY <1>3, <1>4, <1>5, <1>6 DEF QueueInv, Shapes

LEMMA FetchStep ==
  ASSUME QueueInv, BaseInv, Fetch
  PROVE  QueueInv' /\ BaseInv'
<1>1. thread = "idle" /\ wqState' = wqState /\ dwp' = FALSE /\ dwp = FALSE
  BY DEF Fetch, QueueInv, NoRetry
<1>2. UNCHANGED BaseVarsButThread /\ panic' = FALSE
  BY DEF Fetch, BaseVarsButThread, BaseInv
<1>3. wqState \in IsInvoked => wqState' \in IsInvoked
  BY <1>1
<1>4. CASE packages = <<"flush">> /\ packages' = <<>> /\ thread' = "idle" /\ user' = "flushed"
  <2>1. ~WpQueued /\ FlushQueued /\ ~WpQueued' /\ ~FlushQueued' /\ packages' \in Shapes
    BY <1>4, ShapesDiffer DEF WpQueued, FlushQueued, Shapes
  <2>2. user = "flushing" /\ wqState = "Off"
    BY <1>1, <2>1 DEF QueueInv, StopPhases, WpPlace
  <2>3. QueueInv'
    BY <1>1, <1>4, <2>1, <2>2 DEF QueueInv, NoRetry, WpPlace, StopPhases, ThreadPlace
  <2>4. Up' <=> Up
    BY <1>1, <1>4 DEF Up
  <2> QED
    BY <1>1, <1>2, <1>3, <1>4, <2>3, <2>4, BaseFrame DEF PackageThreads
<1>5. CASE /\ \/ packages = <<"wp">> /\ packages' = <<>>
              \/ packages = <<"wp", "flush">> /\ packages' = <<"flush">>
           /\ thread' = "entry" /\ user' = user
  <2>1. WpQueued /\ ~WpQueued' /\ (FlushQueued' <=> FlushQueued) /\ packages' \in Shapes
    BY <1>5, ShapesDiffer DEF WpQueued, FlushQueued, Shapes
  <2>2. packages # <<>>
    BY <1>5, ShapesDiffer
  <2>3. WpPlace'
    BY <1>1, <1>5, <2>1 DEF QueueInv, WpPlace
  <2>4. StopPhases'
    BY <1>1, <1>5, <2>1, <2>2 DEF QueueInv, StopPhases
  <2>5. ThreadPlace'
    BY <1>1, <1>5 DEF ThreadPlace
  <2>6. QueueInv'
    BY <1>1, <1>5, <2>1, <2>3, <2>4, <2>5 DEF QueueInv, NoRetry
  <2>7. Up' <=> Up
    BY <1>1, <1>5 DEF Up
  <2> QED
    BY <1>1, <1>2, <1>3, <1>5, <2>6, <2>7, BaseFrame DEF PackageThreads
<1> QED
  BY <1>4, <1>5, FetchCases

LEMMA WQentryStep ==
  ASSUME QueueInv, BaseInv, WQentry
  PROVE  QueueInv' /\ BaseInv'
<1>1. /\ thread = "entry" /\ wqState \in {"Off", "Starting", "InvocationRequested", "Stopping"}
      /\ ~WpQueued
  BY DEF WQentry, QueueInv, WpPlace, NoRetry
<1>2. /\ wqState = "Off" => wqState' = "Off" /\ thread' = "idle"
      /\ wqState = "Starting" => wqState' = "On" /\ thread' = "start"
      /\ wqState = "InvocationRequested" => wqState' = "On" /\ thread' = "serve"
      /\ wqState = "Stopping" => wqState' = "Off" /\ thread' = "stop"
  BY DEF WQentry
<1>3. /\ packages' = packages /\ user' = user /\ dwp' = dwp /\ panic' = FALSE
      /\ state' = state /\ pClient' = pClient /\ queue' = queue
      /\ loanExecContextRequested' = loanExecContextRequested
      /\ unregisterPending' = unregisterPending /\ serving' = serving /\ told' = told
  BY <1>1 DEF WQentry, BaseInv
<1>4. ~WpQueued' /\ (FlushQueued' <=> FlushQueued)
  BY <1>1, <1>3 DEF WpQueued, FlushQueued
<1>5. wqState = "Off" \/ wqState = "Stopping" => user \in {"flush", "flushing"}
  BY <1>1 DEF QueueInv, WpPlace, StopPhases
<1>6. wqState = "Starting" \/ wqState = "InvocationRequested" => user = "none"
  BY DEF QueueInv, StopPhases
<1>7. QueueInv'
  <2>1. WpPlace'
    BY <1>1, <1>2, <1>3, <1>4 DEF WpPlace
  <2>2. StopPhases'
    BY <1>1, <1>2, <1>3, <1>4, <1>5, <1>6 DEF QueueInv, StopPhases
  <2>3. ThreadPlace'
    BY <1>1, <1>2 DEF ThreadPlace
  <2> QED
    BY <1>1, <1>2, <1>3, <2>1, <2>2, <2>3 DEF QueueInv, NoRetry
<1>8. Up' <=> Up
  BY <1>1, <1>2 DEF Up
<1>9. BaseState'
  BY <1>1, <1>2, <1>3, <1>8 DEF BaseInv, BaseState, Ready
<1>10. Invoked'
  <2>1. SomethingToDo' <=> SomethingToDo
    BY <1>3 DEF SomethingToDo
  <2>2. wqState \in {"Off", "Starting"} => ~SomethingToDo
    <3>1. wqState \in {"Off", "Starting"} => ~Up
      BY <1>1 DEF Up
    <3> QED
      BY <3>1 DEF BaseInv, BaseState, SomethingToDo, Ready
  <2>3. wqState \in {"InvocationRequested", "Stopping"} => thread' \in {"serve", "stop"}
    BY <1>2
  <2> QED
    BY <1>1, <2>1, <2>2, <2>3 DEF Invoked
<1>11. FailedIsInvoked'
  BY <1>1, <1>2 DEF FailedIsInvoked
<1> QED
  BY <1>1, <1>2, <1>3, <1>7, <1>9, <1>10, <1>11 DEF BaseInv

LEMMA HandleBadAllocStep ==
  ASSUME QueueInv, BaseInv, HandleBadAlloc
  PROVE  QueueInv' /\ BaseInv'
<1>1. thread = "failed" /\ thread' = "idle" /\ wqState \in IsInvoked
  BY DEF HandleBadAlloc, BaseInv, FailedIsInvoked, IsInvoked
<1>2. wqState' = wqState /\ dwp' = dwp /\ packages' = packages /\ user' = user
  BY <1>1 DEF HandleBadAlloc, IsInvoked, QueueInv, NoRetry
<1>3. UNCHANGED BaseVarsButThread /\ panic' = FALSE
  BY <1>1 DEF HandleBadAlloc, BaseVarsButThread, BaseInv, IsInvoked
<1>4. (WpQueued' <=> WpQueued) /\ (FlushQueued' <=> FlushQueued)
  BY <1>2 DEF WpQueued, FlushQueued
<1>5. QueueInv'
  <2>1. WpPlace'
    BY <1>1, <1>2, <1>4 DEF QueueInv, WpPlace
  <2>2. StopPhases'
    BY <1>1, <1>2, <1>4 DEF QueueInv, StopPhases
  <2>3. ThreadPlace'
    BY <1>1, <1>2 DEF QueueInv, ThreadPlace
  <2> QED
    BY <1>2, <2>1, <2>2, <2>3 DEF QueueInv, NoRetry
<1>6. Up' <=> Up
  BY <1>1, <1>2 DEF Up
<1>7. wqState \in IsInvoked => wqState' \in IsInvoked
  BY <1>2
<1> QED
  BY <1>1, <1>2, <1>3, <1>5, <1>6, <1>7, BaseFrame DEF PackageThreads

-----------------------------------------------------------------------------
(* Every step keeps the invariant. *)
LEMMA IInvStep == IInv /\ [Next]_vars => IInv'
<1> SUFFICES ASSUME IInv, [Next]_vars PROVE IInv'
  OBVIOUS
<1>1. QueueInv /\ BaseInv
  BY TwoParts
<1> SUFFICES QueueInv' /\ BaseInv'
  BY TwoPartsNext
<1>2. CASE ExecutionContext
  <2>1. CASE Fetch
    BY <1>1, <2>1, FetchStep
  <2>2. CASE WQentry
    BY <1>1, <2>2, WQentryStep
  <2>3. CASE HandleBadAlloc
    BY <1>1, <2>3, HandleBadAllocStep
  <2>4. CASE \E hook \in BOOLEAN : Work(hook) /\ Invokes(hook)
    BY <1>1, <2>4, WorkStep
  <2>5. CASE \E hook \in BOOLEAN : ServeFails(hook) /\ Invokes(hook)
    BY <1>1, <2>5, ServeFailsStep
  <2>6. CASE OnStart /\ UNCHANGED queueVars
    BY <1>1, <2>6, OnStartStep
  <2>7. CASE OnStop /\ UNCHANGED queueVars
    BY <1>1, <2>7, OnStopStep
  <2>8. CASE (OnReady \/ LoanExecutionContext \/ OnRequestProcessed \/ OnDisconnected)
             /\ UNCHANGED queueVars
    BY <1>1, <2>8, ReturnStep
  <2> QED
    BY <1>2, <2>1, <2>2, <2>3, <2>4, <2>5, <2>6, <2>7, <2>8 DEF ExecutionContext
<1>3. CASE Client
  <2>1. CASE \E c \in Clients, hook \in BOOLEAN : Register(c, hook) /\ Invokes(hook)
    BY <1>1, <2>1, RegisterStep
  <2>2. CASE \E r \in Requests, hook \in BOOLEAN : Send(r, hook) /\ Invokes(hook)
    BY <1>1, <2>2, SendStep
  <2>3. CASE \E hook \in BOOLEAN : RequestExecutionContext(hook) /\ Invokes(hook)
    BY <1>1, <2>3, RequestExecutionContextStep
  <2>4. CASE (UnregisterBegins \/ Unregister) /\ UNCHANGED queueVars
    BY <1>1, <2>4, UnregisterStep
  <2> QED
    BY <1>3, <2>1, <2>2, <2>3, <2>4 DEF Client
<1>4. CASE User
  BY <1>1, <1>4, StartStep, StopBeginsStep, StopFlushesStep, StopReturnsStep DEF User
<1>5. CASE UNCHANGED vars
  <2>1. UNCHANGED queueVars /\ thread' = thread /\ wqState' = wqState
    BY <1>5 DEF vars, queueVars, serverVars
  <2>2. QueueInv'
    BY <1>1, <2>1, BaseKeepsQueueInv DEF BaseThreads
  <2>3. UNCHANGED BaseVarsButThread /\ panic' = FALSE
    BY <1>1, <1>5 DEF vars, serverVars, BaseVarsButThread, BaseInv
  <2>4. (Up' <=> Up) /\ (wqState \in IsInvoked => wqState' \in IsInvoked)
    BY <2>1 DEF Up
  <2>5. BaseInv'
    BY <1>1, <2>1, <2>3, <2>4, BaseFrame DEF PackageThreads
  <2> QED
    BY <2>2, <2>5
<1> QED
  BY <1>2, <1>3, <1>4, <1>5 DEF Next

(* The two state machines, the package and the thread always agree. *)
THEOREM Invariance == Spec => []IInv
  BY InitEstablishesIInv, IInvStep, PTL DEF Spec
(* The types of all variables, the package at most once in the queue *)
THEOREM Typed == Spec => []TypeOK
<1>1. IInv => TypeOK
  BY DEF IInv
<1> QED
  BY <1>1, Invariance, PTL

(* No PANIC() is reached, and wp is never added while it is in the queue. *)
THEOREM Safe == Spec => []NeverPanics
<1>1. IInv => NeverPanics
  <2> SUFFICES ASSUME IInv PROVE NeverPanics
    OBVIOUS
  <2>1. ~panic
    BY DEF IInv
  <2>2. ASSUME NEW i \in 1..Len(packages), NEW j \in 1..Len(packages),
               packages[i] = "wp", packages[j] = "wp"
        PROVE  i = j
    <3>1. packages \in Shapes
      BY DEF IInv, TypeOK, Shapes
    <3>2. CASE packages = <<>>
      BY <2>2, <3>2
    <3>3. CASE packages = <<"wp">>
      BY <2>2, <3>3
    <3>4. CASE packages = <<"flush">>
      BY <2>2, <3>4
    <3>5. CASE packages = <<"wp", "flush">>
      <4>1. packages[2] # "wp" /\ Len(packages) = 2
        BY <3>5
      <4> QED
        BY <2>2, <4>1
    <3> QED
      BY <3>1, <3>2, <3>3, <3>4, <3>5 DEF Shapes
  <2> QED
    BY <2>1, <2>2 DEF NeverPanics
<1> QED
  BY <1>1, Invariance, PTL

(* As long as there is something to do, Work() or OnStop() will be called. *)
THEOREM NothingIsLost == Spec => []NothingStranded
<1>1. IInv => NothingStranded
  <2> SUFFICES ASSUME IInv PROVE NothingStranded
    OBVIOUS
  <2>1. packages \in Shapes
    BY DEF IInv, TypeOK, Shapes
  <2>2. wqState \in {"InvocationRequested", "Stopping"} => Contains("wp") \/ thread = "entry"
    BY <2>1, ContainsWp DEF IInv, WpPlace
  <2> QED
    BY <2>2 DEF IInv, Invoked, NothingStranded, InvocationComing
<1> QED
  BY <1>1, Invariance, PTL

-----------------------------------------------------------------------------
(* What the client sees *)

LEMMA InitRefines == Init => RODA!Init
  BY DEF Init, ServerInit, RODA!Init, Pending

(* The steps that the client does not see *)
LEMMA Hidden ==
  ASSUME UNCHANGED <<pClient, told, loanExecContextRequested>>, Ready' <=> Ready,
         Pending' = Pending
  PROVE  UNCHANGED RODA!rodaVars
  BY DEF RODA!rodaVars, Ready

LEMMA BaseHides ==
  ASSUME UNCHANGED BaseVarsButThread, thread # "process", thread' # "process"
  PROVE  UNCHANGED RODA!rodaVars
  BY Hidden DEF BaseVarsButThread, Ready, Pending

LEMMA ClientRefines ==
  ASSUME IInv, Client
  PROVE  [RODA!Next]_(RODA!rodaVars)
<1> USE DEF RODA!Next
<1>1. queue \in Seq(Requests) /\ BaseState
  BY DEF IInv, TypeOK
<1>2. ASSUME NEW c \in Clients, NEW hook \in BOOLEAN, Register(c, hook)
      PROVE  RODA!Register(c)
  BY <1>1, <1>2 DEF Register, RODA!Register, Pending, BaseState
<1>3. ASSUME NEW r \in Requests, NEW hook \in BOOLEAN, Send(r, hook)
      PROVE  RODA!Send(r)
  <2>1. Pending' = Append(Pending, r)
    <3>1. CASE thread = "process"
      <4>1. serving \in Requests
        BY <1>1, <3>1 DEF BaseState, IInv, TypeOK
      <4>2. Pending = <<serving>> \o queue /\ Pending' = <<serving>> \o Append(queue, r)
        BY <1>3, <3>1 DEF Pending, Send
      <4> QED
        BY <1>1, <4>1, <4>2, AppendBehind
    <3>2. CASE thread # "process"
      <4>1. Pending = <<>> \o queue /\ Pending' = <<>> \o queue' /\ queue' = Append(queue, r)
        BY <1>3, <3>2 DEF Pending, Send
      <4>2. queue' \in Seq(Requests)
        BY <1>1, <4>1, QueueGrows
      <4> QED
        BY <1>1, <4>1, <4>2, ConcatEmptySeq
    <3> QED
      BY <3>1, <3>2
  <2> QED
    BY <1>3, <2>1 DEF Send, RODA!Send
<1>4. ASSUME NEW hook \in BOOLEAN, RequestExecutionContext(hook)
      PROVE  RODA!RequestExecutionContext
  BY <1>4 DEF RequestExecutionContext, RODA!RequestExecutionContext, Pending
<1>5. CASE UnregisterBegins
  <2>1. Pending' = Pending /\ (Ready' <=> Ready)
    BY <1>5 DEF UnregisterBegins, Pending, Ready
  <2> QED
    BY <1>5, <2>1, Hidden DEF UnregisterBegins
<1>6. CASE Unregister /\ pClient # None
  <2>1. Pending' = <<>> \o <<>>
    BY <1>6 DEF Unregister, Pending, ClientMutexFree, InCallback
  <2>2. Pending' = <<>>
    BY <2>1
  <2> QED
    BY <1>6, <2>2 DEF Unregister, RODA!Unregister
<1>7. CASE Unregister /\ pClient = None
  <2>1. Pending' = Pending /\ (Ready' <=> Ready)
    BY <1>7 DEF Unregister, Pending, Ready
  <2> QED
    BY <1>7, <2>1, Hidden DEF Unregister
<1> QED
  BY <1>2, <1>3, <1>4, <1>5, <1>6, <1>7 DEF Client

LEMMA WorkRefines ==
  ASSUME IInv, NEW hook \in BOOLEAN, Work(hook)
  PROVE  [RODA!Next]_(RODA!rodaVars)
<1> USE DEF RODA!Next
<1>1. /\ thread = "serve" /\ queue \in Seq(Requests) /\ BaseState
      /\ Pending = <<>> \o queue
  BY DEF Work, IInv, TypeOK, Pending
<1>2. Pending = queue
  BY <1>1, ConcatEmptySeq
<1>3. CASE unregisterPending \/ pClient = None
  <2>1. UNCHANGED BaseVarsButThread /\ thread' = "idle"
    BY <1>3 DEF Work, BaseVarsButThread
  <2> QED
    BY <1>1, <2>1, BaseHides
<1>4. CASE ~unregisterPending /\ pClient # None /\ WorkTellsReady(hook)
  <2>1. Pending' = Pending
    BY <1>1, <1>4 DEF WorkTellsReady, Pending
  <2>2. RODA!BecomesReady
    BY <1>1, <1>4, <2>1 DEF Work, WorkTellsReady, RODA!BecomesReady, BaseState, Ready
  <2> QED
    BY <2>2
<1>5. CASE ~unregisterPending /\ pClient # None /\ WorkLends(hook)
  <2>1. Pending' = Pending
    BY <1>1, <1>5 DEF WorkLends, Pending
  <2>2. RODA!LoanExecutionContext
    BY <1>1, <1>5, <2>1 DEF Work, WorkLends, RODA!LoanExecutionContext, BaseState, Ready
  <2> QED
    BY <2>2
<1>6. CASE ~unregisterPending /\ pClient # None /\ WorkTakesRequest(hook)
  <2>1. queue # <<>>
    BY <1>1, <1>6 DEF WorkTakesRequest, BaseState
  <2>2. /\ thread' = "process" /\ serving' = Head(queue) /\ queue' = Tail(queue)
        /\ (Ready' <=> Ready) /\ UNCHANGED <<pClient, told, loanExecContextRequested>>
    BY <1>6, <2>1 DEF Work, WorkTakesRequest, Ready
  <2>3. Pending' = <<Head(queue)>> \o Tail(queue)
    BY <2>2 DEF Pending
  <2>4. Pending' = Pending
    BY <1>1, <1>2, <2>1, <2>3, QueueShrinks
  <2> QED
    BY <2>2, <2>4, Hidden
<1>7. CASE ~unregisterPending /\ pClient # None /\ WorkIsSpurious(hook)
  <2>1. UNCHANGED BaseVarsButThread /\ thread' = "idle"
    BY <1>7 DEF Work, WorkIsSpurious, BaseVarsButThread
  <2> QED
    BY <1>1, <2>1, BaseHides
<1>8. unregisterPending \in BOOLEAN
  BY DEF IInv, TypeOK
<1> QED
  BY <1>3, <1>4, <1>5, <1>6, <1>7, <1>8 DEF Work

LEMMA ServerRefines ==
  ASSUME IInv, ExecutionContext
  PROVE  [RODA!Next]_(RODA!rodaVars)
<1> USE DEF RODA!Next
<1>1. queue \in Seq(Requests) /\ BaseState
  BY DEF IInv, TypeOK
<1>2. CASE Fetch
  <2>1. UNCHANGED BaseVarsButThread /\ thread # "process" /\ thread' # "process"
    BY <1>2 DEF Fetch, BaseVarsButThread
  <2> QED
    BY <2>1, BaseHides
<1>3. CASE WQentry
  <2>1. UNCHANGED BaseVarsButThread /\ thread # "process" /\ thread' # "process"
    BY <1>3 DEF WQentry, BaseVarsButThread
  <2> QED
    BY <2>1, BaseHides
<1>4. CASE HandleBadAlloc
  <2>1. UNCHANGED BaseVarsButThread /\ thread # "process" /\ thread' # "process"
    BY <1>4 DEF HandleBadAlloc, BaseVarsButThread
  <2> QED
    BY <2>1, BaseHides
<1>5. CASE \E hook \in BOOLEAN : Work(hook)
  BY <1>5, WorkRefines
<1>6. ASSUME NEW hook \in BOOLEAN, ServeFails(hook)
      PROVE  [RODA!Next]_(RODA!rodaVars)
  <2>1. serving \in Requests /\ thread = "process"
    BY <1>1, <1>6 DEF ServeFails, BaseState, IInv, TypeOK
  <2>2. queue' = <<serving>> \o queue /\ queue' \in Seq(Requests)
    BY <1>1, <1>6, <2>1, QueueGrows DEF ServeFails
  <2>3. Pending = <<serving>> \o queue /\ Pending' = <<>> \o queue'
    BY <1>6, <2>1 DEF ServeFails, Pending
  <2>4. Pending' = Pending
    BY <2>2, <2>3, ConcatEmptySeq
  <2>5. Ready' <=> Ready
    BY <1>1, <1>6 DEF ServeFails, BaseState, Ready
  <2> QED
    BY <1>6, <2>4, <2>5, Hidden DEF ServeFails
<1>7. CASE OnStart
  <2>1. Pending' = Pending
    BY <1>7 DEF OnStart, Pending
  <2>2. CASE state # "off"
    <3>1. Ready' <=> Ready
      BY <1>1, <1>7, <2>2 DEF OnStart, BaseState, Ready, Up, IInv, ThreadPlace
    <3> QED
      BY <1>7, <2>1, <3>1, Hidden DEF OnStart
  <2>3. CASE state = "off"
    <3>1. RODA!BecomesReady
      BY <1>1, <1>7, <2>1, <2>3 DEF OnStart, RODA!BecomesReady, BaseState, Ready
    <3> QED
      BY <3>1
  <2> QED
    BY <2>2, <2>3
<1>8. CASE OnStop
  <2>1. thread = "stop" /\ thread' # "process"
    BY <1>8 DEF OnStop
  <2>2. CASE Ready
    <3>1. Pending' = <<>> \o <<>>
      BY <1>8, <2>1, <2>2 DEF OnStop, Pending, Ready
    <3>2. Pending' = <<>>
      BY <3>1
    <3>3. RODA!Disconnects
      BY <1>1, <1>8, <2>1, <2>2, <3>2 DEF OnStop, RODA!Disconnects, BaseState, Ready
    <3> QED
      BY <3>3
  <2>3. CASE ~Ready
    <3>1. ~Ready' /\ Pending' = Pending
      BY <1>8, <2>1, <2>3 DEF OnStop, Ready, Pending
    <3> QED
      BY <1>8, <2>3, <3>1, Hidden DEF OnStop, Ready
  <2> QED
    BY <2>2, <2>3
<1>9. CASE OnReady
  <2>1. RODA!OnReady
    BY <1>1, <1>9 DEF OnReady, Returns, RODA!OnReady, BaseState, Ready, Pending
  <2> QED
    BY <2>1
<1>10. CASE OnDisconnected
  <2>1. RODA!OnDisconnected
    BY <1>1, <1>10 DEF OnDisconnected, Returns, RODA!OnDisconnected, BaseState, Ready, Pending
  <2> QED
    BY <2>1
<1>11. CASE LoanExecutionContext
  <2>1. UNCHANGED BaseVarsButThread /\ thread # "process" /\ thread' # "process"
    BY <1>11 DEF LoanExecutionContext, Returns, BaseVarsButThread
  <2> QED
    BY <2>1, BaseHides
<1>12. CASE OnRequestProcessed
  <2>1. thread = "process" /\ serving \in Requests
    BY <1>1, <1>12 DEF OnRequestProcessed, Returns, BaseState, IInv, TypeOK
  <2>2. Pending = <<serving>> \o queue /\ Pending' = <<>> \o queue
    BY <1>12, <2>1 DEF OnRequestProcessed, Returns, Pending
  <2>3. Pending # <<>> /\ Pending' = Tail(Pending)
    BY <1>1, <2>1, <2>2, ConcatEmptySeq, AppendBehind, QueueGrows
  <2>4. RODA!OnRequestProcessed
    BY <1>1, <1>12, <2>1, <2>3 DEF OnRequestProcessed, RODA!OnRequestProcessed, BaseState, Ready
  <2> QED
    BY <2>4
<1> QED
  BY <1>2, <1>3, <1>4, <1>5, <1>6, <1>7, <1>8, <1>9, <1>10, <1>11, <1>12 DEF ExecutionContext

LEMMA UserIsHidden ==
  ASSUME User \/ UNCHANGED vars
  PROVE  UNCHANGED RODA!rodaVars
<1>1. UNCHANGED BaseVarsButThread /\ thread' = thread
  BY DEF User, Start, StopBegins, StopFlushes, StopReturns, vars, serverVars, BaseVarsButThread
<1>2. Pending' = Pending
  BY <1>1 DEF Pending, BaseVarsButThread
<1> QED
  BY <1>1, <1>2, Hidden DEF BaseVarsButThread, Ready

(* The client of a WorkQueueBasedRemoteAccessServer sees what the          *)
(* RODA/RODAN interface promises.                                          *)
THEOREM Refinement == Spec => ImplementsRemoteAccess
<1>1. Init => RODA!Init
  BY InitRefines
<1>2. IInv /\ [Next]_vars => [RODA!Next]_(RODA!rodaVars)
  BY ClientRefines, ServerRefines, UserIsHidden DEF Next
<1> QED
  BY <1>1, <1>2, Invariance, PTL DEF Spec, RODA!Spec, ImplementsRemoteAccess
=============================================================================
