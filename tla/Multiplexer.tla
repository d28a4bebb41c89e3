------------------------------ MODULE Multiplexer ------------------------------
(***************************************************************************)
(* gpcc::cood::Multiplexer and MultiplexerPort: a client of one pair of    *)
(* RODA and RODAN interfaces, the server, that provides each of its ports  *)
(* with a pair of its own.  The server is any server that keeps to         *)
(* RemoteAccess; its execution context is one thread.                      *)
(*                                                                         *)
(* muxMutex is locked during every callback of the server, also while the  *)
(* multiplexer calls a client: that is while loop # NoLoop.  Ports send    *)
(* with portMutex locked only, so these calls come between any two steps   *)
(* of a loop.  An action is the code under portMutex, or one call of a     *)
(* client.                                                                 *)
(***************************************************************************)
EXTENDS Naturals, Sequences

CONSTANTS NPorts,    \* maxNbOfPorts
          NSessions, \* session IDs have 8 bits
          Requests,  \* request objects
          None

ASSUME PortsAssumption ==
  /\ NPorts \in Nat \ {0}
  /\ NSessions \in Nat /\ NSessions >= 3
  /\ "ping" \notin Requests
  /\ None \notin Requests /\ None \notin 1..NPorts /\ None # "mux" /\ None # "ping"

Port == 1..NPorts
Session == 0..(NSessions - 1)
Message == [port : Port, session : Session, what : Requests \cup {"ping"}]

ASSUME NoneAssumption == None \notin Message

VARIABLES
  client, ready, told, pending, loan, \* the server
  callback,  \* the method of the multiplexer the server is calling
  response,  \* the message that OnRequestProcessed() answers
  muxState,  \* the state of the multiplexer
  loop,      \* who has locked muxMutex, which port it visits, which client it calls
  user,      \* what the thread inside Connect() or Disconnect() is doing
  nPorts,    \* ports that have been created
  held,      \* ports that are referenced by somebody else
  state, sessionID, oldestUsedSessionID, sessionIDUsed, execContextRequested,
  informed,  \* auxiliary: the client was told that its port is ready
  open       \* auxiliary: requests the client has sent and waits for, in order

serverVars == <<client, ready, told, pending, loan, callback, response>>
muxVars == <<muxState, loop, user, nPorts, held>>
sessionVars == <<sessionID, oldestUsedSessionID, sessionIDUsed>>
clientVars == <<informed, open>>
portVars == <<state, sessionVars, execContextRequested, clientVars>>
vars == <<serverVars, muxVars, portVars>>

Server == INSTANCE RemoteAccess WITH Clients <- {"mux"}, Requests <- Message

NoLoop == [by |-> "none", at |-> 0, calls |-> "none"]
MuxMutexFree == loop = NoLoop
Visits(by) == [by |-> by, at |-> 1, calls |-> "none"]

Init ==
  /\ Server!Init
  /\ callback = "none" /\ response = None
  /\ muxState = "notConnected" /\ loop = NoLoop /\ user = "none"
  /\ nPorts = 0 /\ held = {}
  /\ state = [p \in Port |-> "noClientRegistered"]
  /\ sessionID = [p \in Port |-> 0] /\ oldestUsedSessionID = [p \in Port |-> 0]
  /\ sessionIDUsed = [p \in Port |-> FALSE]
  /\ execContextRequested = [p \in Port |-> FALSE]
  /\ informed = [p \in Port |-> FALSE] /\ open = [p \in Port |-> <<>>]

-----------------------------------------------------------------------------
(* The server: what it does in its execution context happens between two   *)
(* callbacks.                                                              *)

ServerSwitches ==
  /\ callback = "none"
  /\ Server!BecomesReady \/ Server!Disconnects
  /\ UNCHANGED <<callback, response, muxVars, portVars>>

Calls(method, answered) ==
  /\ callback = "none" /\ callback' = method
  /\ response' = answered
  /\ UNCHANGED <<muxVars, portVars>>

ServerTellsReady == Server!OnReady /\ Calls("OnReady", None)
ServerTellsDisconnected == Server!OnDisconnected /\ Calls("OnDisconnected", None)
ServerLends == Server!LoanExecutionContext /\ Calls("LoanExecutionContext", None)
ServerAnswers ==
  Server!OnRequestProcessed /\ Calls("OnRequestProcessed", Head(pending))

-----------------------------------------------------------------------------
(* The RODAN interface of the multiplexer *)

(* Disconnect() is in process: the call is ignored. *)
CallIgnored ==
  /\ callback # "none" /\ MuxMutexFree
  /\ muxState = "disconnecting"
  /\ callback' = "none" /\ response' = None
  /\ UNCHANGED <<client, ready, told, pending, loan, muxVars, portVars>>

OnReady ==
  /\ callback = "OnReady" /\ MuxMutexFree
  /\ muxState = "notReady" /\ muxState' = "ready"
  /\ loop' = Visits(callback)
  /\ UNCHANGED <<serverVars, user, nPorts, held, portVars>>

OnDisconnected ==
  /\ callback = "OnDisconnected" /\ MuxMutexFree
  /\ muxState = "ready" /\ muxState' = "notReady"
  /\ loop' = Visits(callback)
  /\ UNCHANGED <<serverVars, user, nPorts, held, portVars>>

LoanExecutionContext ==
  /\ callback = "LoanExecutionContext" /\ MuxMutexFree
  /\ muxState = "ready"
  /\ loop' = Visits(callback)
  /\ UNCHANGED <<serverVars, muxState, user, nPorts, held, portVars>>

(* Deviation: the session of the request is not looked at. *)
GivenToClient_AnySession(m) == m.what # "ping" /\ state[m.port] = "ready"

(* A response is given to the client of the port if that client has opened *)
(* the session; a client that does not wait for it is left with None.      *)
GivenToClient(m) ==
  /\ m.what # "ping"
  /\ state[m.port] = "ready"
  /\ m.session = sessionID[m.port]

Receives(requests, r) ==
  IF requests # <<>> /\ Head(requests) = r THEN Tail(requests) ELSE <<None>>

GiveResponse ==
  LET p == response.port
  IN  open' = IF GivenToClient(response)
              THEN [open EXCEPT ![p] = Receives(@, response.what)] ELSE open

(* The ping that was sent when the current session began tells that no     *)
(* older message is left.                                                  *)
PingReturns ==
  LET p == response.port
  IN  oldestUsedSessionID' =
        IF response.what = "ping" /\ response.session = sessionID[p]
        THEN [oldestUsedSessionID EXCEPT ![p] = sessionID[p]] ELSE oldestUsedSessionID

OnRequestProcessed ==
  /\ callback = "OnRequestProcessed" /\ MuxMutexFree
  /\ muxState = "ready"
  /\ GiveResponse /\ PingReturns
  /\ callback' = "none" /\ response' = None
  /\ UNCHANGED <<client, ready, told, pending, loan, muxVars, state, sessionID, sessionIDUsed,
                 execContextRequested, informed>>

-----------------------------------------------------------------------------
(* The loops over all ports *)

InLoop(by) == loop.by \in by /\ loop.at <= nPorts /\ loop.calls = "none"
CallsNext(method) == loop' = [loop EXCEPT !.calls = method]
VisitsNext == loop' = [loop EXCEPT !.at = @ + 1, !.calls = "none"]

SwitchToReady ==
  LET p == loop.at
  IN  /\ InLoop({"OnReady", "LoanExecutionContext"})
      /\ state[p] = "notReady"
      /\ state' = [state EXCEPT ![p] = "ready"]
      /\ CallsNext("OnReady")
      /\ UNCHANGED <<serverVars, muxState, user, nPorts, held, sessionVars,
                     execContextRequested, clientVars>>

ForgetsOldSessions(p) ==
  oldestUsedSessionID' = [oldestUsedSessionID EXCEPT ![p] = sessionID[p]]

SwitchToNotReady ==
  LET p == loop.at
  IN  /\ InLoop({"OnDisconnected", "Disconnect"})
      /\ IF state[p] = "ready"
         THEN /\ state' = [state EXCEPT ![p] = "notReady"]
              /\ execContextRequested' = [execContextRequested EXCEPT ![p] = FALSE]
              /\ open' = [open EXCEPT ![p] = <<>>]
              /\ CallsNext("OnDisconnected")
         ELSE VisitsNext /\ UNCHANGED <<state, execContextRequested, open>>
      /\ ForgetsOldSessions(p)
      /\ UNCHANGED <<serverVars, muxState, user, nPorts, held, sessionID, sessionIDUsed,
                     informed>>

Lend ==
  LET p == loop.at
  IN  /\ InLoop({"LoanExecutionContext"})
      /\ state[p] = "ready" /\ execContextRequested[p]
      /\ execContextRequested' = [execContextRequested EXCEPT ![p] = FALSE]
      /\ CallsNext("LoanExecutionContext")
      /\ UNCHANGED <<serverVars, muxState, user, nPorts, held, state, sessionVars, clientVars>>

NothingToDo ==
  LET p == loop.at
  IN  /\ InLoop({"OnReady", "LoanExecutionContext"})
      /\ state[p] # "notReady"
      /\ loop.by = "LoanExecutionContext" => ~(state[p] = "ready" /\ execContextRequested[p])
      /\ VisitsNext
      /\ UNCHANGED <<serverVars, muxState, user, nPorts, held, portVars>>

(* The client is called, and returns. *)
CallClient ==
  LET p == loop.at
  IN  /\ loop.calls # "none"
      /\ informed' = [informed EXCEPT ![p] = loop.calls # "OnDisconnected"]
      /\ VisitsNext
      /\ UNCHANGED <<serverVars, muxState, user, nPorts, held, state, sessionVars,
                     execContextRequested, open>>

(* muxMutex is unlocked; Disconnect() goes on to pRODA->Unregister(). *)
LoopEnds ==
  /\ loop.by # "none" /\ loop.at > nPorts
  /\ loop' = NoLoop
  /\ IF loop.by = "Disconnect"
     THEN user' = "unregistering" /\ UNCHANGED callback
     ELSE callback' = "none" /\ UNCHANGED user
  /\ UNCHANGED <<client, ready, told, pending, loan, response, muxState, nPorts, held, portVars>>

-----------------------------------------------------------------------------
(* The interface of the multiplexer; connectMutex is locked while user is  *)
(* not "none".                                                             *)

ConnectBegins ==
  /\ user = "none" /\ MuxMutexFree
  /\ muxState = "notConnected"
  /\ muxState' = "notReady" /\ user' = "connecting"
  /\ UNCHANGED <<serverVars, loop, nPorts, held, portVars>>

ConnectEnds ==
  /\ user = "connecting" /\ user' = "none"
  /\ \/ Server!Register("mux") /\ UNCHANGED muxState
     \/ /\ MuxMutexFree     \* Register() has thrown
        /\ muxState' = "notConnected"
        /\ UNCHANGED <<client, ready, told, pending, loan>>
  /\ UNCHANGED <<callback, response, loop, nPorts, held, portVars>>

(* Deviation: callbacks of the server are not ignored from now on. *)
DisconnectBegins_Unannounced ==
  /\ user = "none" /\ MuxMutexFree
  /\ muxState # "notConnected"
  /\ user' = "disconnecting" /\ loop' = Visits("Disconnect")
  /\ UNCHANGED <<serverVars, muxState, nPorts, held, portVars>>

DisconnectBegins ==
  /\ user = "none" /\ MuxMutexFree
  /\ muxState # "notConnected"
  /\ muxState' = "disconnecting" /\ user' = "disconnecting"
  /\ loop' = Visits("Disconnect")
  /\ UNCHANGED <<serverVars, nPorts, held, portVars>>

(* pRODA->Unregister() waits until the server has returned from callbacks. *)
DisconnectUnregisters ==
  /\ user = "unregistering" /\ user' = "unregistered"
  /\ callback = "none"
  /\ Server!Unregister
  /\ UNCHANGED <<callback, response, muxState, loop, nPorts, held, portVars>>

DisconnectEnds ==
  /\ user = "unregistered" /\ user' = "none"
  /\ MuxMutexFree
  /\ muxState' = "notConnected"
  /\ UNCHANGED <<serverVars, loop, nPorts, held, portVars>>

(* A port nobody refers to is used again. *)
CreatePort ==
  LET dropped == {p \in 1..nPorts : p \notin held}
      p == IF dropped = {} THEN nPorts + 1 ELSE CHOOSE q \in dropped : \A r \in dropped : q <= r
  IN  /\ MuxMutexFree
      /\ p \in Port
      /\ held' = held \cup {p}
      /\ nPorts' = IF p > nPorts THEN p ELSE nPorts
      /\ UNCHANGED <<serverVars, muxState, loop, user, portVars>>

DropPort(p) ==
  /\ p \in held
  /\ state[p] = "noClientRegistered"
  /\ held' = held \ {p}
  /\ UNCHANGED <<serverVars, muxState, loop, user, nPorts, portVars>>

-----------------------------------------------------------------------------
(* The RODA interface of a port *)

NextSession(p) == (sessionID[p] + 1) % NSessions
Full(p) == NextSession(p) = oldestUsedSessionID[p]

(* Deviation: the ping closes the session that ends. *)
Ping_OldSession(p) == [port |-> p, session |-> sessionID[p], what |-> "ping"]

Ping(p) == [port |-> p, session |-> NextSession(p), what |-> "ping"]

(* A server that has become not ready meanwhile refuses both; that is of   *)
(* no consequence.                                                         *)
Register(p) ==
  LET reached == muxState = "ready" /\ ready
  IN  /\ MuxMutexFree
      /\ p \in held
      /\ state[p] = "noClientRegistered" /\ ~Full(p)
      /\ loan' = (loan \/ reached)
      /\ pending' = IF reached /\ sessionIDUsed[p] THEN Append(pending, Ping(p)) ELSE pending
      /\ sessionID' = IF sessionIDUsed[p] THEN [sessionID EXCEPT ![p] = NextSession(p)]
                      ELSE sessionID
      /\ sessionIDUsed' = [sessionIDUsed EXCEPT ![p] = FALSE]
      /\ state' = [state EXCEPT ![p] = "notReady"]
      /\ UNCHANGED <<client, ready, told, callback, response, muxVars, oldestUsedSessionID,
                     execContextRequested, clientVars>>

(* No memory for the ping *)
RegisterFails(p) ==
  /\ MuxMutexFree
  /\ p \in held
  /\ state[p] = "noClientRegistered" /\ ~Full(p)
  /\ muxState = "ready" /\ sessionIDUsed[p]
  /\ Server!RequestExecutionContext
  /\ UNCHANGED <<callback, response, muxVars, portVars>>

Unregister(p) ==
  /\ MuxMutexFree
  /\ state[p] # "noClientRegistered"
  /\ state' = [state EXCEPT ![p] = "noClientRegistered"]
  /\ execContextRequested' = [execContextRequested EXCEPT ![p] = FALSE]
  /\ informed' = [informed EXCEPT ![p] = FALSE]
  /\ open' = [open EXCEPT ![p] = <<>>]
  /\ UNCHANGED <<serverVars, muxVars, sessionVars>>

(* The messages the server has accepted and whose answer was not given to  *)
(* the multiplexer *)
Underway == (IF response = None THEN <<>> ELSE <<response>>) \o pending

Send(p, r) ==
  /\ state[p] = "ready"
  /\ \A i \in 1..Len(Underway) : Underway[i].what # r
  /\ Server!Send([port |-> p, session |-> sessionID[p], what |-> r])
  /\ sessionIDUsed' = [sessionIDUsed EXCEPT ![p] = TRUE]
  /\ open' = [open EXCEPT ![p] = Append(@, r)]
  /\ UNCHANGED <<callback, response, muxVars, state, sessionID, oldestUsedSessionID,
                 execContextRequested, informed>>

RequestExecutionContext(p) ==
  /\ state[p] = "ready"
  /\ Server!RequestExecutionContext
  /\ execContextRequested' = [execContextRequested EXCEPT ![p] = TRUE]
  /\ UNCHANGED <<callback, response, muxVars, state, sessionVars, clientVars>>

-----------------------------------------------------------------------------
ServerCalls == ServerTellsReady \/ ServerTellsDisconnected \/ ServerLends \/ ServerAnswers

MuxMethods == CallIgnored \/ OnReady \/ OnDisconnected \/ LoanExecutionContext \/ OnRequestProcessed

Loops == SwitchToReady \/ SwitchToNotReady \/ Lend \/ NothingToDo \/ CallClient \/ LoopEnds

User ==
  \/ ConnectBegins \/ ConnectEnds
  \/ DisconnectBegins \/ DisconnectUnregisters \/ DisconnectEnds
  \/ CreatePort

PortCalls(p) ==
  \/ DropPort(p)
  \/ Register(p) \/ RegisterFails(p) \/ Unregister(p)
  \/ \E r \in Requests : Send(p, r)
  \/ RequestExecutionContext(p)

Next ==
  \/ ServerSwitches \/ ServerCalls
  \/ MuxMethods \/ Loops
  \/ User
  \/ \E p \in Port : PortCalls(p)

Spec == Init /\ [][Next]_vars

-----------------------------------------------------------------------------
TypeOK ==
  /\ client \in {"mux", None}
  /\ {ready, told, loan} \subseteq BOOLEAN
  /\ pending \in Seq(Message)
  /\ callback \in {"none", "OnReady", "OnDisconnected", "OnRequestProcessed",
                   "LoanExecutionContext"}
  /\ response \in Message \cup {None}
  /\ muxState \in {"notConnected", "disconnecting", "notReady", "ready"}
  /\ loop \in [by : {"none", "OnReady", "OnDisconnected", "LoanExecutionContext", "Disconnect"},
               at : 0..(NPorts + 1),
               calls : {"none", "OnReady", "OnDisconnected", "LoanExecutionContext"}]
  /\ user \in {"none", "connecting", "disconnecting", "unregistering", "unregistered"}
  /\ nPorts \in 0..NPorts /\ held \subseteq 1..nPorts
  /\ state \in [Port -> {"noClientRegistered", "notReady", "ready"}]
  /\ sessionID \in [Port -> Session] /\ oldestUsedSessionID \in [Port -> Session]
  /\ sessionIDUsed \in [Port -> BOOLEAN]
  /\ execContextRequested \in [Port -> BOOLEAN]
  /\ informed \in [Port -> BOOLEAN] /\ open \in [Port -> Seq(Requests \cup {None})]

(* No PANIC() is reachable: whatever the server calls, the multiplexer is  *)
(* in a state that expects it, and a port that is ready has a server,      *)
(* although connections are made and given up by other threads.            *)
NeverPanics ==
  /\ callback # "none" /\ MuxMutexFree =>
       \/ muxState = "disconnecting"
       \/ muxState = IF callback = "OnReady" THEN "notReady" ELSE "ready"
  /\ \A p \in Port : state[p] = "ready" => muxState # "notConnected" /\ client # None

(* Nobody is forgotten.  A port that waits to become ready, or for the     *)
(* execution context, will be visited by a loop, or the server has been    *)
(* asked for one.  Every request a client waits for is under way.  A port  *)
(* that cannot register a client for want of session IDs has a ping under  *)
(* way that will free them, or is about to learn that the connection is    *)
(* lost.                                                                   *)
WillBeVisited(p) ==
  \/ callback = "LoanExecutionContext" /\ MuxMutexFree
  \/ loop.by = "OnReady" /\ loop.at <= p /\ state[p] = "notReady"
  \/ /\ loop.by = "LoanExecutionContext"
     /\ loop.at < p \/ (loop.at = p /\ loop.calls = "none")
IsUnderway(p, what) ==
  \E i \in 1..Len(Underway) :
    Underway[i] = [port |-> p, session |-> sessionID[p], what |-> what]
NobodyForgotten ==
  \A p \in 1..nPorts :
    /\ muxState = "ready" /\ ready /\ (state[p] = "notReady" \/ execContextRequested[p]) =>
         loan \/ WillBeVisited(p)
    /\ state[p] = "ready" /\ ready =>
         \A k \in 1..Len(open[p]) : IsUnderway(p, open[p][k])
    /\ Full(p) =>
         \/ IsUnderway(p, "ping")
         \/ ~ready /\ muxState = "ready"
         \/ loop.by \in {"OnDisconnected", "Disconnect"} /\ loop.at <= p

(* Every port is a pair of RODA and RODAN interfaces: its client sees what *)
(* RemoteAccess promises, whatever the clients of the other ports and its  *)
(* predecessors at the same port do; in particular it is given no response *)
(* to a request that is not its own, although session IDs are used again.  *)
PortReady(p) == state[p] = "ready" /\ ready
RODA(p) == INSTANCE RemoteAccess WITH
  Clients <- {p},
  client <- IF state[p] = "noClientRegistered" THEN None ELSE p,
  ready <- PortReady(p),
  told <- informed[p],
  pending <- IF PortReady(p) THEN open[p] ELSE <<>>,
  loan <- PortReady(p) /\ execContextRequested[p]
ImplementsRemoteAccess ==
  /\ \A p \in Port : RODA(p)!Init
  /\ [][\A p \in Port : RODA(p)!Next \/ UNCHANGED RODA(p)!rodaVars]_vars
=============================================================================
