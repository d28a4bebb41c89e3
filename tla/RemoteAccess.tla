----------------------------- MODULE RemoteAccess -----------------------------
(***************************************************************************)
(* What a pair of RODA and RODAN interfaces promises to a client: it is    *)
(* told when the interface is ready and when it is disconnected; requests  *)
(* are accepted while the interface is ready, answered in the order in     *)
(* which they were sent, each once, and dropped only by a disconnection    *)
(* or by Unregister(); nothing is called after Unregister() has returned.  *)
(***************************************************************************)
EXTENDS Sequences

CONSTANTS Clients, Requests, None

VARIABLES client,   \* the client that is registered
          ready,    \* requests are accepted
          told,     \* the client has been told that the interface is ready
          pending,  \* requests that are not yet answered, in order
          loan      \* LoanExecutionContext() has been asked for

rodaVars == <<client, ready, told, pending, loan>>

Init ==
  /\ client = None
  /\ ready = FALSE /\ told = FALSE
  /\ pending = <<>>
  /\ loan = FALSE

Register(c) ==
  /\ client = None
  /\ client' = c
  /\ UNCHANGED <<ready, told, pending, loan>>

Unregister ==
  /\ client # None
  /\ client' = None
  /\ ready' = FALSE /\ told' = FALSE
  /\ pending' = <<>> /\ loan' = FALSE

BecomesReady ==
  /\ client # None /\ ~ready /\ ~told
  /\ ready' = TRUE
  /\ UNCHANGED <<client, told, pending, loan>>

OnReady ==
  /\ ready /\ ~told
  /\ told' = TRUE
  /\ UNCHANGED <<client, ready, pending, loan>>

Send(r) ==
  /\ ready
  /\ pending' = Append(pending, r)
  /\ UNCHANGED <<client, ready, told, loan>>

OnRequestProcessed ==
  /\ told /\ ready
  /\ pending # <<>>
  /\ pending' = Tail(pending)
  /\ UNCHANGED <<client, ready, told, loan>>

RequestExecutionContext ==
  /\ ready
  /\ loan' = TRUE
  /\ UNCHANGED <<client, ready, told, pending>>

LoanExecutionContext ==
  /\ told /\ ready
  /\ loan
  /\ loan' = FALSE
  /\ UNCHANGED <<client, ready, told, pending>>

Disconnects ==
  /\ ready /\ told
  /\ ready' = FALSE
  /\ pending' = <<>> /\ loan' = FALSE
  /\ UNCHANGED <<client, told>>

OnDisconnected ==
  /\ ~ready /\ told
  /\ told' = FALSE
  /\ UNCHANGED <<client, ready, pending, loan>>

Next ==
  \/ \E c \in Clients : Register(c)
  \/ \E r \in Requests : Send(r)
  \/ Unregister
  \/ BecomesReady \/ OnReady
  \/ OnRequestProcessed
  \/ RequestExecutionContext \/ LoanExecutionContext
  \/ Disconnects \/ OnDisconnected

Spec == Init /\ [][Next]_rodaVars
=============================================================================
