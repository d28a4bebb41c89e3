---------------------------- MODULE Services_proofs ----------------------------
(***************************************************************************)
(* Proofs about the two components that serve clients which know nothing   *)
(* of each other: Multiplexer and ThreadedLogFacility.  Both implement the *)
(* abstract interface that each client, or all of them, see.               *)
(*                                                                         *)
(* Multiplexer, for any number of ports, session IDs and requests: no      *)
(* panic is reached, nobody is forgotten, and every port is a RODA/RODAN   *)
(* interface.  Session IDs are reused.  The argument looks at the messages *)
(* inside the server in the order in which they will be answered: at each  *)
(* port their sessions lie between the oldest used one and the current     *)
(* one, they are sorted, and once these two are two apart a ping of the    *)
(* current session is the last of them that matters.                       *)
(*                                                                         *)
(* ThreadedLogFacility, for any messages, capacity, limit of the counters, *)
(* clients and calls: types, no lost wake-up of the thread or of a client  *)
(* in Flush(), and that it implements MessageLog.  A dropped message       *)
(* signals nobody.  That this strands nobody rests on the accounting: the  *)
(* remaining capacity is exactly what the limited messages in the queue    *)
(* and in the hands of the thread leave over.                              *)
(***************************************************************************)
EXTENDS Multiplexer, ThreadedLogFacility, SequenceTheorems, FiniteSetTheorems, TLAPS

(* How many sessions after session o session s was begun *)
Rank(o, s) == IF o <= s THEN s - o ELSE s + NSessions - o

(* The messages u of port p belong to sessions from o to s, the older ones *)
(* are in front.                                                           *)
Ordered(u, p, o, s) ==
  /\ \A i \in 1..Len(u) : u[i].port = p => Rank(o, u[i].session) <= Rank(o, s)
  /\ \A i, j \in 1..Len(u) :
       i < j /\ u[i].port = p /\ u[j].port = p => Rank(o, u[i].session) <= Rank(o, u[j].session)

(* The requests that session s of port p has sent *)
Own(m, p, s) == m.port = p /\ m.session = s /\ m.what # "ping"
NoOwn(u, p, s) == \A i \in 1..Len(u) : ~Own(u[i], p, s)

(* The requests among the messages u that session s of port p has sent are *)
(* the sequence w.                                                         *)
Matches(u, p, s, w) ==
  \E f \in [1..Len(w) -> 1..Len(u)] :
    /\ \A i, j \in 1..Len(w) : i < j => f[i] < f[j]
    /\ \A i \in 1..Len(w) : u[f[i]] = [port |-> p, session |-> s, what |-> w[i]]
    /\ \A k \in 1..Len(u) : Own(u[k], p, s) => \E i \in 1..Len(w) : f[i] = k

-----------------------------------------------------------------------------
(* The server, as the multiplexer can rely on it *)
ServerInv ==
  /\ client = None => ~ready /\ ~told
  /\ ~ready => pending = <<>> /\ ~loan
  /\ callback # "none" => client # None
  /\ callback \in {"OnReady", "LoanExecutionContext", "OnRequestProcessed"} => ready /\ told
  /\ callback = "OnDisconnected" => ~ready /\ ~told
  /\ response # None <=> callback = "OnRequestProcessed"

(* In which state the multiplexer is while the server is in which one *)
MuxInv ==
  /\ muxState = "notConnected" => user = "none" /\ client = None
  /\ muxState = "notReady" =>
       /\ user = IF client = None THEN "connecting" ELSE "none"
       /\ told => callback = "OnReady" /\ loop.by = "none"
       /\ callback # "none" => \/ callback = "OnReady" /\ loop.by = "none"
                               \/ callback = "OnDisconnected" /\ loop.by = "OnDisconnected"
  /\ muxState = "ready" =>
       /\ user = "none" /\ client # None
       /\ told \/ callback = "OnDisconnected"
       /\ callback = "OnReady" => loop.by = "OnReady"
  /\ muxState = "disconnecting" <=> user \in {"disconnecting", "unregistering", "unregistered"}
  /\ muxState = "disconnecting" => (client = None <=> user = "unregistered")

LoopInv ==
  /\ loop.by = "none" <=> MuxMutexFree
  /\ loop.by = "Disconnect" <=> user = "disconnecting"
  /\ loop.by \in {"OnReady", "OnDisconnected", "LoanExecutionContext"} =>
       /\ callback = loop.by
       /\ muxState = IF loop.by = "OnDisconnected" THEN "notReady" ELSE "ready"
  /\ loop.by # "none" => loop.at >= 1
  /\ loop.calls # "none" =>
       /\ loop.by # "none" /\ loop.at \in 1..nPorts
       /\ loop.calls = "OnDisconnected" <=> loop.by \in {"OnDisconnected", "Disconnect"}
       /\ state[loop.at] = IF loop.calls = "OnDisconnected" THEN "notReady" ELSE "ready"

(* The loop of OnDisconnected() or Disconnect() has still to visit p. *)
NotVisited(p) ==
  /\ loop.by \in {"OnDisconnected", "Disconnect"}
  /\ loop.at < p \/ (loop.at = p /\ loop.calls = "none")

PortInv(p) ==
  /\ state[p] # "noClientRegistered" => p \in held
  /\ state[p] = "ready" =>
       /\ muxState = "ready" \/ NotVisited(p)
       /\ told \/ callback = "OnDisconnected"
  /\ state[p] # "ready" => ~execContextRequested[p] /\ open[p] = <<>>
  /\ state[p] = "noClientRegistered" => ~informed[p]
  /\ state[p] = "notReady" =>
       (informed[p] <=> loop.at = p /\ loop.calls = "OnDisconnected")
  /\ state[p] = "ready" => (informed[p] <=> ~(loop.at = p /\ loop.calls = "OnReady"))

Control == TypeOK /\ ServerInv /\ MuxInv /\ LoopInv /\ \A p \in Port : PortInv(p)

(* Sessions.  A port that has used its session before the connection was   *)
(* lost begins one new session at most until there is a new connection.    *)
Distance(p) == Rank(oldestUsedSessionID[p], sessionID[p])
SessionsInv(p) ==
  /\ muxState = "ready" =>
       /\ Ordered(Underway, p, oldestUsedSessionID[p], sessionID[p])
       /\ ready => Distance(p) <= 1 \/ IsUnderway(p, "ping")
       /\ state[p] = "notReady" \/ ~sessionIDUsed[p] => NoOwn(Underway, p, sessionID[p])
  /\ muxState # "ready" =>
       \/ NotVisited(p)
       \/ Distance(p) = 0
       \/ Distance(p) = 1 /\ ~sessionIDUsed[p]
  /\ p > nPorts => Distance(p) = 0 /\ ~sessionIDUsed[p]
  /\ state[p] = "ready" /\ ready => Matches(Underway, p, sessionID[p], open[p])

(* The first part of NobodyForgotten *)
ServedInv(p) ==
  muxState = "ready" /\ ready /\ (state[p] = "notReady" \/ execContextRequested[p]) =>
    loan \/ WillBeVisited(p)

(* No request is inside the server before the multiplexer has learnt that  *)
(* it is ready, or after it has learnt that it is disconnected.            *)
NothingPending == muxState \in {"notConnected", "notReady"} => pending = <<>>

IInv ==
  /\ Control
  /\ NothingPending
  /\ \A p \in Port : SessionsInv(p) /\ ServedInv(p)

-----------------------------------------------------------------------------
(* Facts about sessions *)

(* The session ID after the largest one is 0.                              *)
LEMMA Successor ==
  \A s \in Session : (s + 1) % NSessions = IF s = NSessions - 1 THEN 0 ELSE s + 1
<1> SUFFICES ASSUME NEW s \in Session
    PROVE (s + 1) % NSessions = IF s = NSessions - 1 THEN 0 ELSE s + 1
  OBVIOUS
<1>1. NSessions \in Nat /\ NSessions >= 3 /\ s \in Nat /\ s <= NSessions - 1
  BY PortsAssumption DEF Session
<1> QED
  BY <1>1

(* Ranks are smaller than the number of session IDs.                       *)
LEMMA RankType == \A o, s \in Session : Rank(o, s) \in 0..(NSessions - 1)
BY PortsAssumption DEF Rank, Session

(* Two sessions of the same rank are the same.                             *)
LEMMA RankInjective == \A o, s, t \in Session : Rank(o, s) = Rank(o, t) => s = t
BY PortsAssumption DEF Rank, Session

(* The oldest session has rank 0.                                          *)
LEMMA RankZero == \A o \in Session : Rank(o, o) = 0
BY PortsAssumption DEF Rank, Session

(* As long as the next session is not the oldest used one it is the first  *)
(* after all that are in use.                                              *)
LEMMA RankOfNext ==
  \A o, s \in Session : (s + 1) % NSessions # o =>
    /\ (s + 1) % NSessions \in Session
    /\ Rank(o, (s + 1) % NSessions) = Rank(o, s) + 1
BY PortsAssumption, Successor DEF Rank, Session

(* If the next session is the oldest used one, all IDs are in use.         *)
LEMMA RankOfFull ==
  \A o, s \in Session : (s + 1) % NSessions = o => Rank(o, s) = NSessions - 1
BY PortsAssumption, Successor DEF Rank, Session

-----------------------------------------------------------------------------
(* Facts about sequences of messages *)

(* The parts of the messages in a sequence have their types.               *)
LEMMA MessageSeq ==
  ASSUME NEW u \in Seq(Message)
  PROVE  /\ Len(u) \in Nat
         /\ \A i \in 1..Len(u) : /\ u[i] \in Message /\ u[i].port \in Port
                                 /\ u[i].session \in Session
                                 /\ u[i].what \in Requests \cup {"ping"}
<1>1. \A m \in Message : /\ m.port \in Port /\ m.session \in Session
                         /\ m.what \in Requests \cup {"ping"}
  BY DEF Message
<1>2. Len(u) \in Nat /\ \A i \in 1..Len(u) : u[i] \in Message
  OBVIOUS
<1> QED
  BY <1>1, <1>2

(* The messages behind the first one                                       *)
LEMMA MessageTail ==
  ASSUME NEW u \in Seq(Message), u # <<>>
  PROVE  /\ Tail(u) \in Seq(Message) /\ Len(Tail(u)) = Len(u) - 1
         /\ Len(u) \in Nat \ {0} /\ Head(u) = u[1]
         /\ \A i \in 1..Len(Tail(u)) : Tail(u)[i] = u[i + 1] /\ i + 1 \in 1..Len(u)
BY HeadTailProperties

(* The messages with one more at the end                                   *)
LEMMA MessageAppend ==
  ASSUME NEW u \in Seq(Message), NEW m \in Message
  PROVE  /\ Append(u, m) \in Seq(Message) /\ Len(Append(u, m)) = Len(u) + 1 /\ Len(u) \in Nat
         /\ \A i \in 1..Len(u) : Append(u, m)[i] = u[i] /\ i \in 1..Len(Append(u, m))
         /\ Append(u, m)[Len(u) + 1] = m
BY AppendProperties

(* An answered message leaves the others in order.                         *)
LEMMA OrderedTail ==
  ASSUME NEW u \in Seq(Message), u # <<>>, NEW p \in Port, NEW o \in Session, NEW s \in Session,
         Ordered(u, p, o, s)
  PROVE  Ordered(Tail(u), p, o, s)
BY MessageTail DEF Ordered

(* Without messages everything is in order.                                *)
LEMMA OrderedEmpty ==
  \A p, o, s : Ordered(<<>>, p, o, s)
BY DEF Ordered

(* A message of the current session, or of the next one, is sent. *)
LEMMA OrderedAppend ==
  ASSUME NEW u \in Seq(Message), NEW p \in Port, NEW o \in Session, NEW s \in Session,
         NEW t \in Session, NEW m \in Message,
         Ordered(u, p, o, s), Rank(o, s) <= Rank(o, t), m.port = p => m.session = t
  PROVE  Ordered(Append(u, m), p, o, t)
<1> DEFINE v == Append(u, m)
<1>1. /\ Len(v) = Len(u) + 1 /\ Len(u) \in Nat
      /\ \A i \in 1..Len(u) : v[i] = u[i]
      /\ v[Len(u) + 1] = m
  BY MessageAppend
<1>2. /\ Rank(o, s) \in Int /\ Rank(o, t) \in Int
      /\ \A i \in 1..Len(u) : Rank(o, u[i].session) \in Int
  BY MessageSeq, RankType
<1>3. \A i \in 1..Len(u) : v[i].port = p => Rank(o, v[i].session) <= Rank(o, t)
  BY <1>1, <1>2 DEF Ordered
<1>4. v[Len(u) + 1].port = p => Rank(o, v[Len(u) + 1].session) = Rank(o, t)
  BY <1>1
<1> HIDE DEF v
<1>5. \A i \in 1..Len(v) : i \in 1..Len(u) \/ i = Len(u) + 1
  BY <1>1
<1>6. \A i \in 1..Len(v) : v[i].port = p => Rank(o, v[i].session) <= Rank(o, t)
  BY <1>2, <1>3, <1>4, <1>5
<1>7. ASSUME NEW i \in 1..Len(v), NEW j \in 1..Len(v), i < j, v[i].port = p, v[j].port = p
      PROVE  Rank(o, v[i].session) <= Rank(o, v[j].session)
  <2>1. i \in 1..Len(u)
    BY <1>1, <1>5, <1>7
  <2>2. CASE j \in 1..Len(u)
    BY <1>1, <1>7, <2>1, <2>2 DEF Ordered
  <2>3. CASE j = Len(u) + 1
    BY <1>3, <1>4, <1>7, <2>1, <2>3
  <2> QED
    BY <1>5, <2>2, <2>3
<1> QED
  BY <1>6, <1>7 DEF Ordered, v

(* When the message in front belongs to the current session all others of  *)
(* the port do, too.                                                       *)
LEMMA OrderedCloses ==
  ASSUME NEW u \in Seq(Message), u # <<>>, NEW p \in Port, NEW o \in Session, NEW s \in Session,
         Ordered(u, p, o, s), Head(u).port = p, Head(u).session = s
  PROVE  Ordered(Tail(u), p, s, s)
<1>1. /\ Len(u) \in Nat \ {0} /\ Head(u) = u[1] /\ Len(Tail(u)) = Len(u) - 1
      /\ \A i \in 1..Len(Tail(u)) : Tail(u)[i] = u[i + 1] /\ i + 1 \in 1..Len(u)
  BY MessageTail
<1>2. ASSUME NEW i \in 1..Len(Tail(u)), Tail(u)[i].port = p
      PROVE  Tail(u)[i].session = s
  <2>1. Tail(u)[i] = u[i + 1] /\ i + 1 \in 1..Len(u) /\ 1 < i + 1 /\ 1 \in 1..Len(u)
    BY <1>1
  <2>2. Rank(o, u[i + 1].session) <= Rank(o, s) /\ Rank(o, s) <= Rank(o, u[i + 1].session)
    BY <1>1, <1>2, <2>1 DEF Ordered
  <2>3. u[i + 1].session \in Session
    BY <2>1, MessageSeq
  <2> QED
    BY <2>1, <2>2, <2>3, RankType, RankInjective
<1> QED
  BY <1>2, RankZero DEF Ordered

-----------------------------------------------------------------------------
(* Facts about Matches *)

(* No request is waited for when none of the session is under way.         *)
LEMMA MatchesNothing ==
  ASSUME NEW u \in Seq(Message), NEW p \in Port, NEW s \in Session, NoOwn(u, p, s)
  PROVE  Matches(u, p, s, <<>>)
<1> DEFINE w == <<>>
           f == [i \in 1..Len(w) |-> 1]
<1>1. \A i \in 1..Len(w) : FALSE
  OBVIOUS
<1> HIDE DEF w
<1>2. f \in [1..Len(w) -> 1..Len(u)]
  BY <1>1
<1>3. Matches(u, p, s, w)
  BY <1>1, <1>2 DEF Matches, NoOwn
<1> QED
  BY <1>3 DEF w

(* A message that is no request of this session changes nothing.           *)
LEMMA MatchesOtherSent ==
  ASSUME NEW u \in Seq(Message), NEW m \in Message, NEW p \in Port, NEW s \in Session,
         NEW w \in Seq(Requests), Matches(u, p, s, w), ~Own(m, p, s)
  PROVE  Matches(Append(u, m), p, s, w)
<1> DEFINE v == Append(u, m)
<1>1. /\ Len(v) = Len(u) + 1 /\ Len(u) \in Nat
      /\ \A i \in 1..Len(u) : v[i] = u[i] /\ i \in 1..Len(v)
      /\ v[Len(u) + 1] = m
  BY MessageAppend
<1>2. PICK f \in [1..Len(w) -> 1..Len(u)] :
        /\ \A i, j \in 1..Len(w) : i < j => f[i] < f[j]
        /\ \A i \in 1..Len(w) : u[f[i]] = [port |-> p, session |-> s, what |-> w[i]]
        /\ \A k \in 1..Len(u) : Own(u[k], p, s) => \E i \in 1..Len(w) : f[i] = k
  BY DEF Matches
<1> HIDE DEF v
<1>3. f \in [1..Len(w) -> 1..Len(v)]
  BY <1>1
<1>4. \A i \in 1..Len(w) : v[f[i]] = [port |-> p, session |-> s, what |-> w[i]]
  BY <1>1, <1>2
<1>5. \A k \in 1..Len(v) : Own(v[k], p, s) => k \in 1..Len(u)
  BY <1>1
<1>6. \A k \in 1..Len(v) : Own(v[k], p, s) => \E i \in 1..Len(w) : f[i] = k
  BY <1>1, <1>2, <1>5
<1> QED
  BY <1>2, <1>3, <1>4, <1>6 DEF Matches, v

(* A request that is sent is one more to wait for.                         *)
LEMMA MatchesOwnSent ==
  ASSUME NEW u \in Seq(Message), NEW p \in Port, NEW s \in Session, NEW r \in Requests,
         NEW w \in Seq(Requests), Matches(u, p, s, w)
  PROVE  Matches(Append(u, [port |-> p, session |-> s, what |-> r]), p, s, Append(w, r))
<1> DEFINE m == [port |-> p, session |-> s, what |-> r]
           v == Append(u, m)
           x == Append(w, r)
<1>0. m \in Message
  BY DEF Message
<1>1. /\ Len(v) = Len(u) + 1 /\ Len(u) \in Nat
      /\ \A i \in 1..Len(u) : v[i] = u[i] /\ i \in 1..Len(v)
      /\ v[Len(u) + 1] = m
  BY <1>0, MessageAppend
<1>2. /\ Len(x) = Len(w) + 1 /\ Len(w) \in Nat
      /\ \A i \in 1..Len(w) : x[i] = w[i]
      /\ x[Len(w) + 1] = r
  BY AppendProperties
<1>3. PICK f \in [1..Len(w) -> 1..Len(u)] :
        /\ \A i, j \in 1..Len(w) : i < j => f[i] < f[j]
        /\ \A i \in 1..Len(w) : u[f[i]] = [port |-> p, session |-> s, what |-> w[i]]
        /\ \A k \in 1..Len(u) : Own(u[k], p, s) => \E i \in 1..Len(w) : f[i] = k
  BY DEF Matches
<1> DEFINE g == [i \in 1..Len(x) |-> IF i = Len(w) + 1 THEN Len(u) + 1 ELSE f[i]]
<1> HIDE DEF v, x
<1>4. \A i \in 1..Len(x) : i \in 1..Len(w) \/ i = Len(w) + 1
  BY <1>2
<1>5. /\ \A i \in 1..Len(w) : i \in 1..Len(x) /\ i # Len(w) + 1 /\ f[i] \in 1..Len(u)
      /\ Len(w) + 1 \in 1..Len(x)
  BY <1>2
<1>6. (\A i \in 1..Len(w) : g[i] = f[i]) /\ g[Len(w) + 1] = Len(u) + 1
  BY <1>5
<1>7. g \in [1..Len(x) -> 1..Len(v)]
  BY <1>1, <1>4, <1>5
<1> HIDE DEF g
<1>8. ASSUME NEW i \in 1..Len(x), NEW j \in 1..Len(x), i < j
      PROVE  g[i] < g[j]
  <2>1. i \in 1..Len(w)
    BY <1>2, <1>4, <1>8
  <2> QED
    BY <1>1, <1>3, <1>4, <1>5, <1>6, <1>8, <2>1
<1>9. ASSUME NEW i \in 1..Len(x)
      PROVE  v[g[i]] = [port |-> p, session |-> s, what |-> x[i]]
  <2>1. CASE i = Len(w) + 1
    BY <1>1, <1>2, <1>6, <2>1
  <2>2. CASE i \in 1..Len(w)
    <3>1. f[i] \in 1..Len(u) /\ g[i] = f[i] /\ x[i] = w[i]
      BY <1>2, <1>5, <1>6, <2>2
    <3>2. v[f[i]] = u[f[i]] /\ u[f[i]] = [port |-> p, session |-> s, what |-> w[i]]
      BY <1>1, <1>3, <2>2, <3>1
    <3> QED
      BY <3>1, <3>2
  <2> QED
    BY <1>4, <2>1, <2>2
<1>10. ASSUME NEW k \in 1..Len(v), Own(v[k], p, s)
       PROVE  \E i \in 1..Len(x) : g[i] = k
  <2>1. CASE k = Len(u) + 1
    BY <1>5, <1>6, <2>1
  <2>2. CASE k \in 1..Len(u)
    BY <1>1, <1>3, <1>5, <1>6, <1>10, <2>2
  <2> QED
    BY <1>1, <2>1, <2>2
<1> QED
  BY <1>7, <1>8, <1>9, <1>10 DEF Matches, v, x

(* The message in front is answered. *)
LEMMA MatchesOtherAnswered ==
  ASSUME NEW u \in Seq(Message), u # <<>>, NEW p \in Port, NEW s \in Session,
         NEW w \in Seq(Requests), Matches(u, p, s, w), ~Own(Head(u), p, s)
  PROVE  Matches(Tail(u), p, s, w)
<1> DEFINE v == Tail(u)
<1>1. /\ Len(v) = Len(u) - 1 /\ Len(u) \in Nat \ {0} /\ Head(u) = u[1]
      /\ \A i \in 1..Len(v) : v[i] = u[i + 1] /\ i + 1 \in 1..Len(u)
  BY MessageTail
<1>2. PICK f \in [1..Len(w) -> 1..Len(u)] :
        /\ \A i, j \in 1..Len(w) : i < j => f[i] < f[j]
        /\ \A i \in 1..Len(w) : u[f[i]] = [port |-> p, session |-> s, what |-> w[i]]
        /\ \A k \in 1..Len(u) : Own(u[k], p, s) => \E i \in 1..Len(w) : f[i] = k
  BY DEF Matches
<1>3. \A i \in 1..Len(w) : w[i] \in Requests /\ w[i] # "ping"
  BY PortsAssumption
<1>4. \A i \in 1..Len(w) : Own(u[f[i]], p, s)
  <2> SUFFICES ASSUME NEW i \in 1..Len(w) PROVE Own(u[f[i]], p, s)
    OBVIOUS
  <2>1. u[f[i]] = [port |-> p, session |-> s, what |-> w[i]] /\ w[i] # "ping"
    BY <1>2, <1>3
  <2> QED
    BY <2>1 DEF Own
<1>5. \A i \in 1..Len(w) : f[i] # 1
  BY <1>1, <1>4
<1> DEFINE g == [i \in 1..Len(w) |-> f[i] - 1]
<1> HIDE DEF v
<1>6. g \in [1..Len(w) -> 1..Len(v)]
  BY <1>1, <1>2, <1>5
<1>7. \A i, j \in 1..Len(w) : i < j => g[i] < g[j]
  <2>1. \A i \in 1..Len(w) : f[i] \in Int /\ g[i] = f[i] - 1
    BY <1>1
  <2> HIDE DEF g
  <2> QED
    BY <1>2, <2>1
<1>8. \A i \in 1..Len(w) : v[g[i]] = [port |-> p, session |-> s, what |-> w[i]]
  <2> SUFFICES ASSUME NEW i \in 1..Len(w) PROVE v[g[i]] = [port |-> p, session |-> s, what |-> w[i]]
    OBVIOUS
  <2>1. g[i] \in 1..Len(v) /\ g[i] + 1 = f[i]
    BY <1>1, <1>6
  <2>2. u[f[i]] = [port |-> p, session |-> s, what |-> w[i]]
    BY <1>2
  <2>3. v[g[i]] = u[g[i] + 1]
    BY <1>1, <2>1
  <2> QED
    BY <2>1, <2>2, <2>3
<1>9. \A k \in 1..Len(v) : Own(v[k], p, s) => \E i \in 1..Len(w) : g[i] = k
  <2> SUFFICES ASSUME NEW k \in 1..Len(v), Own(v[k], p, s) PROVE \E i \in 1..Len(w) : g[i] = k
    OBVIOUS
  <2>1. PICK i \in 1..Len(w) : f[i] = k + 1
    BY <1>1, <1>2
  <2> QED
    BY <1>1, <2>1
<1> QED
  BY <1>6, <1>7, <1>8, <1>9 DEF Matches, v

(* The request in front is the one the client has waited for longest.      *)
LEMMA MatchesOwnAnswered ==
  ASSUME NEW u \in Seq(Message), u # <<>>, NEW p \in Port, NEW s \in Session,
         NEW w \in Seq(Requests), Matches(u, p, s, w), Own(Head(u), p, s)
  PROVE  /\ w # <<>> /\ Head(w) = Head(u).what
         /\ Matches(Tail(u), p, s, Tail(w))
<1> DEFINE v == Tail(u)
           x == Tail(w)
<1>1. /\ Len(v) = Len(u) - 1 /\ Len(u) \in Nat \ {0} /\ Head(u) = u[1]
      /\ \A i \in 1..Len(v) : v[i] = u[i + 1] /\ i + 1 \in 1..Len(u)
  BY MessageTail
<1>2. PICK f \in [1..Len(w) -> 1..Len(u)] :
        /\ \A i, j \in 1..Len(w) : i < j => f[i] < f[j]
        /\ \A i \in 1..Len(w) : u[f[i]] = [port |-> p, session |-> s, what |-> w[i]]
        /\ \A k \in 1..Len(u) : Own(u[k], p, s) => \E i \in 1..Len(w) : f[i] = k
  BY DEF Matches
<1>3. Len(w) \in Nat
  OBVIOUS
<1>4. PICK n \in 1..Len(w) : f[n] = 1
  BY <1>1, <1>2
<1>5. n = 1
  <2>1. 1 \in 1..Len(w) /\ (1 < n => f[1] < f[n]) /\ f[1] \in 1..Len(u)
    BY <1>2, <1>3, <1>4
  <2> QED
    BY <1>1, <1>3, <1>4, <2>1
<1>6. w # <<>> /\ Head(w) = w[1] /\ Len(w) \in Nat \ {0}
  BY <1>3, <1>4
<1>7. Head(w) = Head(u).what
  <2>1. u[f[n]] = [port |-> p, session |-> s, what |-> w[n]] /\ u[f[n]] = Head(u)
    BY <1>1, <1>2, <1>4
  <2>2. w[n] = Head(w)
    BY <1>5, <1>6
  <2> QED
    BY <2>1, <2>2
<1>8. Len(x) = Len(w) - 1 /\ \A i \in 1..Len(x) : x[i] = w[i + 1] /\ i + 1 \in 1..Len(w)
  BY <1>6, HeadTailProperties
<1> DEFINE g == [i \in 1..Len(x) |-> f[i + 1] - 1]
<1> HIDE DEF v, x
<1>9. \A i \in 1..Len(x) : i + 1 \in 1..Len(w) /\ f[i + 1] \in 2..Len(u)
  <2> SUFFICES ASSUME NEW i \in 1..Len(x) PROVE i + 1 \in 1..Len(w) /\ f[i + 1] \in 2..Len(u)
    OBVIOUS
  <2>1. i + 1 \in 1..Len(w) /\ 1 \in 1..Len(w) /\ 1 < i + 1
    BY <1>6, <1>8
  <2>2. f[1] < f[i + 1] /\ f[i + 1] \in 1..Len(u) /\ f[1] = 1
    BY <1>2, <1>4, <1>5, <2>1
  <2> QED
    BY <1>1, <2>1, <2>2
<1>10. g \in [1..Len(x) -> 1..Len(v)]
  BY <1>1, <1>9
<1>11. \A i, j \in 1..Len(x) : i < j => g[i] < g[j]
  BY <1>1, <1>2, <1>8, <1>9
<1>12. \A i \in 1..Len(x) : v[g[i]] = [port |-> p, session |-> s, what |-> x[i]]
  <2> SUFFICES ASSUME NEW i \in 1..Len(x) PROVE v[g[i]] = [port |-> p, session |-> s, what |-> x[i]]
    OBVIOUS
  <2>1. g[i] \in 1..Len(v) /\ g[i] + 1 = f[i + 1]
    BY <1>1, <1>9, <1>10
  <2>2. v[g[i]] = u[f[i + 1]]
    BY <1>1, <2>1
  <2>3. u[f[i + 1]] = [port |-> p, session |-> s, what |-> w[i + 1]] /\ x[i] = w[i + 1]
    BY <1>2, <1>8
  <2> QED
    BY <2>2, <2>3
<1>13. \A k \in 1..Len(v) : Own(v[k], p, s) => \E i \in 1..Len(x) : g[i] = k
  <2> SUFFICES ASSUME NEW k \in 1..Len(v), Own(v[k], p, s) PROVE \E i \in 1..Len(x) : g[i] = k
    OBVIOUS
  <2>1. PICK j \in 1..Len(w) : f[j] = k + 1
    BY <1>1, <1>2
  <2>2. j # 1
    BY <1>1, <1>4, <1>5, <2>1
  <2>3. j - 1 \in 1..Len(x) /\ (j - 1) + 1 = j
    BY <1>6, <1>8, <2>2
  <2>4. g[j - 1] = f[j] - 1 /\ k \in Nat
    BY <1>1, <2>3
  <2>5. g[j - 1] = k
    BY <2>1, <2>4
  <2> HIDE DEF g
  <2> QED
    BY <2>3, <2>5
<1> QED
  BY <1>6, <1>7, <1>10, <1>11, <1>12, <1>13 DEF Matches, v, x
-----------------------------------------------------------------------------
(* Typing *)

ServerTypes ==
  /\ client \in {"mux", None}
  /\ ready \in BOOLEAN /\ told \in BOOLEAN /\ loan \in BOOLEAN
  /\ pending \in Seq(Message)
  /\ callback \in {"none", "OnReady", "OnDisconnected", "OnRequestProcessed",
                   "LoanExecutionContext"}
  /\ response \in Message \cup {None}

MuxTypes ==
  /\ muxState \in {"notConnected", "disconnecting", "notReady", "ready"}
  /\ loop.by \in {"none", "OnReady", "OnDisconnected", "LoanExecutionContext", "Disconnect"}
  /\ loop.at \in 0..(NPorts + 1)
  /\ loop.calls \in {"none", "OnReady", "OnDisconnected", "LoanExecutionContext"}
  /\ loop = [by |-> loop.by, at |-> loop.at, calls |-> loop.calls]
  /\ user \in {"none", "connecting", "disconnecting", "unregistering", "unregistered"}
  /\ nPorts \in 0..NPorts /\ held \subseteq 1..nPorts

PortTypes ==
  /\ state \in [Port -> {"noClientRegistered", "notReady", "ready"}]
  /\ sessionID \in [Port -> Session] /\ oldestUsedSessionID \in [Port -> Session]
  /\ sessionIDUsed \in [Port -> BOOLEAN]
  /\ execContextRequested \in [Port -> BOOLEAN] /\ informed \in [Port -> BOOLEAN]
  /\ open \in [Port -> Seq(Requests \cup {None})]

(* TypeOK by the owners of the variables                                   *)
LEMMA Types ==
  /\ TypeOK <=> ServerTypes /\ MuxTypes /\ PortTypes
  /\ TypeOK' <=> ServerTypes' /\ MuxTypes' /\ PortTypes'
<1>1. TypeOK <=> ServerTypes /\ MuxTypes /\ PortTypes
  BY DEF TypeOK, ServerTypes, MuxTypes, PortTypes
<1>2. TypeOK' <=> ServerTypes' /\ MuxTypes' /\ PortTypes'
  BY DEF TypeOK, ServerTypes, MuxTypes, PortTypes
<1> QED
  BY <1>1, <1>2

(* What a step of a loop does to it *)
LEMMA LoopSteps ==
  ASSUME MuxTypes
  PROVE  /\ \A method : CallsNext(method) =>
              loop' = [by |-> loop.by, at |-> loop.at, calls |-> method]
         /\ VisitsNext => loop' = [by |-> loop.by, at |-> loop.at + 1, calls |-> "none"]
BY DEF MuxTypes, CallsNext, VisitsNext

(* The sequences of messages stay sequences. *)
LEMMA SequenceTypes ==
  /\ \A u \in Seq(Message) : u # <<>> => Head(u) \in Message /\ Tail(u) \in Seq(Message)
  /\ <<>> \in Seq(Message) /\ <<>> \in Seq(Requests \cup {None})
  /\ \A u \in Seq(Message), m \in Message : Append(u, m) \in Seq(Message)
  /\ \A w \in Seq(Requests \cup {None}), r \in Requests :
       /\ Append(w, r) \in Seq(Requests \cup {None})
       /\ Receives(w, r) \in Seq(Requests \cup {None})
<1>1. \A u \in Seq(Message) : u # <<>> => Head(u) \in Message /\ Tail(u) \in Seq(Message)
  OBVIOUS
<1>2. \A w \in Seq(Requests \cup {None}), r \in Requests :
        /\ Append(w, r) \in Seq(Requests \cup {None})
        /\ w # <<>> => Tail(w) \in Seq(Requests \cup {None})
        /\ <<None>> \in Seq(Requests \cup {None})
  OBVIOUS
<1>3. /\ <<>> \in Seq(Message) /\ <<>> \in Seq(Requests \cup {None})
      /\ \A u \in Seq(Message), m \in Message : Append(u, m) \in Seq(Message)
  OBVIOUS
<1> QED
  BY <1>1, <1>2, <1>3 DEF Receives

(* Pings and requests of a port are messages.                              *)
LEMMA PingType ==
  ASSUME PortTypes, NEW p \in Port
  PROVE  /\ NextSession(p) \in Session /\ Ping(p) \in Message
         /\ \A r \in Requests : [port |-> p, session |-> sessionID[p], what |-> r] \in Message
<1>1. NextSession(p) \in Session /\ sessionID[p] \in Session
  BY Successor, PortsAssumption DEF PortTypes, NextSession, Session
<1> QED
  BY <1>1 DEF Ping, Message

(* While OnRequestProcessed() is called there is a response. *)
LEMMA ResponseType ==
  ASSUME TypeOK, ServerInv
  PROVE  callback = "OnRequestProcessed" =>
           /\ response \in Message /\ response.port \in Port /\ response.session \in Session
           /\ response.what \in Requests \cup {"ping"}
BY Types DEF ServerTypes, ServerInv, Message

(* A loop visits a port. *)
LEMMA VisitedPort ==
  ASSUME TypeOK, LoopInv
  PROVE  /\ \A by : InLoop(by) /\ "none" \notin by => loop.at \in Port /\ loop.at \in 1..nPorts
         /\ loop.calls # "none" => loop.at \in Port /\ loop.at \in 1..nPorts
BY PortsAssumption, Types DEF MuxTypes, LoopInv, InLoop, Port

(* Each step keeps the types of the variables of the server.               *)
LEMMA ServerTypesStep ==
  ASSUME TypeOK, Next
  PROVE  ServerTypes'
<1>1. CASE ServerSwitches
  BY <1>1, Types, SequenceTypes
     DEF ServerTypes, ServerSwitches, Server!BecomesReady, Server!Disconnects, muxVars,
         portVars, sessionVars, clientVars
<1>2. CASE ServerTellsReady
  BY <1>2, Types DEF ServerTypes, ServerTellsReady, Calls, Server!OnReady
<1>3. CASE ServerTellsDisconnected
  BY <1>3, Types, SequenceTypes
     DEF ServerTypes, ServerTellsDisconnected, Calls, Server!OnDisconnected, muxVars,
         portVars, sessionVars, clientVars
<1>4. CASE ServerLends
  BY <1>4, Types, SequenceTypes
     DEF ServerTypes, ServerLends, Calls, Server!LoanExecutionContext, muxVars, portVars,
         sessionVars, clientVars
<1>5. CASE ServerAnswers
  BY <1>5, Types DEF ServerTypes, ServerAnswers, Calls, Server!OnRequestProcessed
<1>6. CASE CallIgnored
  BY <1>6, Types DEF ServerTypes, CallIgnored
<1>7. CASE OnReady
  BY <1>7, Types DEF ServerTypes, OnReady, serverVars
<1>8. CASE OnDisconnected
  BY <1>8, Types DEF ServerTypes, OnDisconnected, serverVars
<1>9. CASE LoanExecutionContext
  BY <1>9, Types DEF ServerTypes, LoanExecutionContext, serverVars
<1>10. CASE OnRequestProcessed
  BY <1>10, Types DEF ServerTypes, OnRequestProcessed
<1>11. CASE SwitchToReady
  BY <1>11, Types DEF ServerTypes, SwitchToReady, serverVars
<1>12. CASE SwitchToNotReady
  BY <1>12, Types DEF ServerTypes, SwitchToNotReady, serverVars
<1>13. CASE Lend
  BY <1>13, Types, SequenceTypes
     DEF ServerTypes, Lend, InLoop, serverVars, sessionVars, clientVars
<1>14. CASE NothingToDo
  BY <1>14, Types DEF ServerTypes, NothingToDo, serverVars
<1>15. CASE CallClient
  BY <1>15, Types, SequenceTypes DEF ServerTypes, CallClient, serverVars, sessionVars
<1>16. CASE LoopEnds
  BY <1>16, Types DEF ServerTypes, LoopEnds
<1>17. CASE ConnectBegins
  BY <1>17, Types DEF ServerTypes, ConnectBegins, serverVars
<1>18. CASE ConnectEnds
  BY <1>18, Types DEF ServerTypes, ConnectEnds, Server!Register
<1>19. CASE DisconnectBegins
  BY <1>19, Types DEF ServerTypes, DisconnectBegins, serverVars
<1>20. CASE DisconnectUnregisters
  BY <1>20, Types, SequenceTypes
     DEF ServerTypes, DisconnectUnregisters, Server!Unregister, portVars, sessionVars,
         clientVars
<1>21. CASE DisconnectEnds
  BY <1>21, Types DEF ServerTypes, DisconnectEnds, serverVars
<1>22. CASE CreatePort
  BY <1>22, Types DEF ServerTypes, CreatePort, serverVars
<1>23. ASSUME NEW q \in Port, DropPort(q)
       PROVE  ServerTypes'
  BY <1>23, Types DEF ServerTypes, DropPort, serverVars
<1>24. ASSUME NEW q \in Port, Register(q)
       PROVE  ServerTypes'
  BY <1>24, Types, PingType DEF ServerTypes, Register
<1>25. ASSUME NEW q \in Port, RegisterFails(q)
       PROVE  ServerTypes'
  BY <1>25, Types DEF ServerTypes, RegisterFails, Server!RequestExecutionContext
<1>26. ASSUME NEW q \in Port, Unregister(q)
       PROVE  ServerTypes'
  BY <1>26, Types DEF ServerTypes, Unregister, serverVars
<1>27. ASSUME NEW q \in Port, NEW r \in Requests, Send(q, r)
       PROVE  ServerTypes'
  BY <1>27, Types, SequenceTypes, PingType DEF ServerTypes, Send, Server!Send, muxVars
<1>28. ASSUME NEW q \in Port, RequestExecutionContext(q)
       PROVE  ServerTypes'
  BY <1>28, Types DEF ServerTypes, RequestExecutionContext, Server!RequestExecutionContext
<1> QED
  BY <1>1, <1>2, <1>3, <1>4, <1>5, <1>6, <1>7, <1>8, <1>9, <1>10, <1>11, <1>12, <1>13, <1>14,
     <1>15, <1>16, <1>17, <1>18, <1>19, <1>20, <1>21, <1>22, <1>23, <1>24,
     <1>25, <1>26, <1>27, <1>28
  DEF Next, ServerCalls, MuxMethods, Loops, User, PortCalls

(* Each step keeps the types of the variables of the multiplexer.          *)
LEMMA MuxTypesStep ==
  ASSUME MuxTypes, LoopInv, Next
  PROVE  MuxTypes'
<1>1. CASE ServerSwitches
  BY <1>1 DEF MuxTypes, ServerSwitches, muxVars
<1>2. CASE ServerTellsReady
  BY <1>2 DEF MuxTypes, ServerTellsReady, Calls, muxVars
<1>3. CASE ServerTellsDisconnected
  BY <1>3 DEF MuxTypes, ServerTellsDisconnected, Calls, muxVars
<1>4. CASE ServerLends
  BY <1>4 DEF MuxTypes, ServerLends, Calls, muxVars
<1>5. CASE ServerAnswers
  BY <1>5 DEF MuxTypes, ServerAnswers, Calls, muxVars
<1>6. CASE CallIgnored
  BY <1>6 DEF MuxTypes, CallIgnored, muxVars
<1>7. CASE OnReady
  BY <1>7, PortsAssumption DEF MuxTypes, OnReady, Visits
<1>8. CASE OnDisconnected
  BY <1>8, PortsAssumption DEF MuxTypes, OnDisconnected, Visits
<1>9. CASE LoanExecutionContext
  BY <1>9, PortsAssumption DEF MuxTypes, LoanExecutionContext, Visits
<1>10. CASE OnRequestProcessed
  BY <1>10 DEF MuxTypes, OnRequestProcessed, muxVars
<1>11. CASE SwitchToReady
  BY <1>11, LoopSteps DEF MuxTypes, SwitchToReady
<1>12. CASE SwitchToNotReady
  BY <1>12, PortsAssumption, LoopSteps DEF MuxTypes, SwitchToNotReady, InLoop
<1>13. CASE Lend
  BY <1>13, LoopSteps DEF MuxTypes, Lend
<1>14. CASE NothingToDo
  BY <1>14, PortsAssumption, LoopSteps DEF MuxTypes, NothingToDo, InLoop
<1>15. CASE CallClient
  BY <1>15, PortsAssumption, LoopSteps DEF MuxTypes, LoopInv, CallClient
<1>16. CASE LoopEnds
  BY <1>16, PortsAssumption DEF MuxTypes, LoopEnds, NoLoop
<1>17. CASE ConnectBegins
  BY <1>17 DEF MuxTypes, ConnectBegins
<1>18. CASE ConnectEnds
  BY <1>18 DEF MuxTypes, ConnectEnds
<1>19. CASE DisconnectBegins
  BY <1>19, PortsAssumption DEF MuxTypes, DisconnectBegins, Visits
<1>20. CASE DisconnectUnregisters
  BY <1>20 DEF MuxTypes, DisconnectUnregisters
<1>21. CASE DisconnectEnds
  BY <1>21 DEF MuxTypes, DisconnectEnds
<1>22. CASE CreatePort
  <2> DEFINE dropped == {p \in 1..nPorts : p \notin held}
             q == IF dropped = {} THEN nPorts + 1
                  ELSE CHOOSE p \in dropped : \A r \in dropped : p <= r
  <2>1. /\ q \in Port /\ held' = held \cup {q} /\ nPorts' = IF q > nPorts THEN q ELSE nPorts
        /\ UNCHANGED <<muxState, loop, user>>
    BY <1>22 DEF CreatePort
  <2> HIDE DEF q
  <2> QED
    BY <2>1, PortsAssumption DEF MuxTypes, Port
<1>23. ASSUME NEW q \in Port, DropPort(q)
       PROVE  MuxTypes'
  BY <1>23 DEF MuxTypes, DropPort
<1>24. ASSUME NEW q \in Port, Register(q)
       PROVE  MuxTypes'
  BY <1>24 DEF MuxTypes, Register, muxVars
<1>25. ASSUME NEW q \in Port, RegisterFails(q)
       PROVE  MuxTypes'
  BY <1>25 DEF MuxTypes, RegisterFails, muxVars
<1>26. ASSUME NEW q \in Port, Unregister(q)
       PROVE  MuxTypes'
  BY <1>26 DEF MuxTypes, Unregister, muxVars
<1>27. ASSUME NEW q \in Port, NEW r \in Requests, Send(q, r)
       PROVE  MuxTypes'
  BY <1>27, PortsAssumption DEF MuxTypes, LoopInv, Port, Send, Server!Send, muxVars
<1>28. ASSUME NEW q \in Port, RequestExecutionContext(q)
       PROVE  MuxTypes'
  BY <1>28 DEF MuxTypes, RequestExecutionContext, muxVars
<1> QED
  BY <1>1, <1>2, <1>3, <1>4, <1>5, <1>6, <1>7, <1>8, <1>9, <1>10, <1>11, <1>12, <1>13, <1>14,
     <1>15, <1>16, <1>17, <1>18, <1>19, <1>20, <1>21, <1>22, <1>23, <1>24,
     <1>25, <1>26, <1>27, <1>28
  DEF Next, ServerCalls, MuxMethods, Loops, User, PortCalls

(* Each step keeps the types of the variables of the ports.                *)
LEMMA PortTypesStep ==
  ASSUME TypeOK, ServerInv, LoopInv, Next
  PROVE  PortTypes'
<1>1. CASE ServerSwitches
  BY <1>1, Types DEF PortTypes, ServerSwitches, portVars, sessionVars, clientVars
<1>2. CASE ServerTellsReady
  BY <1>2, Types DEF PortTypes, ServerTellsReady, Calls, portVars, sessionVars, clientVars
<1>3. CASE ServerTellsDisconnected
  BY <1>3, Types
     DEF PortTypes, ServerTellsDisconnected, Calls, portVars, sessionVars, clientVars
<1>4. CASE ServerLends
  BY <1>4, Types DEF PortTypes, ServerLends, Calls, portVars, sessionVars, clientVars
<1>5. CASE ServerAnswers
  BY <1>5, Types DEF PortTypes, ServerAnswers, Calls, portVars, sessionVars, clientVars
<1>6. CASE CallIgnored
  BY <1>6, Types DEF PortTypes, CallIgnored, portVars, sessionVars, clientVars
<1>7. CASE OnReady
  BY <1>7, Types DEF PortTypes, OnReady, portVars, sessionVars, clientVars
<1>8. CASE OnDisconnected
  BY <1>8, Types DEF PortTypes, OnDisconnected, portVars, sessionVars, clientVars
<1>9. CASE LoanExecutionContext
  BY <1>9, Types DEF PortTypes, LoanExecutionContext, portVars, sessionVars, clientVars
<1>10. CASE OnRequestProcessed
  BY <1>10, Types, SequenceTypes, PortsAssumption, ResponseType
     DEF PortTypes, OnRequestProcessed, GiveResponse, PingReturns, GivenToClient,
         MuxMutexFree, NoLoop, muxVars, portVars, sessionVars, clientVars
<1>11. CASE SwitchToReady
  BY <1>11, Types, SequenceTypes, PortsAssumption
     DEF PortTypes, SwitchToReady, InLoop, serverVars, sessionVars, clientVars
<1>12. CASE SwitchToNotReady
  BY <1>12, Types, SequenceTypes, PortsAssumption, VisitedPort
     DEF PortTypes, SwitchToNotReady, InLoop, ForgetsOldSessions, serverVars
<1>13. CASE Lend
  BY <1>13, Types, SequenceTypes, PortsAssumption
     DEF PortTypes, Lend, InLoop, serverVars, sessionVars, clientVars
<1>14. CASE NothingToDo
  BY <1>14, Types DEF PortTypes, NothingToDo, portVars, sessionVars, clientVars
<1>15. CASE CallClient
  BY <1>15, Types, SequenceTypes, PortsAssumption
     DEF PortTypes, CallClient, serverVars, sessionVars
<1>16. CASE LoopEnds
  BY <1>16, Types DEF PortTypes, LoopEnds, portVars, sessionVars, clientVars
<1>17. CASE ConnectBegins
  BY <1>17, Types DEF PortTypes, ConnectBegins, portVars, sessionVars, clientVars
<1>18. CASE ConnectEnds
  BY <1>18, Types DEF PortTypes, ConnectEnds, portVars, sessionVars, clientVars
<1>19. CASE DisconnectBegins
  BY <1>19, Types DEF PortTypes, DisconnectBegins, portVars, sessionVars, clientVars
<1>20. CASE DisconnectUnregisters
  BY <1>20, Types DEF PortTypes, DisconnectUnregisters, portVars, sessionVars, clientVars
<1>21. CASE DisconnectEnds
  BY <1>21, Types DEF PortTypes, DisconnectEnds, portVars, sessionVars, clientVars
<1>22. CASE CreatePort
  BY <1>22, Types, SequenceTypes
     DEF PortTypes, CreatePort, MuxMutexFree, NoLoop, portVars, sessionVars, clientVars
<1>23. ASSUME NEW q \in Port, DropPort(q)
       PROVE  PortTypes'
  BY <1>23, Types DEF PortTypes, DropPort, portVars, sessionVars, clientVars
<1>24. ASSUME NEW q \in Port, Register(q)
       PROVE  PortTypes'
  BY <1>24, Types, PingType DEF PortTypes, Register, clientVars
<1>25. ASSUME NEW q \in Port, RegisterFails(q)
       PROVE  PortTypes'
  BY <1>25, Types DEF PortTypes, RegisterFails, portVars, sessionVars, clientVars
<1>26. ASSUME NEW q \in Port, Unregister(q)
       PROVE  PortTypes'
  BY <1>26, Types DEF PortTypes, Unregister, sessionVars
<1>27. ASSUME NEW q \in Port, NEW r \in Requests, Send(q, r)
       PROVE  PortTypes'
  BY <1>27, Types, SequenceTypes, PortsAssumption DEF PortTypes, Send, Server!Send, muxVars
<1>28. ASSUME NEW q \in Port, RequestExecutionContext(q)
       PROVE  PortTypes'
  BY <1>28, Types DEF PortTypes, RequestExecutionContext, sessionVars, clientVars
<1> QED
  BY <1>1, <1>2, <1>3, <1>4, <1>5, <1>6, <1>7, <1>8, <1>9, <1>10, <1>11, <1>12, <1>13, <1>14,
     <1>15, <1>16, <1>17, <1>18, <1>19, <1>20, <1>21, <1>22, <1>23, <1>24,
     <1>25, <1>26, <1>27, <1>28
  DEF Next, ServerCalls, MuxMethods, Loops, User, PortCalls

-----------------------------------------------------------------------------
(* Control *)

(* Each step keeps what the multiplexer relies on.                         *)
LEMMA ServerInvStep ==
  ASSUME Control, Next
  PROVE  ServerInv'
<1>1. CASE ServerSwitches
  BY <1>1 DEF Control, ServerInv, ServerSwitches, Server!BecomesReady, Server!Disconnects
<1>2. CASE ServerTellsReady
  BY <1>2 DEF Control, ServerInv, ServerTellsReady, Calls, Server!OnReady
<1>3. CASE ServerTellsDisconnected
  BY <1>3 DEF Control, ServerInv, ServerTellsDisconnected, Calls, Server!OnDisconnected
<1>4. CASE ServerLends
  BY <1>4 DEF Control, ServerInv, ServerLends, Calls, Server!LoanExecutionContext
<1>5. CASE ServerAnswers
  BY <1>5, NoneAssumption
     DEF Control, TypeOK, ServerInv, ServerAnswers, Calls, Server!OnRequestProcessed
<1>6. CASE CallIgnored
  BY <1>6 DEF Control, ServerInv, CallIgnored
<1>7. CASE OnReady
  BY <1>7 DEF Control, ServerInv, OnReady, serverVars
<1>8. CASE OnDisconnected
  BY <1>8 DEF Control, ServerInv, OnDisconnected, serverVars
<1>9. CASE LoanExecutionContext
  BY <1>9 DEF Control, ServerInv, LoanExecutionContext, serverVars
<1>10. CASE OnRequestProcessed
  BY <1>10 DEF Control, ServerInv, OnRequestProcessed
<1>11. CASE SwitchToReady
  BY <1>11 DEF Control, ServerInv, SwitchToReady, serverVars
<1>12. CASE SwitchToNotReady
  BY <1>12 DEF Control, ServerInv, SwitchToNotReady, serverVars
<1>13. CASE Lend
  BY <1>13 DEF Control, ServerInv, Lend, serverVars
<1>14. CASE NothingToDo
  BY <1>14 DEF Control, ServerInv, NothingToDo, serverVars
<1>15. CASE CallClient
  BY <1>15 DEF Control, ServerInv, CallClient, serverVars
<1>16. CASE LoopEnds
  BY <1>16 DEF Control, TypeOK, ServerInv, LoopInv, LoopEnds
<1>17. CASE ConnectBegins
  BY <1>17 DEF Control, ServerInv, ConnectBegins, serverVars
<1>18. CASE ConnectEnds
  BY <1>18 DEF Control, ServerInv, ConnectEnds, Server!Register
<1>19. CASE DisconnectBegins
  BY <1>19 DEF Control, ServerInv, DisconnectBegins, serverVars
<1>20. CASE DisconnectUnregisters
  BY <1>20 DEF Control, ServerInv, DisconnectUnregisters, Server!Unregister
<1>21. CASE DisconnectEnds
  BY <1>21 DEF Control, ServerInv, DisconnectEnds, serverVars
<1>22. CASE CreatePort
  BY <1>22 DEF Control, ServerInv, CreatePort, serverVars
<1>23. ASSUME NEW q \in Port, DropPort(q)
       PROVE  ServerInv'
  BY <1>23 DEF Control, ServerInv, DropPort, serverVars
<1>24. ASSUME NEW q \in Port, Register(q)
       PROVE  ServerInv'
  BY <1>24 DEF Control, TypeOK, ServerInv, Register
<1>25. ASSUME NEW q \in Port, RegisterFails(q)
       PROVE  ServerInv'
  BY <1>25 DEF Control, ServerInv, RegisterFails, Server!RequestExecutionContext
<1>26. ASSUME NEW q \in Port, Unregister(q)
       PROVE  ServerInv'
  BY <1>26 DEF Control, ServerInv, Unregister, serverVars
<1>27. ASSUME NEW q \in Port, NEW r \in Requests, Send(q, r)
       PROVE  ServerInv'
  BY <1>27 DEF Control, ServerInv, Send, Server!Send
<1>28. ASSUME NEW q \in Port, RequestExecutionContext(q)
       PROVE  ServerInv'
  BY <1>28 DEF Control, ServerInv, RequestExecutionContext, Server!RequestExecutionContext
<1> QED
  BY <1>1, <1>2, <1>3, <1>4, <1>5, <1>6, <1>7, <1>8, <1>9, <1>10, <1>11, <1>12, <1>13, <1>14,
     <1>15, <1>16, <1>17, <1>18, <1>19, <1>20, <1>21, <1>22, <1>23, <1>24,
     <1>25, <1>26, <1>27, <1>28
  DEF Next, ServerCalls, MuxMethods, Loops, User, PortCalls

(* Each step keeps the states of multiplexer and server together.          *)
LEMMA MuxInvStep ==
  ASSUME Control, Next
  PROVE  MuxInv'
<1>1. CASE ServerSwitches
  BY <1>1 DEF Control, MuxInv, ServerSwitches, Server!BecomesReady, Server!Disconnects, muxVars
<1>2. CASE ServerTellsReady
  BY <1>2, Types
     DEF Control, MuxTypes, MuxInv, LoopInv, ServerTellsReady, Calls, Server!OnReady, muxVars
<1>3. CASE ServerTellsDisconnected
  BY <1>3 DEF Control, MuxInv, ServerTellsDisconnected, Calls, Server!OnDisconnected, muxVars
<1>4. CASE ServerLends
  BY <1>4 DEF Control, MuxInv, ServerLends, Calls, Server!LoanExecutionContext, muxVars
<1>5. CASE ServerAnswers
  BY <1>5 DEF Control, MuxInv, ServerAnswers, Calls, Server!OnRequestProcessed, muxVars
<1>6. CASE CallIgnored
  BY <1>6 DEF Control, MuxInv, CallIgnored, muxVars
<1>7. CASE OnReady
  BY <1>7 DEF Control, ServerInv, MuxInv, OnReady, Visits, serverVars
<1>8. CASE OnDisconnected
  BY <1>8 DEF Control, ServerInv, MuxInv, OnDisconnected, Visits, serverVars
<1>9. CASE LoanExecutionContext
  BY <1>9 DEF Control, MuxInv, LoanExecutionContext, serverVars
<1>10. CASE OnRequestProcessed
  BY <1>10 DEF Control, MuxInv, OnRequestProcessed, muxVars
<1>11. CASE SwitchToReady
  BY <1>11, Types, LoopSteps DEF Control, MuxInv, SwitchToReady, serverVars
<1>12. CASE SwitchToNotReady
  BY <1>12, Types, LoopSteps DEF Control, MuxInv, SwitchToNotReady, serverVars
<1>13. CASE Lend
  BY <1>13 DEF Control, MuxInv, Lend, InLoop, serverVars
<1>14. CASE NothingToDo
  BY <1>14, Types, LoopSteps DEF Control, MuxInv, NothingToDo, serverVars
<1>15. CASE CallClient
  BY <1>15, Types, LoopSteps DEF Control, MuxInv, CallClient, serverVars
<1>16. CASE LoopEnds
  BY <1>16, Types DEF Control, MuxTypes, MuxInv, LoopInv, LoopEnds
<1>17. CASE ConnectBegins
  BY <1>17 DEF Control, ServerInv, MuxInv, ConnectBegins, serverVars
<1>18. CASE ConnectEnds
  BY <1>18, PortsAssumption, Types DEF Control, MuxTypes, MuxInv, ConnectEnds, Server!Register
<1>19. CASE DisconnectBegins
  BY <1>19, Types DEF Control, MuxTypes, MuxInv, DisconnectBegins, serverVars
<1>20. CASE DisconnectUnregisters
  BY <1>20 DEF Control, MuxInv, DisconnectUnregisters, Server!Unregister
<1>21. CASE DisconnectEnds
  BY <1>21 DEF Control, MuxInv, DisconnectEnds, serverVars
<1>22. CASE CreatePort
  BY <1>22 DEF Control, MuxInv, CreatePort, serverVars
<1>23. ASSUME NEW q \in Port, DropPort(q)
       PROVE  MuxInv'
  BY <1>23 DEF Control, MuxInv, DropPort, serverVars
<1>24. ASSUME NEW q \in Port, Register(q)
       PROVE  MuxInv'
  BY <1>24 DEF Control, MuxInv, Register, muxVars
<1>25. ASSUME NEW q \in Port, RegisterFails(q)
       PROVE  MuxInv'
  BY <1>25 DEF Control, MuxInv, RegisterFails, Server!RequestExecutionContext, muxVars
<1>26. ASSUME NEW q \in Port, Unregister(q)
       PROVE  MuxInv'
  BY <1>26 DEF Control, MuxInv, Unregister, serverVars, muxVars
<1>27. ASSUME NEW q \in Port, NEW r \in Requests, Send(q, r)
       PROVE  MuxInv'
  BY <1>27 DEF Control, MuxInv, Send, Server!Send, muxVars
<1>28. ASSUME NEW q \in Port, RequestExecutionContext(q)
       PROVE  MuxInv'
  BY <1>28 DEF Control, MuxInv, RequestExecutionContext, Server!RequestExecutionContext, muxVars
<1> QED
  BY <1>1, <1>2, <1>3, <1>4, <1>5, <1>6, <1>7, <1>8, <1>9, <1>10, <1>11, <1>12, <1>13, <1>14,
     <1>15, <1>16, <1>17, <1>18, <1>19, <1>20, <1>21, <1>22, <1>23, <1>24,
     <1>25, <1>26, <1>27, <1>28
  DEF Next, ServerCalls, MuxMethods, Loops, User, PortCalls

(* Each step keeps loop, callback and the state of the visited port        *)
(* together.                                                               *)
LEMMA LoopInvStep ==
  ASSUME Control, Next
  PROVE  LoopInv'
<1>1. CASE ServerSwitches
  BY <1>1 DEF Control, LoopInv, MuxMutexFree, ServerSwitches, muxVars, portVars
<1>2. CASE ServerTellsReady
  BY <1>2 DEF Control, LoopInv, MuxMutexFree, ServerTellsReady, Calls, muxVars, portVars
<1>3. CASE ServerTellsDisconnected
  BY <1>3 DEF Control, LoopInv, MuxMutexFree, ServerTellsDisconnected, Calls, muxVars, portVars
<1>4. CASE ServerLends
  BY <1>4 DEF Control, LoopInv, MuxMutexFree, ServerLends, Calls, muxVars, portVars
<1>5. CASE ServerAnswers
  BY <1>5 DEF Control, LoopInv, MuxMutexFree, ServerAnswers, Calls, muxVars, portVars
<1>6. CASE CallIgnored
  BY <1>6 DEF Control, LoopInv, MuxMutexFree, CallIgnored, muxVars
<1>7. CASE OnReady
  BY <1>7 DEF Control, LoopInv, MuxMutexFree, OnReady, Visits, serverVars
<1>8. CASE OnDisconnected
  BY <1>8 DEF Control, LoopInv, MuxMutexFree, OnDisconnected, Visits, serverVars
<1>9. CASE LoanExecutionContext
  BY <1>9 DEF Control, LoopInv, MuxMutexFree, LoanExecutionContext, Visits, serverVars
<1>10. CASE OnRequestProcessed
  BY <1>10 DEF Control, LoopInv, MuxMutexFree, OnRequestProcessed, muxVars
<1>11. CASE SwitchToReady
  <2>1. /\ loop.at \in Port /\ loop.at \in 1..nPorts
        /\ loop.by \in {"OnReady", "LoanExecutionContext"}
    BY <1>11, VisitedPort DEF SwitchToReady, Control, InLoop
  <2>2. loop' = [by |-> loop.by, at |-> loop.at, calls |-> "OnReady"]
    BY <1>11, LoopSteps, Types DEF SwitchToReady, Control
  <2>3. state' = [state EXCEPT ![loop.at] = "ready"]
    BY <1>11 DEF SwitchToReady
  <2>4. state'[loop.at] = "ready"
    BY <2>1, <2>3, Types DEF Control, PortTypes
  <2> QED
    BY <1>11, <2>1, <2>2, <2>4
       DEF SwitchToReady, Control, LoopInv, MuxMutexFree, NoLoop, serverVars
<1>12. CASE SwitchToNotReady
  <2>1. /\ loop.at \in Port /\ loop.at \in 1..nPorts
        /\ loop.by \in {"OnDisconnected", "Disconnect"}
    BY <1>12, VisitedPort DEF SwitchToNotReady, Control, InLoop
  <2>2. UNCHANGED <<callback, muxState, user, nPorts>>
    BY <1>12 DEF SwitchToNotReady, serverVars
  <2>3. CASE state[loop.at] = "ready"
    <3>1. loop' = [by |-> loop.by, at |-> loop.at, calls |-> "OnDisconnected"]
      BY <1>12, <2>3, LoopSteps, Types DEF SwitchToNotReady, Control
    <3>2. state'[loop.at] = "notReady"
      BY <1>12, <2>1, <2>3, Types DEF SwitchToNotReady, Control, PortTypes
    <3> QED
      BY <2>1, <2>2, <3>1, <3>2 DEF Control, LoopInv, MuxMutexFree, NoLoop
  <2>4. CASE state[loop.at] # "ready"
    <3>1. loop' = [by |-> loop.by, at |-> loop.at + 1, calls |-> "none"]
      BY <1>12, <2>4, LoopSteps, Types DEF SwitchToNotReady, Control
    <3> QED
      BY <2>1, <2>2, <3>1 DEF Control, LoopInv, MuxMutexFree, NoLoop
  <2> QED
    BY <2>3, <2>4
<1>13. CASE Lend
  BY <1>13, Types, LoopSteps
     DEF Control, MuxTypes, LoopInv, MuxMutexFree, NoLoop, Lend, InLoop, serverVars
<1>14. CASE NothingToDo
  BY <1>14, Types, LoopSteps
     DEF Control, MuxTypes, LoopInv, MuxMutexFree, NoLoop, NothingToDo, InLoop, serverVars
<1>15. CASE CallClient
  BY <1>15, Types, LoopSteps DEF Control, LoopInv, MuxMutexFree, NoLoop, CallClient, serverVars
<1>16. CASE LoopEnds
  BY <1>16 DEF Control, LoopInv, MuxMutexFree, NoLoop, LoopEnds
<1>17. CASE ConnectBegins
  BY <1>17 DEF LoopInv, MuxMutexFree, NoLoop, ConnectBegins
<1>18. CASE ConnectEnds
  BY <1>18 DEF Control, LoopInv, MuxMutexFree, ConnectEnds, portVars
<1>19. CASE DisconnectBegins
  BY <1>19 DEF LoopInv, MuxMutexFree, NoLoop, DisconnectBegins, Visits
<1>20. CASE DisconnectUnregisters
  BY <1>20 DEF Control, LoopInv, MuxMutexFree, DisconnectUnregisters, portVars
<1>21. CASE DisconnectEnds
  BY <1>21 DEF LoopInv, MuxMutexFree, NoLoop, DisconnectEnds
<1>22. CASE CreatePort
  BY <1>22 DEF Control, LoopInv, MuxMutexFree, CreatePort
<1>23. ASSUME NEW q \in Port, DropPort(q)
       PROVE  LoopInv'
  BY <1>23 DEF Control, LoopInv, MuxMutexFree, DropPort, serverVars, portVars
<1>24. ASSUME NEW q \in Port, Register(q)
       PROVE  LoopInv'
  BY <1>24 DEF Control, LoopInv, MuxMutexFree, Register, muxVars
<1>25. ASSUME NEW q \in Port, RegisterFails(q)
       PROVE  LoopInv'
  BY <1>25 DEF Control, LoopInv, MuxMutexFree, RegisterFails, muxVars
<1>26. ASSUME NEW q \in Port, Unregister(q)
       PROVE  LoopInv'
  BY <1>26 DEF Control, LoopInv, MuxMutexFree, Unregister, muxVars
<1>27. ASSUME NEW q \in Port, NEW r \in Requests, Send(q, r)
       PROVE  LoopInv'
  BY <1>27 DEF Control, LoopInv, MuxMutexFree, Send, muxVars
<1>28. ASSUME NEW q \in Port, RequestExecutionContext(q)
       PROVE  LoopInv'
  BY <1>28 DEF Control, LoopInv, MuxMutexFree, RequestExecutionContext, muxVars
<1> QED
  BY <1>1, <1>2, <1>3, <1>4, <1>5, <1>6, <1>7, <1>8, <1>9, <1>10, <1>11, <1>12, <1>13, <1>14,
     <1>15, <1>16, <1>17, <1>18, <1>19, <1>20, <1>21, <1>22, <1>23, <1>24,
     <1>25, <1>26, <1>27, <1>28
  DEF Next, ServerCalls, MuxMethods, Loops, User, PortCalls

(* Each step keeps the states of the ports and of the multiplexer          *)
(* together.                                                               *)
LEMMA PortInvStep ==
  ASSUME Control, NEW p \in Port, Next
  PROVE  PortInv(p)'
<1>1. CASE ServerSwitches
  BY <1>1
     DEF Control, PortInv, NotVisited, ServerSwitches, Server!BecomesReady,
         Server!Disconnects, muxVars, portVars, clientVars
<1>2. CASE ServerTellsReady
  BY <1>2
     DEF Control, PortInv, ServerTellsReady, Calls, Server!OnReady, muxVars, portVars,
         clientVars
<1>3. CASE ServerTellsDisconnected
  BY <1>3
     DEF Control, PortInv, NotVisited, ServerTellsDisconnected, Calls, muxVars, portVars,
         clientVars
<1>4. CASE ServerLends
  BY <1>4
     DEF Control, PortInv, NotVisited, ServerLends, Calls, Server!LoanExecutionContext,
         muxVars, portVars, clientVars
<1>5. CASE ServerAnswers
  BY <1>5
     DEF Control, PortInv, NotVisited, ServerAnswers, Calls, Server!OnRequestProcessed,
         muxVars, portVars, clientVars
<1>6. CASE CallIgnored
  BY <1>6
     DEF Control, PortInv, NotVisited, MuxMutexFree, NoLoop, CallIgnored, muxVars, portVars,
         clientVars
<1>7. CASE OnReady
  BY <1>7 DEF Control, LoopInv, PortInv, OnReady, Visits, serverVars, portVars, clientVars
<1>8. CASE OnDisconnected
  BY <1>8, Types
     DEF Control, MuxTypes, PortInv, NotVisited, MuxMutexFree, NoLoop, OnDisconnected,
         Visits, serverVars, portVars, clientVars
<1>9. CASE LoanExecutionContext
  BY <1>9
     DEF Control, LoopInv, PortInv, LoanExecutionContext, Visits, serverVars, portVars,
         clientVars
<1>10. CASE OnRequestProcessed
  BY <1>10 DEF Control, PortInv, OnRequestProcessed, GiveResponse, GivenToClient, muxVars
<1>11. CASE SwitchToReady
  BY <1>11, Types, LoopSteps
     DEF Control, MuxInv, LoopInv, PortInv, SwitchToReady, InLoop, serverVars, clientVars
<1>12. CASE SwitchToNotReady
  BY <1>12, PortsAssumption, Types, LoopSteps
     DEF Control, MuxTypes, PortTypes, PortInv, NotVisited, SwitchToNotReady, InLoop,
         serverVars
<1>13. CASE Lend
  BY <1>13, Types, LoopSteps
     DEF Control, PortInv, NotVisited, Lend, InLoop, serverVars, clientVars
<1>14. CASE NothingToDo
  BY <1>14, Types, LoopSteps
     DEF Control, PortInv, NotVisited, NothingToDo, InLoop, serverVars, portVars, clientVars
<1>15. CASE CallClient
  <2>1. loop.calls # "none" /\ loop.at \in Port /\ loop.at \in 1..nPorts /\ loop.by # "none"
    BY <1>15, VisitedPort DEF CallClient, Control, LoopInv
  <2>2. loop' = [by |-> loop.by, at |-> loop.at + 1, calls |-> "none"]
    BY <1>15, LoopSteps, Types DEF CallClient, Control
  <2>3. informed'[p] = IF p = loop.at THEN loop.calls # "OnDisconnected" ELSE informed[p]
    BY <1>15, Types DEF CallClient, Control, PortTypes
  <2>4. UNCHANGED <<state, held, muxState, told, callback, execContextRequested, open>>
    BY <1>15 DEF CallClient, serverVars
  <2>5. /\ PortInv(p)
        /\ state[loop.at] = IF loop.calls = "OnDisconnected" THEN "notReady" ELSE "ready"
        /\ informed[p] \in BOOLEAN
        /\ nPorts \in 0..NPorts /\ p \in 1..NPorts
    BY <2>1, Types DEF Control, LoopInv, PortTypes, MuxTypes, Port
  <2>6. NotVisited(p) /\ state[p] = "ready" => NotVisited(p)'
    BY <2>1, <2>2, <2>5, PortsAssumption DEF NotVisited, LoopInv, Control
  <2> HIDE DEF Control
  <2>7. CASE p = loop.at
    BY <2>1, <2>2, <2>3, <2>4, <2>5, <2>6, <2>7, PortsAssumption DEF PortInv
  <2>8. CASE p # loop.at
    BY <2>1, <2>2, <2>3, <2>4, <2>5, <2>6, <2>8, PortsAssumption DEF PortInv
  <2> QED
    BY <2>7, <2>8
<1>16. CASE LoopEnds
  BY <1>16, Types
     DEF Control, MuxTypes, LoopInv, PortInv, NotVisited, NoLoop, LoopEnds, portVars,
         clientVars
<1>17. CASE ConnectBegins
  BY <1>17 DEF Control, PortInv, NotVisited, ConnectBegins, serverVars, portVars, clientVars
<1>18. CASE ConnectEnds
  BY <1>18
     DEF Control, MuxInv, PortInv, NotVisited, ConnectEnds, Server!Register, portVars,
         clientVars
<1>19. CASE DisconnectBegins
  BY <1>19, Types
     DEF Control, MuxTypes, PortInv, NotVisited, MuxMutexFree, NoLoop, DisconnectBegins,
         Visits, serverVars, portVars, clientVars
<1>20. CASE DisconnectUnregisters
  BY <1>20
     DEF Control, MuxInv, LoopInv, PortInv, NotVisited, DisconnectUnregisters, portVars,
         clientVars
<1>21. CASE DisconnectEnds
  BY <1>21
     DEF Control, MuxInv, PortInv, NotVisited, DisconnectEnds, serverVars, portVars,
         clientVars
<1>22. CASE CreatePort
  BY <1>22 DEF Control, PortInv, NotVisited, CreatePort, serverVars, portVars, clientVars
<1>23. ASSUME NEW q \in Port, DropPort(q)
       PROVE  PortInv(p)'
  BY <1>23 DEF Control, PortInv, NotVisited, DropPort, serverVars, portVars, clientVars
<1>24. ASSUME NEW q \in Port, Register(q)
       PROVE  PortInv(p)'
  BY <1>24 DEF Control, PortInv, NotVisited, MuxMutexFree, NoLoop, Register, muxVars, clientVars
<1>25. ASSUME NEW q \in Port, RegisterFails(q)
       PROVE  PortInv(p)'
  BY <1>25
     DEF Control, PortInv, RegisterFails, Server!RequestExecutionContext, muxVars, portVars,
         clientVars
<1>26. ASSUME NEW q \in Port, Unregister(q)
       PROVE  PortInv(p)'
  BY <1>26, Types DEF Control, PortTypes, PortInv, NotVisited, Unregister, serverVars, muxVars
<1>27. ASSUME NEW q \in Port, NEW r \in Requests, Send(q, r)
       PROVE  PortInv(p)'
  BY <1>27, PortsAssumption, Types
     DEF Control, MuxTypes, PortTypes, ServerInv, MuxInv, LoopInv, PortInv, NotVisited,
         MuxMutexFree, NoLoop, Send, Server!Send, muxVars
<1>28. ASSUME NEW q \in Port, RequestExecutionContext(q)
       PROVE  PortInv(p)'
  BY <1>28
     DEF Control, PortInv, NotVisited, RequestExecutionContext,
         Server!RequestExecutionContext, muxVars, clientVars
<1> QED
  BY <1>1, <1>2, <1>3, <1>4, <1>5, <1>6, <1>7, <1>8, <1>9, <1>10, <1>11, <1>12, <1>13, <1>14,
     <1>15, <1>16, <1>17, <1>18, <1>19, <1>20, <1>21, <1>22, <1>23, <1>24,
     <1>25, <1>26, <1>27, <1>28
  DEF Next, ServerCalls, MuxMethods, Loops, User, PortCalls

-----------------------------------------------------------------------------
(* The messages that are under way *)

(* The messages that are under way are a sequence.                         *)
LEMMA UnderwayType ==
  ASSUME ServerTypes, ServerInv
  PROVE  /\ Underway \in Seq(Message)
         /\ ~ready => Underway = <<>>
<1>1. CASE response = None
  BY <1>1 DEF Underway, ServerTypes, ServerInv
<1>2. CASE response # None
  <2>1. ready /\ response \in Message /\ pending \in Seq(Message)
    BY <1>2 DEF ServerTypes, ServerInv
  <2>2. Underway = <<response>> \o pending
    BY <1>2 DEF Underway
  <2> QED
    BY <2>1, <2>2
<1> QED
  BY <1>1, <1>2

(* They depend on two variables only.                                      *)
LEMMA UnderwaySame ==
  ASSUME UNCHANGED <<response, pending>>
  PROVE  Underway' = Underway
BY DEF Underway

(* A message that is sent is the last one.                                 *)
LEMMA UnderwayGrows ==
  ASSUME ServerTypes, NEW m \in Message, pending' = Append(pending, m), response' = response
  PROVE  Underway' = Append(Underway, m)
<1>1. CASE response = None
  <2>1. pending' \in Seq(Message)
    BY DEF ServerTypes
  <2> QED
    BY <1>1, <2>1 DEF Underway, ServerTypes
<1>2. CASE response # None
  <2>1. response \in Message /\ pending \in Seq(Message)
    BY <1>2 DEF ServerTypes
  <2>2. Underway = <<response>> \o pending /\ Underway' = <<response>> \o Append(pending, m)
    BY <1>2 DEF Underway
  <2>3. <<response>> \in Seq(Message) /\ Append(pending, m) \in Seq(Message)
    BY <2>1
  <2>4. Append(<<response>> \o pending, m) = <<response>> \o Append(pending, m)
    BY <2>1, <2>3
  <2> QED
    BY <2>2, <2>4
<1> QED
  BY <1>1, <1>2

(* The server takes the request it answers. *)
LEMMA UnderwayTaken ==
  ASSUME ServerTypes, response = None, pending # <<>>, response' = Head(pending),
         pending' = Tail(pending)
  PROVE  Underway' = Underway
<1>1. Len(pending) \in Nat /\ Len(pending) # 0 /\ pending \in Seq(Message)
  BY DEF ServerTypes
<1>2. Head(pending) \in Message /\ Tail(pending) \in Seq(Message) /\ Head(pending) # None
  BY <1>1, NoneAssumption
<1>3. <<Head(pending)>> \o Tail(pending) = pending
  BY <1>1, <1>2
<1>4. Underway' = <<Head(pending)>> \o Tail(pending)
  BY <1>2 DEF Underway
<1>5. Underway = pending
  BY <1>1 DEF Underway
<1> QED
  BY <1>3, <1>4, <1>5

(* The response has been given away. *)
LEMMA UnderwayShrinks ==
  ASSUME ServerTypes, response # None, response' = None, pending' = pending
  PROVE  Underway # <<>> /\ Head(Underway) = response /\ Underway' = Tail(Underway)
<1>1. response \in Message /\ pending \in Seq(Message)
  BY DEF ServerTypes
<1>2. Underway = <<response>> \o pending /\ Underway' = <<>> \o pending
  BY DEF Underway
<1>3. <<response>> \in Seq(Message)
  BY <1>1
<1>4. /\ Len(<<response>> \o pending) = 1 + Len(pending)
      /\ Head(<<response>> \o pending) = response
      /\ Tail(<<response>> \o pending) = pending
  BY <1>1, <1>3
<1>5. <<>> \o pending = pending
  BY <1>1
<1>6. Len(pending) \in Nat /\ Len(<<>>) = 0
  BY <1>1
<1> QED
  BY <1>2, <1>4, <1>5, <1>6

(* IsUnderway in terms of the messages u *)
Contains(u, p, s, what) ==
  \E i \in 1..Len(u) : u[i] = [port |-> p, session |-> s, what |-> what]

(* A message at the end is one more.                                       *)
LEMMA ContainsAppend ==
  ASSUME NEW u \in Seq(Message), NEW m \in Message, NEW p, NEW s, NEW what,
         Contains(u, p, s, what) \/ m = [port |-> p, session |-> s, what |-> what]
  PROVE  Contains(Append(u, m), p, s, what)
<1>1. /\ Append(u, m) \in Seq(Message) /\ Len(Append(u, m)) = Len(u) + 1 /\ Len(u) \in Nat
      /\ \A i \in 1..Len(u) : Append(u, m)[i] = u[i] /\ i \in 1..Len(Append(u, m))
      /\ Append(u, m)[Len(u) + 1] = m
  BY MessageAppend
<1>2. Len(u) + 1 \in 1..Len(Append(u, m))
  BY <1>1
<1> QED
  BY <1>1, <1>2 DEF Contains

(* The answered message is one less.                                       *)
LEMMA ContainsTail ==
  ASSUME NEW u \in Seq(Message), u # <<>>, NEW p, NEW s, NEW what,
         Contains(u, p, s, what), Head(u) # [port |-> p, session |-> s, what |-> what]
  PROVE  Contains(Tail(u), p, s, what)
<1>1. PICK i \in 1..Len(u) : u[i] = [port |-> p, session |-> s, what |-> what]
  BY DEF Contains
<1>2. /\ Tail(u) \in Seq(Message) /\ Len(Tail(u)) = Len(u) - 1
      /\ Len(u) \in Nat \ {0} /\ Head(u) = u[1]
      /\ \A j \in 1..Len(Tail(u)) : Tail(u)[j] = u[j + 1]
  BY MessageTail
<1>3. i # 1 /\ i \in Int
  BY <1>1, <1>2
<1>4. i - 1 \in 1..Len(Tail(u)) /\ (i - 1) + 1 = i
  BY <1>2, <1>3
<1>5. Tail(u)[i - 1] = u[i]
  BY <1>2, <1>4
<1> QED
  BY <1>1, <1>4, <1>5 DEF Contains

(* A message of another session adds no request of this one.               *)
LEMMA NoOwnAppend ==
  ASSUME NEW u \in Seq(Message), NEW m \in Message, NEW p, NEW s, NoOwn(u, p, s), ~Own(m, p, s)
  PROVE  NoOwn(Append(u, m), p, s)
<1>1. /\ Len(Append(u, m)) = Len(u) + 1 /\ Len(u) \in Nat
      /\ \A i \in 1..Len(u) : Append(u, m)[i] = u[i]
      /\ Append(u, m)[Len(u) + 1] = m
  BY MessageAppend
<1>2. \A i \in 1..Len(Append(u, m)) : i \in 1..Len(u) \/ i = Len(u) + 1
  BY <1>1
<1> QED
  BY <1>1, <1>2 DEF NoOwn

(* An answer adds no request.                                              *)
LEMMA NoOwnTail ==
  ASSUME NEW u \in Seq(Message), u # <<>>, NEW p, NEW s, NoOwn(u, p, s)
  PROVE  NoOwn(Tail(u), p, s)
BY MessageTail DEF NoOwn

(* Without messages there is no request.                                   *)
LEMMA NoOwnEmpty == \A p, s : NoOwn(<<>>, p, s)
BY DEF NoOwn

(* No message of a session is under way that has still to begin. *)
LEMMA NoOwnNext ==
  ASSUME NEW u \in Seq(Message), NEW p \in Port, NEW o \in Session, NEW s \in Session,
         NEW t \in Session, Ordered(u, p, o, s), Rank(o, t) = Rank(o, s) + 1
  PROVE  NoOwn(u, p, t)
<1> SUFFICES ASSUME NEW i \in 1..Len(u), u[i].port = p, u[i].session = t
    PROVE  FALSE
  BY DEF NoOwn, Own
<1>1. Rank(o, t) <= Rank(o, s)
  BY DEF Ordered
<1>2. Rank(o, s) \in Int
  BY RankType
<1> QED
  BY <1>1, <1>2

(* What a client waits for are requests. *)
LEMMA MatchesType ==
  ASSUME NEW u \in Seq(Message), NEW p, NEW s, NEW w \in Seq(Requests \cup {None}),
         Matches(u, p, s, w)
  PROVE  w \in Seq(Requests)
<1>1. PICK f \in [1..Len(w) -> 1..Len(u)] :
        \A i \in 1..Len(w) : u[f[i]] = [port |-> p, session |-> s, what |-> w[i]]
  BY DEF Matches
<1>2. \A i \in 1..Len(w) : w[i] \in Requests
  <2> SUFFICES ASSUME NEW i \in 1..Len(w) PROVE w[i] \in Requests
    OBVIOUS
  <2>1. f[i] \in 1..Len(u) /\ u[f[i]] = [port |-> p, session |-> s, what |-> w[i]]
    BY <1>1
  <2>2. u[f[i]].what \in Requests \cup {"ping"} /\ u[f[i]].what = w[i]
    BY <2>1, MessageSeq
  <2>3. w[i] \in Requests \cup {None}
    OBVIOUS
  <2> QED
    BY <2>2, <2>3, PortsAssumption
<1>3. Len(w) \in Nat /\ w = [i \in 1..Len(w) |-> w[i]]
  OBVIOUS
<1> QED
  BY <1>2, <1>3

-----------------------------------------------------------------------------
(* Sessions *)

(* Session IDs have the right type.                                        *)
LEMMA SessionsType ==
  ASSUME PortTypes, NEW p \in Port
  PROVE  /\ sessionID[p] \in Session /\ oldestUsedSessionID[p] \in Session
         /\ Distance(p) \in 0..(NSessions - 1)
         /\ (open[p] \in Seq(Requests \cup {None}))
BY RankType DEF PortTypes, Distance

(* Nothing happens to the sessions of port p. *)
SessionKept(p) ==
  /\ UNCHANGED <<sessionID[p], oldestUsedSessionID[p], sessionIDUsed[p]>>
  /\ state'[p] = "notReady" => state[p] = "notReady"

(* A step that concerns neither messages nor sessions keeps SessionsInv.   *)
LEMMA SessionsKept ==
  ASSUME NEW p \in Port, SessionsInv(p), Underway' = Underway, SessionKept(p),
         UNCHANGED muxState, ready' => ready,
         state'[p] = "ready" => state[p] = "ready" /\ open'[p] = open[p],
         NotVisited(p) => NotVisited(p)', p > nPorts' => p > nPorts
  PROVE  SessionsInv(p)'
<1>1. Distance(p)' = Distance(p)
  BY DEF Distance, SessionKept
<1>2. IsUnderway(p, "ping") => IsUnderway(p, "ping")'
  BY DEF IsUnderway, SessionKept
<1> QED
  BY <1>1, <1>2 DEF SessionsInv, SessionKept

(* A message is sent through another port. *)
LEMMA SessionsOthersSend ==
  ASSUME NEW p \in Port, SessionsInv(p), ServerTypes, ServerInv, PortTypes, SessionKept(p),
         NEW m \in Message, m.port # p, pending' = Append(pending, m), response' = response,
         UNCHANGED <<muxState, ready, loop, nPorts, state[p], open[p]>>
  PROVE  SessionsInv(p)'
<1>1. Distance(p)' = Distance(p)
  BY DEF Distance, SessionKept
<1>2. Underway' = Append(Underway, m) /\ Underway \in Seq(Message)
  BY UnderwayGrows, UnderwayType
<1>3. IsUnderway(p, "ping") => IsUnderway(p, "ping")'
  BY <1>2, ContainsAppend DEF IsUnderway, Contains, SessionKept
<1>4. ~Own(m, p, sessionID[p])
  BY DEF Own
<1>5. sessionID[p] \in Session /\ oldestUsedSessionID[p] \in Session
  BY SessionsType
<1>6. Distance(p) <= Distance(p)
  BY SessionsType
<1>7. Ordered(Underway, p, oldestUsedSessionID[p], sessionID[p]) =>
        Ordered(Underway', p, oldestUsedSessionID'[p], sessionID'[p])
  BY <1>2, <1>5, <1>6, OrderedAppend DEF SessionKept, Distance
<1>8. NoOwn(Underway, p, sessionID[p]) => NoOwn(Underway', p, sessionID'[p])
  BY <1>2, <1>4, NoOwnAppend DEF SessionKept
<1>9. Matches(Underway, p, sessionID[p], open[p]) =>
        Matches(Underway', p, sessionID'[p], open'[p])
  BY <1>2, <1>4, <1>5, SessionsType, MatchesType, MatchesOtherSent DEF SessionKept
<1>10. NotVisited(p)' <=> NotVisited(p)
  BY DEF NotVisited
<1> QED
  BY <1>1, <1>3, <1>7, <1>8, <1>9, <1>10 DEF SessionsInv, SessionKept

(* Each step keeps the order of sessions, and requests and messages        *)
(* together.                                                               *)
LEMMA SessionsInvStep ==
  ASSUME IInv, NEW p \in Port, Next
  PROVE  SessionsInv(p)'
<1>1. CASE ServerSwitches
  <2>1. SessionKept(p) /\ UNCHANGED <<state[p], open[p], muxState, nPorts>>
    BY <1>1 DEF ServerSwitches, SessionKept, muxVars, portVars, sessionVars, clientVars
  <2>2. NotVisited(p)' <=> NotVisited(p)
    BY <1>1 DEF ServerSwitches, NotVisited, muxVars
  <2>3. callback = "none" /\ response = None /\ response' = None
    BY <1>1 DEF ServerSwitches, IInv, Control, ServerInv
  <2>4. CASE Server!BecomesReady
    <3>1. ~ready /\ ~told /\ UNCHANGED <<pending, told>>
      BY <2>4 DEF Server!BecomesReady
    <3>2. muxState # "ready"
      BY <2>3, <3>1 DEF IInv, Control, MuxInv
    <3>3. state[p] # "ready"
      BY <2>3, <3>1 DEF IInv, Control, PortInv
    <3>4. Distance(p)' = Distance(p)
      BY <2>1 DEF Distance, SessionKept
    <3> QED
      BY <2>1, <2>2, <3>2, <3>3, <3>4 DEF IInv, SessionsInv, SessionKept
  <2>5. CASE Server!Disconnects
    <3>1. ready' = FALSE /\ Underway' = <<>>
      BY <2>3, <2>5 DEF Server!Disconnects, Underway
    <3>2. Distance(p)' = Distance(p)
      BY <2>1 DEF Distance, SessionKept
    <3> QED
      BY <2>1, <2>2, <3>1, <3>2, OrderedEmpty, NoOwnEmpty DEF IInv, SessionsInv, SessionKept
  <2> QED
    BY <1>1, <2>4, <2>5 DEF ServerSwitches
<1>2. CASE ServerTellsReady
  <2>1. response' = response
    BY <1>2 DEF ServerTellsReady, Calls, IInv, Control, ServerInv
  <2> QED
    BY <1>2, <2>1, SessionsKept, UnderwaySame
    DEF ServerTellsReady, Calls, Server!OnReady, IInv, SessionKept, NotVisited,
        muxVars, portVars, sessionVars, clientVars
<1>3. CASE ServerTellsDisconnected
  <2>1. response' = response
    BY <1>3 DEF ServerTellsDisconnected, Calls, IInv, Control, ServerInv
  <2> QED
    BY <1>3, <2>1, SessionsKept, UnderwaySame
    DEF ServerTellsDisconnected, Calls, Server!OnDisconnected, IInv, SessionKept, NotVisited,
        muxVars, portVars, sessionVars, clientVars
<1>4. CASE ServerLends
  <2>1. response' = response
    BY <1>4 DEF ServerLends, Calls, IInv, Control, ServerInv
  <2> QED
    BY <1>4, <2>1, SessionsKept, UnderwaySame
    DEF ServerLends, Calls, Server!LoanExecutionContext, IInv, SessionKept, NotVisited,
        muxVars, portVars, sessionVars, clientVars
<1>5. CASE ServerAnswers
  <2>1. Underway' = Underway
    BY <1>5, UnderwayTaken, Types
    DEF ServerAnswers, Calls, Server!OnRequestProcessed, IInv, Control, ServerInv
  <2> QED
    BY <1>5, <2>1, SessionsKept
    DEF ServerAnswers, Calls, Server!OnRequestProcessed, IInv, SessionKept, NotVisited,
        muxVars, portVars, sessionVars, clientVars
<1>6. CASE CallIgnored
  <2>1. /\ muxState = "disconnecting" /\ MuxMutexFree
        /\ UNCHANGED <<ready, pending, muxState, loop>>
        /\ UNCHANGED <<sessionID, oldestUsedSessionID, sessionIDUsed, state, open, nPorts>>
    BY <1>6 DEF CallIgnored, muxVars, portVars, sessionVars, clientVars
  <2>2. ~NotVisited(p) /\ state[p] # "ready"
    BY <2>1 DEF IInv, Control, PortInv, NotVisited, MuxMutexFree, NoLoop
  <2>3. Distance(p)' = Distance(p)
    BY <2>1 DEF Distance
  <2> QED
    BY <2>1, <2>2, <2>3 DEF IInv, SessionsInv
<1>7. CASE OnReady
  <2>1. /\ muxState = "notReady" /\ muxState' = "ready" /\ MuxMutexFree /\ callback = "OnReady"
        /\ UNCHANGED <<ready, response, pending, nPorts>>
        /\ UNCHANGED <<sessionID, oldestUsedSessionID, sessionIDUsed, state, open>>
    BY <1>7 DEF OnReady, serverVars, portVars, sessionVars, clientVars
  <2>2. ~NotVisited(p) /\ state[p] # "ready"
    BY <2>1 DEF IInv, Control, PortInv, NotVisited, MuxMutexFree, NoLoop
  <2>3. Underway' = <<>>
    BY <2>1 DEF IInv, Control, ServerInv, NothingPending, Underway
  <2>4. Distance(p)' = Distance(p)
    BY <2>1 DEF Distance
  <2>5. Distance(p) <= 1
    BY <2>1, <2>2 DEF IInv, SessionsInv
  <2> QED
    BY <2>1, <2>2, <2>3, <2>4, <2>5, OrderedEmpty, NoOwnEmpty DEF IInv, SessionsInv
<1>8. CASE OnDisconnected
  <2>1. /\ muxState' = "notReady" /\ loop' = Visits(callback) /\ callback = "OnDisconnected"
        /\ UNCHANGED <<ready, nPorts>>
        /\ UNCHANGED <<sessionID, oldestUsedSessionID, sessionIDUsed, state, open>>
    BY <1>8 DEF OnDisconnected, serverVars, portVars, sessionVars, clientVars
  <2>2. NotVisited(p)' /\ ~ready
    BY <2>1, PortsAssumption DEF IInv, Control, ServerInv, NotVisited, Visits, Port
  <2>3. Distance(p)' = Distance(p)
    BY <2>1 DEF Distance
  <2> QED
    BY <2>1, <2>2, <2>3 DEF IInv, SessionsInv
<1>9. CASE LoanExecutionContext
  BY <1>9, SessionsKept, UnderwaySame
     DEF IInv, SessionKept, NotVisited, LoanExecutionContext, MuxMutexFree, NoLoop,
         serverVars, portVars, sessionVars, clientVars
<1>10. CASE OnRequestProcessed
  <2>1. /\ muxState = "ready" /\ callback = "OnRequestProcessed"
        /\ UNCHANGED <<ready, pending, muxState, loop, nPorts, state, sessionID, sessionIDUsed>>
        /\ response # None /\ response' = None
    BY <1>10 DEF OnRequestProcessed, muxVars, IInv, Control, ServerInv
  <2>2. SessionsInv(p) /\ TypeOK /\ ServerTypes /\ ServerInv /\ PortTypes
    BY Types DEF IInv, Control
  <2> DEFINE u == Underway  s == sessionID[p]  o == oldestUsedSessionID[p]
  <2>3. u # <<>> /\ Head(u) = response /\ Underway' = Tail(u) /\ u \in Seq(Message)
    BY <2>1, <2>2, UnderwayShrinks, UnderwayType
  <2>4. /\ response \in Message /\ response.port \in Port
        /\ s \in Session /\ o \in Session /\ open[p] \in Seq(Requests \cup {None})
    BY <2>1, <2>2, ResponseType, SessionsType
  <2>5. Ordered(u, p, o, s) /\ (ready => Distance(p) <= 1 \/ Contains(u, p, s, "ping"))
    BY <2>1, <2>2 DEF SessionsInv, IsUnderway, Contains
  <2>6. /\ Ordered(Tail(u), p, oldestUsedSessionID'[p], s)
        /\ ready => Distance(p)' <= 1 \/ Contains(Tail(u), p, s, "ping")
        /\ Distance(p) = 0 => Distance(p)' = 0
    <3>1. CASE response = [port |-> p, session |-> s, what |-> "ping"]
      <4>1. oldestUsedSessionID'[p] = s
        BY <1>10, <2>2, <3>1 DEF OnRequestProcessed, PingReturns, PortTypes
      <4>2. Ordered(Tail(u), p, s, s)
        BY <2>3, <2>4, <2>5, <3>1, OrderedCloses
      <4>3. Distance(p)' = 0
        BY <2>1, <2>4, <4>1, RankZero DEF Distance
      <4> QED
        BY <4>1, <4>2, <4>3
    <3>2. CASE response # [port |-> p, session |-> s, what |-> "ping"]
      <4>1. oldestUsedSessionID'[p] = o
        <5>1. response = [port |-> response.port, session |-> response.session,
                          what |-> response.what]
          BY <2>4 DEF Message
        <5> QED
          BY <1>10, <2>2, <2>4, <3>2, <5>1 DEF OnRequestProcessed, PingReturns, PortTypes
      <4>2. Ordered(Tail(u), p, o, s)
        BY <2>3, <2>4, <2>5, OrderedTail
      <4>3. Distance(p)' = Distance(p)
        BY <2>1, <4>1 DEF Distance
      <4>4. Contains(u, p, s, "ping") => Contains(Tail(u), p, s, "ping")
        BY <2>3, <3>2, ContainsTail
      <4> QED
        BY <2>5, <4>1, <4>2, <4>3, <4>4
    <3> QED
      BY <3>1, <3>2
  <2>7. NoOwn(u, p, s) => NoOwn(Tail(u), p, s)
    BY <2>3, NoOwnTail
  <2>8. ASSUME state[p] = "ready", ready
        PROVE  Matches(Tail(u), p, s, open'[p])
    <3>1. Matches(u, p, s, open[p])
      BY <2>2, <2>8 DEF SessionsInv
    <3>2. open[p] \in Seq(Requests)
      BY <2>3, <2>4, <3>1, MatchesType
    <3>3. Own(response, p, s) <=> response.port = p /\ GivenToClient(response)
      BY <2>8 DEF Own, GivenToClient
    <3>4. CASE Own(response, p, s)
      <4>1. /\ open[p] # <<>> /\ Head(open[p]) = response.what
            /\ Matches(Tail(u), p, s, Tail(open[p]))
        BY <2>3, <2>4, <3>1, <3>2, <3>4, MatchesOwnAnswered
      <4>2. open'[p] = Tail(open[p])
        BY <1>10, <2>2, <3>3, <3>4, <4>1
        DEF OnRequestProcessed, GiveResponse, Receives, PortTypes
      <4> QED
        BY <4>1, <4>2
    <3>5. CASE ~Own(response, p, s)
      <4>1. Matches(Tail(u), p, s, open[p])
        BY <2>3, <2>4, <3>1, <3>2, <3>5, MatchesOtherAnswered
      <4>2. open'[p] = open[p]
        BY <1>10, <2>2, <2>4, <3>3, <3>5 DEF OnRequestProcessed, GiveResponse, PortTypes
      <4> QED
        BY <4>1, <4>2
    <3> QED
      BY <3>4, <3>5
  <2> QED
    BY <2>1, <2>2, <2>3, <2>6, <2>7, <2>8 DEF SessionsInv, IsUnderway, Contains
<1>11. CASE SwitchToReady
  <2>1. /\ loop.at \in Port /\ loop.by \in {"OnReady", "LoanExecutionContext"}
        /\ loop'.by = loop.by /\ loop'.at = loop.at
    <3>1. loop' = [by |-> loop.by, at |-> loop.at, calls |-> "OnReady"]
      BY <1>11, LoopSteps, Types DEF SwitchToReady, IInv, Control
    <3>2. loop.at \in Port /\ loop.by \in {"OnReady", "LoanExecutionContext"}
      BY <1>11, VisitedPort DEF SwitchToReady, InLoop, IInv, Control
    <3> QED
      BY <3>1, <3>2
  <2>2. /\ state[loop.at] = "notReady" /\ state' = [state EXCEPT ![loop.at] = "ready"]
        /\ UNCHANGED <<ready, response, pending, muxState, nPorts>>
        /\ UNCHANGED <<sessionID, oldestUsedSessionID, sessionIDUsed, open>>
    BY <1>11 DEF SwitchToReady, serverVars, sessionVars, clientVars
  <2>3. SessionsInv(p) /\ ~NotVisited(p) /\ ~NotVisited(p)'
    BY <2>1 DEF IInv, NotVisited
  <2>4. CASE p # loop.at
    <3>1. state'[p] = state[p]
      BY <2>1, <2>2, <2>4, Types DEF IInv, Control, PortTypes
    <3> QED
      BY <2>2, <2>3, <3>1, SessionsKept, UnderwaySame DEF SessionKept
  <2>5. CASE p = loop.at
    <3>1. Underway' = Underway /\ Distance(p)' = Distance(p)
      BY <2>2, UnderwaySame DEF Distance
    <3>2. IsUnderway(p, "ping") => IsUnderway(p, "ping")'
      BY <2>2, <3>1 DEF IsUnderway
    <3>3. muxState = "ready" /\ open[p] = <<>> /\ state[p] = "notReady"
      BY <2>1, <2>2, <2>5 DEF IInv, Control, LoopInv, PortInv
    <3>4. NoOwn(Underway, p, sessionID[p])
      BY <2>3, <3>3 DEF SessionsInv
    <3>5. Matches(Underway, p, sessionID[p], open[p])
      BY <3>3, <3>4, MatchesNothing, UnderwayType, SessionsType, Types DEF IInv, Control
    <3> QED
      BY <2>2, <2>3, <3>1, <3>2, <3>4, <3>5 DEF SessionsInv
  <2> QED
    BY <2>4, <2>5
<1>12. CASE SwitchToNotReady
  <2>1. /\ loop.at \in Port /\ loop.by \in {"OnDisconnected", "Disconnect"}
        /\ loop.calls = "none"
    BY <1>12, VisitedPort DEF SwitchToNotReady, InLoop, IInv, Control
  <2>2. /\ oldestUsedSessionID' = [oldestUsedSessionID EXCEPT ![loop.at] = sessionID[loop.at]]
        /\ UNCHANGED <<ready, response, pending, muxState, nPorts, sessionID, sessionIDUsed>>
    BY <1>12 DEF SwitchToNotReady, ForgetsOldSessions, serverVars
  <2>3. muxState # "ready"
    BY <2>1 DEF IInv, Control, LoopInv, MuxInv
  <2>4. SessionsInv(p) /\ TypeOK /\ PortTypes /\ MuxTypes
    BY Types DEF IInv, Control
  <2>5. CASE p # loop.at
    <3>1. UNCHANGED <<state[p], open[p], oldestUsedSessionID[p]>>
      BY <1>12, <2>1, <2>2, <2>4, <2>5 DEF SwitchToNotReady, PortTypes
    <3>2. \/ loop' = [by |-> loop.by, at |-> loop.at, calls |-> "OnDisconnected"]
          \/ loop' = [by |-> loop.by, at |-> loop.at + 1, calls |-> "none"]
      BY <1>12, <2>4, LoopSteps DEF SwitchToNotReady
    <3>3. NotVisited(p) => NotVisited(p)'
      BY <2>4, <2>5, <3>2 DEF NotVisited, MuxTypes, Port
    <3> QED
      BY <2>2, <2>4, <3>1, <3>3, SessionsKept, UnderwaySame DEF SessionKept
  <2>6. CASE p = loop.at
    <3>1. Distance(p)' = 0
      BY <2>1, <2>2, <2>4, <2>6, RankZero DEF Distance, PortTypes
    <3>2. state'[p] # "ready"
      BY <1>12, <2>1, <2>4, <2>6 DEF SwitchToNotReady, PortTypes
    <3> QED
      BY <2>2, <2>3, <2>4, <3>1, <3>2 DEF SessionsInv
  <2> QED
    BY <2>5, <2>6
<1>13. CASE Lend
  <2>1. loop.by \notin {"OnDisconnected", "Disconnect"}
    BY <1>13 DEF Lend, InLoop
  <2> QED
    BY <1>13, <2>1, SessionsKept, UnderwaySame
    DEF Lend, IInv, SessionKept, NotVisited, serverVars, sessionVars, clientVars
<1>14. CASE NothingToDo
  <2>1. loop.by \notin {"OnDisconnected", "Disconnect"}
    BY <1>14 DEF NothingToDo, InLoop
  <2> QED
    BY <1>14, <2>1, SessionsKept, UnderwaySame
    DEF NothingToDo, IInv, SessionKept, NotVisited, serverVars, portVars, sessionVars, clientVars
<1>15. CASE CallClient
  <2>1. loop' = [by |-> loop.by, at |-> loop.at + 1, calls |-> "none"]
    BY <1>15, LoopSteps, Types DEF CallClient, IInv, Control
  <2>2. NotVisited(p) => NotVisited(p)'
    BY <1>15, <2>1, Types DEF CallClient, NotVisited, IInv, Control, MuxTypes, Port
  <2> QED
    BY <1>15, <2>2, SessionsKept, UnderwaySame
    DEF CallClient, IInv, SessionKept, serverVars, sessionVars
<1>16. CASE LoopEnds
  <2>1. /\ loop.by # "none" /\ loop.at > nPorts /\ loop' = NoLoop
        /\ UNCHANGED <<ready, response, pending, muxState, nPorts, state, open>>
        /\ UNCHANGED <<sessionID, oldestUsedSessionID, sessionIDUsed>>
    BY <1>16 DEF LoopEnds, portVars, sessionVars, clientVars
  <2>2. Distance(p)' = Distance(p) /\ Underway' = Underway
    BY <2>1, UnderwaySame DEF Distance
  <2>3. IsUnderway(p, "ping") => IsUnderway(p, "ping")'
    BY <2>1, <2>2 DEF IsUnderway
  <2>4. NotVisited(p) => Distance(p) = 0
    BY <2>1, Types DEF NotVisited, IInv, SessionsInv, Control, MuxTypes, Port
  <2> QED
    BY <2>1, <2>2, <2>3, <2>4 DEF IInv, SessionsInv
<1>17. CASE ConnectBegins
  <2>1. /\ muxState # "ready" /\ muxState' # "ready"
        /\ UNCHANGED <<ready, response, pending, loop, nPorts>>
        /\ UNCHANGED <<sessionID, oldestUsedSessionID, sessionIDUsed, state, open>>
    BY <1>17
       DEF ConnectBegins, serverVars, portVars, sessionVars, clientVars, IInv, Control,
           MuxInv
  <2>2. Distance(p)' = Distance(p) /\ Underway' = Underway /\ (NotVisited(p)' <=> NotVisited(p))
    BY <2>1, UnderwaySame DEF Distance, NotVisited
  <2> QED
    BY <2>1, <2>2 DEF IInv, SessionsInv
<1>18. CASE ConnectEnds
  <2>1. /\ muxState # "ready" /\ muxState' # "ready"
        /\ UNCHANGED <<ready, response, pending, loop, nPorts>>
        /\ UNCHANGED <<sessionID, oldestUsedSessionID, sessionIDUsed, state, open>>
    BY <1>18
       DEF ConnectEnds, Server!Register, portVars, sessionVars, clientVars, IInv, Control,
           MuxInv
  <2>2. Distance(p)' = Distance(p) /\ Underway' = Underway /\ (NotVisited(p)' <=> NotVisited(p))
    BY <2>1, UnderwaySame DEF Distance, NotVisited
  <2> QED
    BY <2>1, <2>2 DEF IInv, SessionsInv
<1>19. CASE DisconnectBegins
  <2>1. /\ muxState' = "disconnecting" /\ loop' = Visits("Disconnect")
        /\ UNCHANGED <<ready, response, pending, nPorts>>
        /\ UNCHANGED <<sessionID, oldestUsedSessionID, sessionIDUsed, state, open>>
    BY <1>19 DEF DisconnectBegins, serverVars, portVars, sessionVars, clientVars
  <2>2. NotVisited(p)'
    BY <2>1, PortsAssumption DEF NotVisited, Visits, Port
  <2>3. Distance(p)' = Distance(p) /\ Underway' = Underway
    BY <2>1, UnderwaySame DEF Distance
  <2> QED
    BY <2>1, <2>2, <2>3 DEF IInv, SessionsInv
<1>20. CASE DisconnectUnregisters
  <2>1. /\ muxState # "ready" /\ muxState' # "ready"
        /\ ~ready' /\ UNCHANGED <<loop, nPorts>>
        /\ UNCHANGED <<sessionID, oldestUsedSessionID, sessionIDUsed, state, open>>
    BY <1>20
       DEF DisconnectUnregisters, Server!Unregister, portVars, sessionVars, clientVars, IInv,
           Control, MuxInv
  <2>2. Distance(p)' = Distance(p) /\ (NotVisited(p)' <=> NotVisited(p))
    BY <2>1 DEF Distance, NotVisited
  <2> QED
    BY <2>1, <2>2 DEF IInv, SessionsInv
<1>21. CASE DisconnectEnds
  <2>1. /\ muxState # "ready" /\ muxState' # "ready"
        /\ UNCHANGED <<ready, response, pending, loop, nPorts>>
        /\ UNCHANGED <<sessionID, oldestUsedSessionID, sessionIDUsed, state, open>>
    BY <1>21
       DEF DisconnectEnds, serverVars, portVars, sessionVars, clientVars, IInv, Control,
           MuxInv
  <2>2. Distance(p)' = Distance(p) /\ Underway' = Underway /\ (NotVisited(p)' <=> NotVisited(p))
    BY <2>1, UnderwaySame DEF Distance, NotVisited
  <2> QED
    BY <2>1, <2>2 DEF IInv, SessionsInv
<1>22. CASE CreatePort
  <2>1. nPorts' >= nPorts
    <3> DEFINE dropped == {i \in 1..nPorts : i \notin held}
               i == IF dropped = {} THEN nPorts + 1
                    ELSE CHOOSE j \in dropped : \A k \in dropped : j <= k
    <3>1. i \in Port /\ nPorts' = IF i > nPorts THEN i ELSE nPorts
      BY <1>22 DEF CreatePort
    <3> HIDE DEF i
    <3> QED
      BY <3>1, Types, PortsAssumption DEF IInv, Control, MuxTypes, Port
  <2>2. p > nPorts' => p > nPorts
    <3>1. nPorts \in Int /\ nPorts' \in Int /\ p \in Int
      BY MuxTypesStep, Types, PortsAssumption DEF IInv, Control, MuxTypes, Port
    <3> QED
      BY <2>1, <3>1
  <2> QED
    BY <1>22, <2>2, SessionsKept, UnderwaySame
    DEF CreatePort, IInv, SessionKept, NotVisited, serverVars, portVars, sessionVars, clientVars
<1>23. ASSUME NEW q \in Port, DropPort(q)
       PROVE  SessionsInv(p)'
  BY <1>23, SessionsKept, UnderwaySame
     DEF IInv, SessionKept, NotVisited, DropPort, serverVars, portVars, sessionVars,
         clientVars
<1>24. ASSUME NEW q \in Port, Register(q)
       PROVE  SessionsInv(p)'
  <2>1. /\ MuxMutexFree /\ q \in held /\ ~Full(q)
        /\ state' = [state EXCEPT ![q] = "notReady"]
        /\ UNCHANGED <<ready, response, muxState, loop, nPorts, oldestUsedSessionID, open>>
        /\ sessionIDUsed' = [sessionIDUsed EXCEPT ![q] = FALSE]
        /\ sessionID' = IF sessionIDUsed[q] THEN [sessionID EXCEPT ![q] = NextSession(q)]
                        ELSE sessionID
        /\ \/ sessionIDUsed[q] /\ pending' = Append(pending, Ping(q))
           \/ ~(muxState = "ready" /\ ready /\ sessionIDUsed[q]) /\ pending' = pending
    BY <1>24 DEF Register, muxVars, clientVars
  <2>2. /\ TypeOK /\ ServerTypes /\ ServerInv /\ PortTypes /\ MuxTypes
        /\ SessionsInv(p)
    BY Types DEF IInv, Control
  <2>3. ~NotVisited(p) /\ Ping(q) \in Message /\ Ping(q).port = q
    BY <2>1, <2>2, PingType DEF NotVisited, MuxMutexFree, NoLoop, Ping
  <2>4. CASE p # q
    <3>1. SessionKept(p) /\ UNCHANGED <<state[p], open[p]>>
      BY <2>1, <2>2, <2>4 DEF SessionKept, PortTypes
    <3>2. CASE pending' = pending
      BY <2>1, <2>2, <2>3, <3>1, <3>2, SessionsKept, UnderwaySame
    <3>3. CASE pending' = Append(pending, Ping(q))
      BY <2>1, <2>2, <2>3, <2>4, <3>1, <3>3, SessionsOthersSend
    <3> QED
      BY <2>1, <3>2, <3>3
  <2>5. CASE p = q /\ ~sessionIDUsed[p]
    <3>1. pending' = pending /\ sessionID' = sessionID /\ state'[p] = "notReady"
      BY <2>1, <2>2, <2>5 DEF PortTypes
    <3>2. Underway' = Underway /\ Distance(p)' = Distance(p)
      BY <2>1, <3>1, UnderwaySame DEF Distance
    <3>3. IsUnderway(p, "ping") => IsUnderway(p, "ping")'
      BY <3>1, <3>2 DEF IsUnderway
    <3>4. ~sessionIDUsed'[p]
      BY <2>1, <2>2, <2>5 DEF PortTypes
    <3> QED
      BY <2>1, <2>2, <2>3, <2>5, <3>1, <3>2, <3>3, <3>4 DEF SessionsInv
  <2>6. CASE p = q /\ sessionIDUsed[p]
    <3> DEFINE t == NextSession(p)  o == oldestUsedSessionID[p]  s == sessionID[p]
    <3>1. /\ sessionID'[p] = t /\ state'[p] = "notReady" /\ ~sessionIDUsed'[p]
          /\ o \in Session /\ s \in Session /\ Distance(p) \in Nat
          /\ p \in 1..nPorts
      BY <2>1, <2>2, <2>6, SessionsType DEF PortTypes, MuxTypes
    <3>2. t \in Session /\ Rank(o, t) = Rank(o, s) + 1
      BY <2>1, <2>6, <3>1, RankOfNext DEF Full, NextSession
    <3>3. Distance(p)' = Distance(p) + 1
      BY <2>1, <3>1, <3>2 DEF Distance
    <3>4. CASE muxState # "ready"
      <4>1. Distance(p) = 0
        BY <2>2, <2>3, <2>6, <3>4 DEF SessionsInv
      <4> QED
        BY <2>1, <3>1, <3>3, <3>4, <4>1, <2>2 DEF SessionsInv, MuxTypes
    <3>5. CASE muxState = "ready" /\ ~ready
      <4>1. Underway = <<>> /\ Underway' = <<>>
        <5>1. pending' = pending \/ ~UNCHANGED pending
          OBVIOUS
        <5> QED
          BY <1>24, <2>1, <2>2, <3>5, UnderwayType, UnderwaySame DEF Register
      <4> QED
        BY <2>1, <2>2, <3>1, <3>5, <4>1, OrderedEmpty, NoOwnEmpty DEF SessionsInv, MuxTypes
    <3>6. CASE muxState = "ready" /\ ready
      <4>1. pending' = Append(pending, Ping(p))
        BY <2>1, <2>6, <3>6
      <4>2. Underway' = Append(Underway, Ping(p)) /\ Underway \in Seq(Message)
        BY <2>1, <2>2, <2>3, <2>6, <4>1, UnderwayGrows, UnderwayType
      <4>3. Ordered(Underway, p, o, s)
        BY <2>2, <3>6 DEF SessionsInv
      <4>4. Ping(p).session = t /\ Ping(p) \in Message /\ ~Own(Ping(p), p, t)
        BY <2>3, <2>6 DEF Ping, Own
      <4>5. Rank(o, s) <= Rank(o, t)
        BY <3>1, <3>2 DEF Distance
      <4>6. Ordered(Underway', p, o, t)
        BY <3>1, <3>2, <4>2, <4>3, <4>4, <4>5, OrderedAppend
      <4>7. NoOwn(Underway', p, t)
        BY <3>1, <3>2, <4>2, <4>3, <4>4, NoOwnNext, NoOwnAppend
      <4>8. Contains(Underway', p, t, "ping")
        BY <4>2, <4>4, ContainsAppend DEF Ping
      <4> QED
        BY <2>1, <2>2, <3>1, <3>6, <4>6, <4>7, <4>8
        DEF SessionsInv, IsUnderway, Contains, MuxTypes
    <3> QED
      BY <3>4, <3>5, <3>6
  <2> QED
    BY <2>4, <2>5, <2>6
<1>25. ASSUME NEW q \in Port, RegisterFails(q)
       PROVE  SessionsInv(p)'
  BY <1>25, SessionsKept, UnderwaySame
     DEF IInv, SessionKept, NotVisited, RegisterFails, Server!RequestExecutionContext,
         muxVars, portVars, sessionVars, clientVars
<1>26. ASSUME NEW q \in Port, Unregister(q)
       PROVE  SessionsInv(p)'
  <2>1. SessionKept(p) /\ (state'[p] = "ready" => state[p] = "ready" /\ open'[p] = open[p])
    BY <1>26, Types DEF Unregister, SessionKept, sessionVars, IInv, Control, PortTypes
  <2> QED
    BY <1>26, <2>1, SessionsKept, UnderwaySame
    DEF Unregister, IInv, NotVisited, serverVars, muxVars
<1>27. ASSUME NEW q \in Port, NEW r \in Requests, Send(q, r)
       PROVE  SessionsInv(p)'
  <2> DEFINE m == [port |-> q, session |-> sessionID[q], what |-> r]
  <2>1. /\ state[q] = "ready" /\ ready /\ pending' = Append(pending, m)
        /\ UNCHANGED <<ready, response, muxState, loop, nPorts, state, sessionID,
                       oldestUsedSessionID>>
        /\ sessionIDUsed' = [sessionIDUsed EXCEPT ![q] = TRUE]
        /\ open' = [open EXCEPT ![q] = Append(@, r)]
    BY <1>27 DEF Send, Server!Send, muxVars
  <2>2. /\ TypeOK /\ ServerTypes /\ ServerInv /\ PortTypes /\ MuxTypes
        /\ SessionsInv(p)
    BY Types DEF IInv, Control
  <2>3. m \in Message /\ m.port = q
    BY <2>2, PingType
  <2>4. CASE p # q
    <3>1. SessionKept(p) /\ open'[p] = open[p]
      BY <2>1, <2>2, <2>4 DEF SessionKept, PortTypes
    <3> QED
      BY <2>1, <2>2, <2>3, <2>4, <3>1, SessionsOthersSend
  <2>5. CASE p = q
    <3> DEFINE o == oldestUsedSessionID[p]  s == sessionID[p]
    <3>1. Underway' = Append(Underway, m) /\ Underway \in Seq(Message)
      BY <2>1, <2>2, <2>3, UnderwayGrows, UnderwayType
    <3>2. /\ o \in Session /\ s \in Session /\ Rank(o, s) <= Rank(o, s)
          /\ open[p] \in Seq(Requests \cup {None})
      BY <2>2, SessionsType DEF Distance
    <3>3. Ordered(Underway, p, o, s) => Ordered(Underway', p, o, s)
      BY <2>3, <2>5, <3>1, <3>2, OrderedAppend
    <3>4. Contains(Underway, p, s, "ping") => Contains(Underway', p, s, "ping")
      BY <2>3, <3>1, ContainsAppend
    <3>5. Matches(Underway, p, s, open[p])
      BY <2>1, <2>2, <2>5 DEF SessionsInv
    <3>6. open[p] \in Seq(Requests)
      BY <3>1, <3>2, <3>5, MatchesType
    <3>7. Matches(Underway', p, s, Append(open[p], r))
      BY <2>5, <3>1, <3>2, <3>5, <3>6, MatchesOwnSent
    <3>8. open'[p] = Append(open[p], r) /\ sessionIDUsed'[p] = TRUE /\ Distance(p)' = Distance(p)
      BY <2>1, <2>2, <2>5 DEF PortTypes, Distance
    <3>9. muxState = "ready" \/ NotVisited(p)
      BY <2>1, <2>5 DEF IInv, Control, PortInv
    <3>10. p \in 1..nPorts /\ (NotVisited(p)' <=> NotVisited(p))
      BY <2>1, <2>2, <2>5 DEF IInv, Control, PortInv, MuxTypes, NotVisited
    <3> QED
      BY <2>1, <2>2, <2>5, <3>3, <3>4, <3>7, <3>8, <3>9, <3>10
      DEF SessionsInv, IsUnderway, Contains, MuxTypes
  <2> QED
    BY <2>4, <2>5
<1>28. ASSUME NEW q \in Port, RequestExecutionContext(q)
       PROVE  SessionsInv(p)'
  BY <1>28, SessionsKept, UnderwaySame
     DEF IInv, SessionKept, NotVisited, RequestExecutionContext,
         Server!RequestExecutionContext, muxVars, sessionVars, clientVars
<1> QED
  BY <1>1, <1>2, <1>3, <1>4, <1>5, <1>6, <1>7, <1>8, <1>9, <1>10, <1>11, <1>12, <1>13, <1>14,
     <1>15, <1>16, <1>17, <1>18, <1>19, <1>20, <1>21, <1>22, <1>23, <1>24,
     <1>25, <1>26, <1>27, <1>28
  DEF Next, ServerCalls, MuxMethods, Loops, User, PortCalls

-----------------------------------------------------------------------------
(* Nobody is forgotten. *)

(* Each step keeps NothingPending.                                         *)
LEMMA NothingPendingStep ==
  ASSUME IInv, Next
  PROVE  NothingPending'
<1>1. CASE ServerSwitches
  BY <1>1
     DEF IInv, NothingPending, ServerSwitches, Server!BecomesReady, Server!Disconnects,
         muxVars
<1>2. CASE ServerTellsReady
  BY <1>2 DEF IInv, NothingPending, ServerTellsReady, Calls, Server!OnReady, muxVars
<1>3. CASE ServerTellsDisconnected
  BY <1>3
     DEF IInv, NothingPending, ServerTellsDisconnected, Calls, Server!OnDisconnected, muxVars
<1>4. CASE ServerLends
  BY <1>4 DEF IInv, NothingPending, ServerLends, Calls, Server!LoanExecutionContext, muxVars
<1>5. CASE ServerAnswers
  BY <1>5 DEF IInv, NothingPending, ServerAnswers, Calls, Server!OnRequestProcessed, muxVars
<1>6. CASE CallIgnored
  BY <1>6 DEF NothingPending, CallIgnored, muxVars
<1>7. CASE OnReady
  BY <1>7 DEF NothingPending, OnReady
<1>8. CASE OnDisconnected
  BY <1>8 DEF IInv, Control, ServerInv, NothingPending, OnDisconnected, serverVars
<1>9. CASE LoanExecutionContext
  BY <1>9 DEF NothingPending, LoanExecutionContext
<1>10. CASE OnRequestProcessed
  BY <1>10 DEF NothingPending, OnRequestProcessed, muxVars
<1>11. CASE SwitchToReady
  BY <1>11 DEF IInv, NothingPending, SwitchToReady, serverVars
<1>12. CASE SwitchToNotReady
  BY <1>12 DEF IInv, NothingPending, SwitchToNotReady, serverVars
<1>13. CASE Lend
  BY <1>13 DEF IInv, NothingPending, Lend, serverVars
<1>14. CASE NothingToDo
  BY <1>14 DEF IInv, NothingPending, NothingToDo, serverVars
<1>15. CASE CallClient
  BY <1>15 DEF IInv, NothingPending, CallClient, serverVars
<1>16. CASE LoopEnds
  BY <1>16 DEF IInv, NothingPending, LoopEnds
<1>17. CASE ConnectBegins
  BY <1>17 DEF IInv, NothingPending, ConnectBegins, serverVars
<1>18. CASE ConnectEnds
  <2>1. muxState = "notReady" /\ pending = <<>> /\ UNCHANGED pending
    BY <1>18, Types
    DEF ConnectEnds, Server!Register, IInv, Control, MuxTypes, MuxInv, NothingPending
  <2> QED
    BY <2>1 DEF NothingPending
<1>19. CASE DisconnectBegins
  BY <1>19 DEF NothingPending, DisconnectBegins
<1>20. CASE DisconnectUnregisters
  BY <1>20 DEF NothingPending, DisconnectUnregisters, Server!Unregister
<1>21. CASE DisconnectEnds
  BY <1>21 DEF IInv, Control, ServerInv, MuxInv, NothingPending, DisconnectEnds, serverVars
<1>22. CASE CreatePort
  BY <1>22 DEF IInv, NothingPending, CreatePort, serverVars
<1>23. ASSUME NEW q \in Port, DropPort(q)
       PROVE  NothingPending'
  BY <1>23 DEF IInv, NothingPending, DropPort, serverVars
<1>24. ASSUME NEW q \in Port, Register(q)
       PROVE  NothingPending'
  BY <1>24 DEF IInv, NothingPending, Register, muxVars
<1>25. ASSUME NEW q \in Port, RegisterFails(q)
       PROVE  NothingPending'
  BY <1>25 DEF NothingPending, RegisterFails, muxVars
<1>26. ASSUME NEW q \in Port, Unregister(q)
       PROVE  NothingPending'
  BY <1>26 DEF IInv, NothingPending, Unregister, serverVars, muxVars
<1>27. ASSUME NEW q \in Port, NEW r \in Requests, Send(q, r)
       PROVE  NothingPending'
  BY <1>27
     DEF IInv, Control, ServerInv, MuxInv, PortInv, NothingPending, NotVisited, Send,
         Server!Send, muxVars
<1>28. ASSUME NEW q \in Port, RequestExecutionContext(q)
       PROVE  NothingPending'
  BY <1>28
     DEF IInv, NothingPending, RequestExecutionContext, Server!RequestExecutionContext,
         muxVars
<1> QED
  BY <1>1, <1>2, <1>3, <1>4, <1>5, <1>6, <1>7, <1>8, <1>9, <1>10, <1>11, <1>12, <1>13, <1>14,
     <1>15, <1>16, <1>17, <1>18, <1>19, <1>20, <1>21, <1>22, <1>23, <1>24,
     <1>25, <1>26, <1>27, <1>28
  DEF Next, ServerCalls, MuxMethods, Loops, User, PortCalls

(* Each step keeps that ports which wait are served.                       *)
LEMMA ServedInvStep ==
  ASSUME IInv, NEW p \in Port, Next
  PROVE  ServedInv(p)'
<1>1. CASE ServerSwitches
  BY <1>1
     DEF IInv, Control, MuxInv, ServedInv, ServerSwitches, Server!BecomesReady,
         Server!Disconnects, muxVars
<1>2. CASE ServerTellsReady
  BY <1>2
     DEF IInv, ServedInv, WillBeVisited, ServerTellsReady, Calls, Server!OnReady, muxVars,
         portVars
<1>3. CASE ServerTellsDisconnected
  BY <1>3 DEF ServedInv, ServerTellsDisconnected, Server!OnDisconnected
<1>4. CASE ServerLends
  BY <1>4, Types
     DEF IInv, Control, MuxTypes, MuxInv, LoopInv, ServedInv, WillBeVisited, MuxMutexFree,
         ServerLends, Calls, muxVars
<1>5. CASE ServerAnswers
  BY <1>5
     DEF IInv, ServedInv, WillBeVisited, ServerAnswers, Calls, Server!OnRequestProcessed,
         muxVars, portVars
<1>6. CASE CallIgnored
  BY <1>6 DEF ServedInv, CallIgnored, muxVars
<1>7. CASE OnReady
  BY <1>7
     DEF IInv, Control, PortInv, ServedInv, WillBeVisited, MuxMutexFree, NoLoop, NotVisited,
         Port, OnReady, Visits, portVars
<1>8. CASE OnDisconnected
  BY <1>8 DEF ServedInv, OnDisconnected
<1>9. CASE LoanExecutionContext
  BY <1>9 DEF ServedInv, WillBeVisited, Port, LoanExecutionContext, Visits
<1>10. CASE OnRequestProcessed
  <2>1. /\ callback = "OnRequestProcessed"
        /\ UNCHANGED <<ready, loan, muxState, loop, state, execContextRequested>>
    BY <1>10 DEF OnRequestProcessed, muxVars
  <2> QED
    BY <2>1 DEF IInv, ServedInv, WillBeVisited
<1>11. CASE SwitchToReady
  <2>1. /\ TypeOK /\ MuxTypes /\ PortTypes /\ LoopInv /\ PortInv(p) /\ ServedInv(p)
        /\ p \in 1..NPorts
    BY Types DEF IInv, Control, Port
  <2>2. loop' = [by |-> loop.by, at |-> loop.at, calls |-> "OnReady"]
    BY <1>11, <2>1, LoopSteps DEF SwitchToReady
  <2>3. /\ loop.calls = "none" /\ state[loop.at] = "notReady"
        /\ loop.by \in {"OnReady", "LoanExecutionContext"}
        /\ state' = [state EXCEPT ![loop.at] = "ready"] /\ loop.at \in Port
        /\ UNCHANGED <<ready, loan, callback, muxState, execContextRequested>>
    BY <1>11, <2>1, VisitedPort DEF SwitchToReady, InLoop, serverVars
  <2>4. p = loop.at => state'[p] = "ready" /\ ~execContextRequested[p]
    BY <2>1, <2>3 DEF PortInv, PortTypes
  <2>5. p # loop.at => state'[p] = state[p]
    BY <2>1, <2>3 DEF PortTypes
  <2>6. WillBeVisited(p) /\ p # loop.at => WillBeVisited(p)'
    BY <2>2, <2>3, <2>5 DEF WillBeVisited, MuxMutexFree, NoLoop
  <2> QED
    BY <2>1, <2>3, <2>4, <2>5, <2>6 DEF ServedInv
<1>12. CASE SwitchToNotReady
  <2>1. loop.by \in {"OnDisconnected", "Disconnect"} /\ UNCHANGED <<muxState, ready>>
    BY <1>12 DEF SwitchToNotReady, InLoop, serverVars
  <2>2. muxState # "ready"
    BY <2>1 DEF IInv, Control, LoopInv, MuxInv
  <2> QED
    BY <2>1, <2>2 DEF ServedInv
<1>13. CASE Lend
  <2>1. /\ TypeOK /\ MuxTypes /\ PortTypes /\ LoopInv /\ PortInv(p) /\ ServedInv(p)
        /\ p \in 1..NPorts
    BY Types DEF IInv, Control, Port
  <2>2. loop' = [by |-> loop.by, at |-> loop.at, calls |-> "LoanExecutionContext"]
    BY <1>13, <2>1, LoopSteps DEF Lend
  <2>3. /\ loop.calls = "none" /\ state[loop.at] = "ready"
        /\ execContextRequested' = [execContextRequested EXCEPT ![loop.at] = FALSE]
        /\ loop.at \in Port /\ loop.by = "LoanExecutionContext"
        /\ UNCHANGED <<ready, loan, callback, muxState, state>>
    BY <1>13, <2>1, VisitedPort DEF Lend, InLoop, serverVars
  <2>4. p = loop.at => ~execContextRequested'[p]
    BY <2>1, <2>3 DEF PortTypes
  <2>5. p # loop.at => execContextRequested'[p] = execContextRequested[p]
    BY <2>1, <2>3 DEF PortTypes
  <2>6. WillBeVisited(p) /\ p # loop.at => WillBeVisited(p)'
    BY <2>2, <2>3, <2>5 DEF WillBeVisited, MuxMutexFree, NoLoop
  <2> QED
    BY <2>1, <2>3, <2>4, <2>5, <2>6 DEF ServedInv
<1>14. CASE NothingToDo
  <2>1. /\ TypeOK /\ MuxTypes /\ PortTypes /\ LoopInv /\ PortInv(p) /\ ServedInv(p)
        /\ p \in 1..NPorts
    BY Types DEF IInv, Control, Port
  <2>2. loop' = [by |-> loop.by, at |-> loop.at + 1, calls |-> "none"]
    BY <1>14, <2>1, LoopSteps DEF NothingToDo
  <2>3. /\ loop.by \in {"OnReady", "LoanExecutionContext"} /\ state[loop.at] # "notReady"
        /\ loop.by = "LoanExecutionContext" =>
             ~(state[loop.at] = "ready" /\ execContextRequested[loop.at])
        /\ UNCHANGED <<ready, loan, callback, muxState, state, execContextRequested>>
    BY <1>14 DEF NothingToDo, InLoop, serverVars, portVars
  <2>4. WillBeVisited(p) /\ p # loop.at => WillBeVisited(p)'
    BY <2>1, <2>2, <2>3 DEF WillBeVisited, MuxMutexFree, NoLoop, MuxTypes
  <2>5. p = loop.at /\ WillBeVisited(p) => state[p] # "notReady" /\ ~execContextRequested[p]
    BY <2>1, <2>3 DEF WillBeVisited, MuxMutexFree, NoLoop, PortInv
  <2> QED
    BY <2>1, <2>3, <2>4, <2>5 DEF ServedInv
<1>15. CASE CallClient
  <2>1. /\ TypeOK /\ MuxTypes /\ PortTypes /\ LoopInv /\ PortInv(p) /\ ServedInv(p)
        /\ p \in 1..NPorts
    BY Types DEF IInv, Control, Port
  <2>2. loop' = [by |-> loop.by, at |-> loop.at + 1, calls |-> "none"]
    BY <1>15, <2>1, LoopSteps DEF CallClient
  <2>3. /\ loop.calls # "none" /\ loop.by # "none"
        /\ UNCHANGED <<ready, loan, callback, muxState, state, execContextRequested>>
    BY <1>15, <2>1 DEF CallClient, LoopInv, serverVars
  <2>4. WillBeVisited(p) /\ p # loop.at => WillBeVisited(p)'
    BY <2>1, <2>2, <2>3 DEF WillBeVisited, MuxMutexFree, NoLoop, MuxTypes
  <2>5. p = loop.at => ~WillBeVisited(p)
    BY <2>1, <2>3 DEF WillBeVisited, MuxMutexFree, NoLoop, LoopInv
  <2> QED
    BY <2>1, <2>3, <2>4, <2>5 DEF ServedInv
<1>16. CASE LoopEnds
  <2>1. /\ TypeOK /\ MuxTypes /\ PortTypes /\ LoopInv /\ PortInv(p) /\ ServedInv(p)
        /\ p \in 1..NPorts
    BY Types DEF IInv, Control, Port
  <2>2. /\ loop.by # "none" /\ loop.at > nPorts
        /\ UNCHANGED <<ready, loan, muxState, state, execContextRequested>>
    BY <1>16 DEF LoopEnds, portVars
  <2>3. state[p] = "notReady" \/ execContextRequested[p] => p \in 1..nPorts
    BY <2>1 DEF PortInv, MuxTypes
  <2>4. p \in 1..nPorts => ~WillBeVisited(p)
    BY <2>1, <2>2 DEF WillBeVisited, MuxMutexFree, NoLoop, MuxTypes
  <2> QED
    BY <2>1, <2>2, <2>3, <2>4 DEF ServedInv
<1>17. CASE ConnectBegins
  BY <1>17 DEF ServedInv, ConnectBegins
<1>18. CASE ConnectEnds
  BY <1>18 DEF IInv, Control, MuxInv, ServedInv, ConnectEnds
<1>19. CASE DisconnectBegins
  BY <1>19 DEF ServedInv, DisconnectBegins
<1>20. CASE DisconnectUnregisters
  BY <1>20 DEF ServedInv, DisconnectUnregisters, Server!Unregister
<1>21. CASE DisconnectEnds
  BY <1>21 DEF ServedInv, DisconnectEnds
<1>22. CASE CreatePort
  BY <1>22 DEF IInv, ServedInv, WillBeVisited, MuxMutexFree, CreatePort, serverVars, portVars
<1>23. ASSUME NEW q \in Port, DropPort(q)
       PROVE  ServedInv(p)'
  BY <1>23 DEF IInv, ServedInv, WillBeVisited, MuxMutexFree, DropPort, serverVars, portVars
<1>24. ASSUME NEW q \in Port, Register(q)
       PROVE  ServedInv(p)'
  BY <1>24, PortsAssumption, Types
     DEF IInv, Control, MuxTypes, PortTypes, ServerInv, MuxInv, LoopInv, PortInv, ServedInv,
         WillBeVisited, MuxMutexFree, NoLoop, NotVisited, Port, Register, Full, NextSession,
         Ping, muxVars, clientVars
<1>25. ASSUME NEW q \in Port, RegisterFails(q)
       PROVE  ServedInv(p)'
  BY <1>25 DEF ServedInv, RegisterFails, Server!RequestExecutionContext
<1>26. ASSUME NEW q \in Port, Unregister(q)
       PROVE  ServedInv(p)'
  BY <1>26
     DEF IInv, ServedInv, WillBeVisited, MuxMutexFree, NoLoop, Unregister, serverVars,
         muxVars
<1>27. ASSUME NEW q \in Port, NEW r \in Requests, Send(q, r)
       PROVE  ServedInv(p)'
  BY <1>27 DEF IInv, ServedInv, WillBeVisited, MuxMutexFree, Send, Server!Send, muxVars
<1>28. ASSUME NEW q \in Port, RequestExecutionContext(q)
       PROVE  ServedInv(p)'
  BY <1>28 DEF ServedInv, RequestExecutionContext, Server!RequestExecutionContext
<1> QED
  BY <1>1, <1>2, <1>3, <1>4, <1>5, <1>6, <1>7, <1>8, <1>9, <1>10, <1>11, <1>12, <1>13, <1>14,
     <1>15, <1>16, <1>17, <1>18, <1>19, <1>20, <1>21, <1>22, <1>23, <1>24,
     <1>25, <1>26, <1>27, <1>28
  DEF Next, ServerCalls, MuxMethods, Loops, User, PortCalls

-----------------------------------------------------------------------------
(* The invariant *)

(* The invariant holds when the multiplexer has been constructed.          *)
LEMMA InitEstablishesIInv == Init => IInv
<1> SUFFICES ASSUME Init PROVE IInv
  OBVIOUS
<1>1. TypeOK
  <2>1. ServerTypes
    BY SequenceTypes DEF Init, Server!Init, ServerTypes
  <2>2. MuxTypes
    BY PortsAssumption DEF Init, NoLoop, MuxTypes
  <2>3. 0 \in Session /\ <<>> \in Seq(Requests \cup {None})
    BY PortsAssumption, SequenceTypes DEF Session
  <2>4. PortTypes
    BY <2>3 DEF Init, PortTypes
  <2> QED
    BY <2>1, <2>2, <2>4, Types
<1>2. ServerInv /\ MuxInv /\ LoopInv /\ NothingPending
  BY DEF Init, Server!Init, NoLoop, ServerInv, MuxInv, LoopInv, MuxMutexFree, NothingPending
<1>3. ASSUME NEW p \in Port
      PROVE  PortInv(p) /\ SessionsInv(p) /\ ServedInv(p)
  <2>1. PortInv(p) /\ ServedInv(p)
    BY DEF Init, NoLoop, PortInv, ServedInv
  <2>2. Distance(p) = 0
    BY PortsAssumption, RankZero DEF Init, Distance, Session
  <2> QED
    BY <2>1, <2>2 DEF Init, SessionsInv
<1> QED
  BY <1>1, <1>2, <1>3 DEF IInv, Control

(* The invariant depends on the variables only.                            *)
LEMMA StutterKeepsIInv == IInv /\ UNCHANGED vars => IInv'
<1> SUFFICES ASSUME IInv, UNCHANGED vars PROVE IInv'
  OBVIOUS
<1> USE DEF vars, serverVars, muxVars, portVars, sessionVars, clientVars
<1>1. TypeOK' /\ ServerInv' /\ MuxInv' /\ LoopInv' /\ NothingPending'
  BY DEF IInv, Control, TypeOK, ServerInv, MuxInv, LoopInv, MuxMutexFree, NothingPending
<1>2. ASSUME NEW p \in Port
      PROVE  PortInv(p)' /\ SessionsInv(p)' /\ ServedInv(p)'
  <2>1. NotVisited(p)' <=> NotVisited(p)
    BY DEF NotVisited
  <2>2. PortInv(p)'
    BY <2>1 DEF IInv, Control, PortInv
  <2>3. SessionsInv(p)'
    BY <2>1, SessionsKept, UnderwaySame DEF IInv, SessionKept
  <2>4. ServedInv(p)'
    BY DEF IInv, ServedInv, WillBeVisited, MuxMutexFree
  <2> QED
    BY <2>2, <2>3, <2>4
<1> QED
  BY <1>1, <1>2 DEF IInv, Control

(* The invariant holds in every state.                                     *)
THEOREM Invariance == Spec => []IInv
<1>1. IInv /\ [Next]_vars => IInv'
  <2> SUFFICES ASSUME IInv, Next PROVE IInv'
    BY StutterKeepsIInv
  <2>1. Control /\ TypeOK /\ ServerInv /\ LoopInv /\ MuxTypes
    BY Types DEF IInv, Control
  <2>2. TypeOK'
    BY <2>1, ServerTypesStep, MuxTypesStep, PortTypesStep, Types
  <2>3. ServerInv' /\ MuxInv' /\ LoopInv' /\ NothingPending'
    BY <2>1, ServerInvStep, MuxInvStep, LoopInvStep, NothingPendingStep
  <2>4. \A p \in Port : PortInv(p)' /\ SessionsInv(p)' /\ ServedInv(p)'
    BY <2>1, PortInvStep, SessionsInvStep, ServedInvStep
  <2> QED
    BY <2>2, <2>3, <2>4 DEF IInv, Control
<1> QED
  BY InitEstablishesIInv, <1>1, PTL DEF Spec

(* All variables of multiplexer, ports and server keep to their types.     *)
THEOREM TypeCorrect == Spec => []TypeOK
<1>1. IInv => TypeOK
  BY DEF IInv, Control
<1> QED
  BY Invariance, <1>1, PTL

(* Multiplexer and ports never reach a PANIC(): the server calls them only *)
(* in states in which they expect it, whatever clients and user do         *)
(* meanwhile.                                                              *)
THEOREM Safe == Spec => []NeverPanics
<1>1. IInv => NeverPanics
  <2> SUFFICES ASSUME IInv PROVE NeverPanics
    OBVIOUS
  <2>1. /\ ServerInv /\ MuxInv /\ LoopInv /\ ServerTypes /\ MuxTypes
        /\ \A p \in Port : PortInv(p)
    BY Types DEF IInv, Control
  <2>2. ASSUME callback # "none", MuxMutexFree, muxState # "disconnecting"
        PROVE  muxState = IF callback = "OnReady" THEN "notReady" ELSE "ready"
    BY <2>1, <2>2 DEF ServerInv, MuxInv, LoopInv, ServerTypes, MuxTypes
  <2>3. ASSUME NEW p \in Port, state[p] = "ready"
        PROVE  muxState # "notConnected" /\ client # None
    BY <2>1, <2>3 DEF ServerInv, MuxInv, LoopInv, PortInv, NotVisited
  <2> QED
    BY <2>2, <2>3 DEF NeverPanics
<1> QED
  BY Invariance, <1>1, PTL

(* A port that waits for the connection or for the execution context will  *)
(* be visited, every request a client waits for is under way, and a port   *)
(* without free session IDs has a ping under way that will free some.      *)
THEOREM NobodyIsForgotten == Spec => []NobodyForgotten
<1>1. IInv => NobodyForgotten
  <2> SUFFICES ASSUME IInv, NEW p \in 1..nPorts
      PROVE  /\ muxState = "ready" /\ ready /\ (state[p] = "notReady" \/ execContextRequested[p]) =>
                  loan \/ WillBeVisited(p)
             /\ state[p] = "ready" /\ ready =>
                  \A k \in 1..Len(open[p]) : IsUnderway(p, open[p][k])
             /\ Full(p) =>
                  \/ IsUnderway(p, "ping")
                  \/ ~ready /\ muxState = "ready"
                  \/ loop.by \in {"OnDisconnected", "Disconnect"} /\ loop.at <= p
    BY DEF NobodyForgotten
  <2>1. p \in Port /\ MuxTypes /\ PortTypes /\ MuxInv
    BY Types, PortsAssumption DEF IInv, Control, MuxTypes, Port
  <2>2. ServedInv(p) /\ SessionsInv(p)
    BY <2>1 DEF IInv
  <2>3. ASSUME state[p] = "ready", ready, NEW k \in 1..Len(open[p])
        PROVE  IsUnderway(p, open[p][k])
    <3>1. Matches(Underway, p, sessionID[p], open[p])
      BY <2>2, <2>3 DEF SessionsInv
    <3> QED
      BY <3>1 DEF Matches, IsUnderway
  <2>4. ASSUME Full(p), ~IsUnderway(p, "ping"), ~(~ready /\ muxState = "ready")
        PROVE  loop.by \in {"OnDisconnected", "Disconnect"} /\ loop.at <= p
    <3>1. Distance(p) = NSessions - 1
      BY <2>1, <2>4, RankOfFull, SessionsType DEF Full, NextSession, Distance
    <3>2. Distance(p) \in Nat /\ Distance(p) > 1
      BY <3>1, PortsAssumption
    <3>3. NotVisited(p)
      BY <2>2, <2>4, <3>2 DEF SessionsInv
    <3> QED
      BY <2>1, <3>3 DEF NotVisited, MuxTypes
  <2> QED
    BY <2>2, <2>3, <2>4 DEF ServedInv
<1> QED
  BY Invariance, <1>1, PTL

-----------------------------------------------------------------------------
(* Every port implements RemoteAccess. *)

(* What a port shows depends on a few variables only.                      *)
LEMMA ViewKept ==
  ASSUME NEW p \in Port, UNCHANGED <<state[p], informed[p], execContextRequested[p]>>,
         PortReady(p)' = PortReady(p), PortReady(p) => open'[p] = open[p]
  PROVE  UNCHANGED RODA(p)!rodaVars
BY DEF RODA!rodaVars, PortReady

(* While port p is ready its client has been told so, unless OnReady() is  *)
(* just being called.                                                      *)
LEMMA Informed ==
  ASSUME IInv, NEW p \in Port, state[p] = "ready", loop.at # p \/ loop.calls # "OnReady"
  PROVE  informed[p]
BY DEF IInv, Control, PortInv

(* The loops of OnReady() and LoanExecutionContext() run while the server  *)
(* is ready.                                                               *)
LEMMA ReadyInLoop ==
  ASSUME IInv, loop.by \in {"OnReady", "LoanExecutionContext"}
  PROVE  ready
BY DEF IInv, Control, LoopInv, ServerInv

(* Each step is at each port a step of RemoteAccess, or none.              *)
LEMMA PortStep ==
  ASSUME IInv, NEW p \in Port, Next
  PROVE  RODA(p)!Next \/ UNCHANGED RODA(p)!rodaVars
<1>1. CASE ServerSwitches
  <2>1. PortTypes /\ MuxTypes /\ LoopInv /\ PortInv(p)
    BY Types DEF IInv, Control
  <2>2. /\ callback = "none"
        /\ UNCHANGED <<loop, state[p], informed[p], execContextRequested[p], open[p]>>
    BY <1>1 DEF ServerSwitches, muxVars, portVars, sessionVars, clientVars
  <2>3. CASE Server!BecomesReady
    <3>1. state[p] # "ready"
      BY <2>1, <2>2, <2>3 DEF Server!BecomesReady, PortInv
    <3> QED
      BY <2>2, <3>1, ViewKept DEF PortReady
  <2>4. CASE Server!Disconnects /\ state[p] # "ready"
    BY <2>2, <2>4, ViewKept DEF PortReady
  <2>5. CASE Server!Disconnects /\ state[p] = "ready"
    <3>1. loop.calls # "OnReady"
      BY <2>1, <2>2 DEF LoopInv, MuxTypes
    <3>2. informed[p]
      BY <2>5, <3>1, Informed
    <3> QED
      BY <2>2, <2>5, <3>2 DEF Server!Disconnects, RODA!Disconnects, RODA!Next, PortReady
  <2> QED
    BY <1>1, <2>3, <2>4, <2>5 DEF ServerSwitches
<1>2. CASE ServerTellsReady
  <2>1. UNCHANGED <<state[p], informed[p], execContextRequested[p], open[p], ready>>
    BY <1>2
       DEF ServerTellsReady, Calls, Server!OnReady, muxVars, portVars, sessionVars,
           clientVars
  <2> QED
    BY <2>1, ViewKept DEF PortReady
<1>3. CASE ServerTellsDisconnected
  <2>1. UNCHANGED <<state[p], informed[p], execContextRequested[p], open[p], ready>>
    BY <1>3
       DEF ServerTellsDisconnected, Calls, Server!OnDisconnected, muxVars, portVars,
           sessionVars, clientVars
  <2> QED
    BY <2>1, ViewKept DEF PortReady
<1>4. CASE ServerLends
  <2>1. UNCHANGED <<state[p], informed[p], execContextRequested[p], open[p], ready>>
    BY <1>4
       DEF ServerLends, Calls, Server!LoanExecutionContext, muxVars, portVars, sessionVars,
           clientVars
  <2> QED
    BY <2>1, ViewKept DEF PortReady
<1>5. CASE ServerAnswers
  <2>1. UNCHANGED <<state[p], informed[p], execContextRequested[p], open[p], ready>>
    BY <1>5
       DEF ServerAnswers, Calls, Server!OnRequestProcessed, muxVars, portVars, sessionVars,
           clientVars
  <2> QED
    BY <2>1, ViewKept DEF PortReady
<1>6. CASE CallIgnored
  <2>1. UNCHANGED <<state[p], informed[p], execContextRequested[p], open[p], ready>>
    BY <1>6 DEF CallIgnored, muxVars, portVars, sessionVars, clientVars
  <2> QED
    BY <2>1, ViewKept DEF PortReady
<1>7. CASE OnReady
  <2>1. UNCHANGED <<state[p], informed[p], execContextRequested[p], open[p], ready>>
    BY <1>7 DEF OnReady, serverVars, portVars, sessionVars, clientVars
  <2> QED
    BY <2>1, ViewKept DEF PortReady
<1>8. CASE OnDisconnected
  <2>1. UNCHANGED <<state[p], informed[p], execContextRequested[p], open[p], ready>>
    BY <1>8 DEF OnDisconnected, serverVars, portVars, sessionVars, clientVars
  <2> QED
    BY <2>1, ViewKept DEF PortReady
<1>9. CASE LoanExecutionContext
  <2>1. UNCHANGED <<state[p], informed[p], execContextRequested[p], open[p], ready>>
    BY <1>9 DEF LoanExecutionContext, serverVars, portVars, sessionVars, clientVars
  <2> QED
    BY <2>1, ViewKept DEF PortReady
<1>10. CASE OnRequestProcessed
  <2>1. PortTypes /\ MuxTypes /\ LoopInv /\ PortInv(p)
    BY Types DEF IInv, Control
  <2>2. /\ callback = "OnRequestProcessed" /\ MuxMutexFree /\ response # None /\ response' = None
        /\ UNCHANGED <<ready, pending, state[p], sessionID[p], informed[p],
                       execContextRequested[p]>>
    BY <1>10 DEF OnRequestProcessed, IInv, Control, ServerInv
  <2>3. CASE open'[p] = open[p]
    BY <2>2, <2>3, ViewKept DEF PortReady
  <2>4. CASE open'[p] # open[p]
    <3>1. response \in Message /\ response.port = p /\ GivenToClient(response)
      BY <1>10, <2>1, <2>2, <2>4, ResponseType
      DEF OnRequestProcessed, GiveResponse, PortTypes, IInv, Control
    <3>2. state[p] = "ready" /\ ready /\ informed[p]
      BY <2>1, <2>2, <3>1
         DEF GivenToClient, IInv, Control, ServerInv, PortInv, MuxMutexFree, NoLoop
    <3>3. Matches(Underway, p, sessionID[p], open[p])
      BY <3>2 DEF IInv, SessionsInv
    <3>4. Underway \in Seq(Message) /\ Underway # <<>> /\ Head(Underway) = response
      BY <1>10, <2>2, Types, UnderwayShrinks, UnderwayType
      DEF OnRequestProcessed, IInv, Control
    <3>5. Own(response, p, sessionID[p])
      BY <3>1 DEF Own, GivenToClient
    <3>6. sessionID[p] \in Session /\ open[p] \in Seq(Requests)
      BY <2>1, <3>3, <3>4, SessionsType, MatchesType
    <3>7. open[p] # <<>> /\ Head(open[p]) = response.what
      BY <3>3, <3>4, <3>5, <3>6, MatchesOwnAnswered
    <3>8. open'[p] = Tail(open[p])
      BY <1>10, <2>1, <3>1, <3>7 DEF OnRequestProcessed, GiveResponse, Receives, PortTypes
    <3> QED
      BY <2>2, <3>2, <3>7, <3>8 DEF RODA!OnRequestProcessed, RODA!Next, PortReady
  <2> QED
    BY <2>3, <2>4
<1>11. CASE SwitchToReady
  <2>1. PortTypes /\ MuxTypes /\ LoopInv /\ PortInv(p)
    BY Types DEF IInv, Control
  <2>2. /\ loop.at \in Port /\ loop.calls = "none" /\ state[loop.at] = "notReady"
        /\ state' = [state EXCEPT ![loop.at] = "ready"]
        /\ UNCHANGED <<informed, execContextRequested, open, ready>>
    BY <1>11, VisitedPort
    DEF SwitchToReady, InLoop, serverVars, clientVars, IInv, Control
  <2>3. ready
    BY <1>11, ReadyInLoop DEF SwitchToReady, InLoop
  <2>4. CASE p # loop.at
    BY <2>1, <2>2, <2>4, ViewKept DEF PortReady, PortTypes
  <2>5. CASE p = loop.at
    <3>1. state'[p] = "ready" /\ ~informed[p] /\ open[p] = <<>> /\ ~execContextRequested[p]
      BY <2>1, <2>2, <2>5 DEF PortInv, PortTypes
    <3>2. p # None
      BY PortsAssumption DEF Port
    <3> QED
      BY <2>2, <2>3, <2>5, <3>1, <3>2, Types
      DEF RODA!BecomesReady, RODA!Next, PortReady, IInv, Control, PortTypes
  <2> QED
    BY <2>4, <2>5
<1>12. CASE SwitchToNotReady
  <2>1. PortTypes /\ MuxTypes /\ LoopInv /\ PortInv(p)
    BY Types DEF IInv, Control
  <2>2. /\ loop.at \in Port /\ loop.calls = "none"
        /\ UNCHANGED <<informed, ready>>
    BY <1>12, VisitedPort
    DEF SwitchToNotReady, InLoop, serverVars, IInv, Control
  <2>3. CASE p # loop.at \/ state[p] # "ready"
    <3>1. UNCHANGED <<state[p], execContextRequested[p], open[p]>>
      BY <1>12, <2>1, <2>2, <2>3 DEF SwitchToNotReady, PortTypes
    <3> QED
      BY <2>2, <3>1, ViewKept DEF PortReady
  <2>4. CASE p = loop.at /\ state[p] = "ready"
    <3>1. state'[p] = "notReady" /\ open'[p] = <<>> /\ ~execContextRequested'[p]
      BY <1>12, <2>1, <2>2, <2>4 DEF SwitchToNotReady, PortTypes
    <3>2. informed[p]
      BY <2>2, <2>4, Informed
    <3>3. CASE ready
      BY <2>2, <2>4, <3>1, <3>2, <3>3 DEF RODA!Disconnects, RODA!Next, PortReady
    <3>4. CASE ~ready
      BY <2>2, <2>4, <3>1, <3>4 DEF RODA!rodaVars, PortReady
    <3> QED
      BY <2>1, <3>3, <3>4, Types DEF IInv, Control, ServerTypes
  <2> QED
    BY <2>3, <2>4
<1>13. CASE Lend
  <2>1. PortTypes /\ MuxTypes /\ LoopInv /\ PortInv(p)
    BY Types DEF IInv, Control
  <2>2. /\ loop.at \in Port /\ loop.calls = "none" /\ state[loop.at] = "ready"
        /\ execContextRequested[loop.at]
        /\ execContextRequested' = [execContextRequested EXCEPT ![loop.at] = FALSE]
        /\ UNCHANGED <<informed, state, open, ready>>
    BY <1>13, VisitedPort DEF Lend, InLoop, serverVars, clientVars, IInv, Control
  <2>3. ready
    BY <1>13, ReadyInLoop DEF Lend, InLoop
  <2>4. CASE p # loop.at
    BY <2>1, <2>2, <2>4, ViewKept DEF PortReady, PortTypes
  <2>5. CASE p = loop.at
    <3>1. informed[p] /\ ~execContextRequested'[p]
      BY <2>1, <2>2, <2>5, Informed DEF PortTypes
    <3> QED
      BY <2>2, <2>3, <2>5, <3>1 DEF RODA!LoanExecutionContext, RODA!Next, PortReady
  <2> QED
    BY <2>4, <2>5
<1>14. CASE NothingToDo
  <2>1. UNCHANGED <<state[p], informed[p], execContextRequested[p], open[p], ready>>
    BY <1>14 DEF NothingToDo, serverVars, portVars, sessionVars, clientVars
  <2> QED
    BY <2>1, ViewKept DEF PortReady
<1>15. CASE CallClient
  <2>1. PortTypes /\ MuxTypes /\ LoopInv /\ PortInv(p)
    BY Types DEF IInv, Control
  <2>2. /\ loop.at \in Port /\ loop.calls # "none"
        /\ informed' = [informed EXCEPT ![loop.at] = loop.calls # "OnDisconnected"]
        /\ UNCHANGED <<execContextRequested, state, open, ready>>
    BY <1>15, VisitedPort DEF CallClient, serverVars, IInv, Control
  <2>3. CASE p # loop.at
    BY <2>1, <2>2, <2>3, ViewKept DEF PortReady, PortTypes
  <2>4. CASE p = loop.at
    <3>1. informed'[p] = (loop.calls # "OnDisconnected")
      BY <2>1, <2>2, <2>4 DEF PortTypes
    <3>2. CASE loop.calls = "OnDisconnected"
      <4>1. state[p] = "notReady" /\ informed[p] /\ ~informed'[p]
        BY <2>1, <2>2, <2>4, <3>1, <3>2 DEF LoopInv, PortInv
      <4> QED
        BY <2>2, <4>1 DEF RODA!OnDisconnected, RODA!Next, PortReady
    <3>3. CASE loop.calls = "OnReady"
      <4>1. state[p] = "ready" /\ ~informed[p] /\ informed'[p] /\ ready
        BY <2>1, <2>2, <2>4, <3>1, <3>3, ReadyInLoop DEF LoopInv, PortInv, MuxTypes
      <4> QED
        BY <2>2, <4>1 DEF RODA!OnReady, RODA!Next, PortReady
    <3>4. CASE loop.calls \notin {"OnDisconnected", "OnReady"}
      <4>1. state[p] = "ready" /\ informed[p] /\ informed'[p]
        BY <2>1, <2>2, <2>4, <3>1, <3>4 DEF LoopInv, PortInv
      <4>2. informed'[p] = informed[p]
        BY <2>1, <3>1, <3>4, <4>1 DEF PortTypes
      <4> QED
        BY <2>2, <4>2, ViewKept DEF PortReady
    <3> QED
      BY <3>2, <3>3, <3>4
  <2> QED
    BY <2>3, <2>4
<1>16. CASE LoopEnds
  <2>1. UNCHANGED <<state[p], informed[p], execContextRequested[p], open[p], ready>>
    BY <1>16 DEF LoopEnds, portVars, sessionVars, clientVars
  <2> QED
    BY <2>1, ViewKept DEF PortReady
<1>17. CASE ConnectBegins
  <2>1. UNCHANGED <<state[p], informed[p], execContextRequested[p], open[p], ready>>
    BY <1>17 DEF ConnectBegins, serverVars, portVars, sessionVars, clientVars
  <2> QED
    BY <2>1, ViewKept DEF PortReady
<1>18. CASE ConnectEnds
  <2>1. UNCHANGED <<state[p], informed[p], execContextRequested[p], open[p], ready>>
    BY <1>18 DEF ConnectEnds, Server!Register, portVars, sessionVars, clientVars
  <2> QED
    BY <2>1, ViewKept DEF PortReady
<1>19. CASE DisconnectBegins
  <2>1. UNCHANGED <<state[p], informed[p], execContextRequested[p], open[p], ready>>
    BY <1>19 DEF DisconnectBegins, serverVars, portVars, sessionVars, clientVars
  <2> QED
    BY <2>1, ViewKept DEF PortReady
<1>20. CASE DisconnectUnregisters
  <2>1. PortTypes /\ MuxTypes /\ LoopInv /\ PortInv(p)
    BY Types DEF IInv, Control
  <2>2. /\ user = "unregistering" /\ callback = "none"
        /\ UNCHANGED <<state[p], informed[p], execContextRequested[p], open[p]>>
    BY <1>20 DEF DisconnectUnregisters, portVars, sessionVars, clientVars
  <2>3. state[p] # "ready"
    BY <2>1, <2>2 DEF IInv, Control, MuxInv, LoopInv, PortInv, NotVisited
  <2> QED
    BY <2>2, <2>3, ViewKept DEF PortReady
<1>21. CASE DisconnectEnds
  <2>1. UNCHANGED <<state[p], informed[p], execContextRequested[p], open[p], ready>>
    BY <1>21 DEF DisconnectEnds, serverVars, portVars, sessionVars, clientVars
  <2> QED
    BY <2>1, ViewKept DEF PortReady
<1>22. CASE CreatePort
  <2>1. UNCHANGED <<state[p], informed[p], execContextRequested[p], open[p], ready>>
    BY <1>22 DEF CreatePort, serverVars, portVars, sessionVars, clientVars
  <2> QED
    BY <2>1, ViewKept DEF PortReady
<1>23. ASSUME NEW q \in Port, DropPort(q)
       PROVE  RODA(p)!Next \/ UNCHANGED RODA(p)!rodaVars
  <2>1. UNCHANGED <<state[p], informed[p], execContextRequested[p], open[p], ready>>
    BY <1>23 DEF DropPort, serverVars, portVars, sessionVars, clientVars
  <2> QED
    BY <2>1, ViewKept DEF PortReady
<1>24. ASSUME NEW q \in Port, Register(q)
       PROVE  RODA(p)!Next \/ UNCHANGED RODA(p)!rodaVars
  <2>1. PortTypes /\ MuxTypes /\ LoopInv /\ PortInv(p)
    BY Types DEF IInv, Control
  <2>2. /\ state[q] = "noClientRegistered" /\ state' = [state EXCEPT ![q] = "notReady"]
        /\ UNCHANGED <<informed, execContextRequested, open, ready>>
    BY <1>24 DEF Register, clientVars
  <2>3. CASE p # q
    BY <2>1, <2>2, <2>3, ViewKept DEF PortReady, PortTypes
  <2>4. CASE p = q
    <3>1. state'[p] = "notReady"
      BY <2>1, <2>2, <2>4 DEF PortTypes
    <3> QED
      BY <2>2, <2>4, <3>1 DEF RODA!Register, RODA!Next, PortReady
  <2> QED
    BY <2>3, <2>4
<1>25. ASSUME NEW q \in Port, RegisterFails(q)
       PROVE  RODA(p)!Next \/ UNCHANGED RODA(p)!rodaVars
  <2>1. UNCHANGED <<state[p], informed[p], execContextRequested[p], open[p], ready>>
    BY <1>25
       DEF RegisterFails, Server!RequestExecutionContext, muxVars, portVars, sessionVars,
           clientVars
  <2> QED
    BY <2>1, ViewKept DEF PortReady
<1>26. ASSUME NEW q \in Port, Unregister(q)
       PROVE  RODA(p)!Next \/ UNCHANGED RODA(p)!rodaVars
  <2>1. PortTypes /\ MuxTypes /\ LoopInv /\ PortInv(p)
    BY Types DEF IInv, Control
  <2>2. /\ state[q] # "noClientRegistered"
        /\ state' = [state EXCEPT ![q] = "noClientRegistered"]
        /\ execContextRequested' = [execContextRequested EXCEPT ![q] = FALSE]
        /\ informed' = [informed EXCEPT ![q] = FALSE]
        /\ open' = [open EXCEPT ![q] = <<>>]
        /\ UNCHANGED ready
    BY <1>26 DEF Unregister, serverVars
  <2>3. CASE p # q
    BY <2>1, <2>2, <2>3, ViewKept DEF PortReady, PortTypes
  <2>4. CASE p = q
    <3>1. state'[p] = "noClientRegistered" /\ ~informed'[p] /\ informed'[p] \in BOOLEAN /\ p # None
      BY <2>1, <2>2, <2>4, PortsAssumption DEF PortTypes, Port
    <3> QED
      BY <2>2, <2>4, <3>1 DEF RODA!Unregister, RODA!Next, PortReady
  <2> QED
    BY <2>3, <2>4
<1>27. ASSUME NEW q \in Port, NEW r \in Requests, Send(q, r)
       PROVE  RODA(p)!Next \/ UNCHANGED RODA(p)!rodaVars
  <2>1. PortTypes /\ MuxTypes /\ LoopInv /\ PortInv(p)
    BY Types DEF IInv, Control
  <2>2. /\ state[q] = "ready" /\ ready /\ open' = [open EXCEPT ![q] = Append(@, r)]
        /\ UNCHANGED <<ready, informed, execContextRequested, state>>
    BY <1>27 DEF Send, Server!Send
  <2>3. CASE p # q
    BY <2>1, <2>2, <2>3, ViewKept DEF PortReady, PortTypes
  <2>4. CASE p = q
    <3>1. open'[p] = Append(open[p], r)
      BY <2>1, <2>2, <2>4 DEF PortTypes
    <3> QED
      BY <2>2, <2>4, <3>1 DEF RODA!Send, RODA!Next, PortReady
  <2> QED
    BY <2>3, <2>4
<1>28. ASSUME NEW q \in Port, RequestExecutionContext(q)
       PROVE  RODA(p)!Next \/ UNCHANGED RODA(p)!rodaVars
  <2>1. PortTypes /\ MuxTypes /\ LoopInv /\ PortInv(p)
    BY Types DEF IInv, Control
  <2>2. /\ state[q] = "ready" /\ ready
        /\ execContextRequested' = [execContextRequested EXCEPT ![q] = TRUE]
        /\ UNCHANGED <<ready, informed, open, state>>
    BY <1>28 DEF RequestExecutionContext, Server!RequestExecutionContext, clientVars
  <2>3. CASE p # q
    BY <2>1, <2>2, <2>3, ViewKept DEF PortReady, PortTypes
  <2>4. CASE p = q
    <3>1. execContextRequested'[p] = TRUE
      BY <2>1, <2>2, <2>4 DEF PortTypes
    <3> QED
      BY <2>2, <2>4, <3>1 DEF RODA!RequestExecutionContext, RODA!Next, PortReady
  <2> QED
    BY <2>3, <2>4
<1> QED
  BY <1>1, <1>2, <1>3, <1>4, <1>5, <1>6, <1>7, <1>8, <1>9, <1>10, <1>11, <1>12, <1>13, <1>14,
     <1>15, <1>16, <1>17, <1>18, <1>19, <1>20, <1>21, <1>22, <1>23, <1>24,
     <1>25, <1>26, <1>27, <1>28
  DEF Next, ServerCalls, MuxMethods, Loops, User, PortCalls

(* The client of every port sees what the RODA and RODAN interfaces        *)
(* promise: in particular only responses to its own requests, in order,    *)
(* whatever clients used the port before.                                  *)
THEOREM Refinement == Spec => ImplementsRemoteAccess
<1>1. Init => \A p \in Port : RODA(p)!Init
  BY DEF Init, RODA!Init, PortReady
<1>2. IInv /\ [Next]_vars => [\A p \in Port : RODA(p)!Next \/ UNCHANGED RODA(p)!rodaVars]_vars
  BY PortStep
<1> QED
  BY Invariance, <1>1, <1>2, PTL DEF Spec, ImplementsRemoteAccess

-----------------------------------------------------------------------------
(* ThreadedLogFacility *)

Delivering == {"fetched", "delivering", "reporting", "relocking"}

(* Limited messages that have not got their capacity back. *)
OnTheWay == {m \in Limited : m \in Elements(queue) \cup Elements(messages)}

Distinct(s) == \A i, j \in 1 .. Len(s) : s[i] = s[j] => i = j

(* A message is in one place, and the capacity is accounted for. *)
Accounting ==
  /\ Distinct(queue) /\ Distinct(messages)
  /\ Elements(queue) \cap Elements(messages) = {}
  /\ IsFiniteSet(OnTheWay)
  /\ remainingCapacity = Capacity - Cardinality(OnTheWay)

(* What the thread holds at each place. *)
ThreadInv ==
  /\ busy <=> thread \in Delivering
  /\ thread \notin {"fetched", "delivering"} => messages = <<>>
  /\ thread # "fetched" => localDropped = 0
  /\ thread \notin {"fetched", "delivering", "reporting"} => localFailures = 0

LogIInv == LogTypeOK /\ Accounting /\ ThreadInv /\ NobodyOversleeps

-----------------------------------------------------------------------------
(* Sequences and their elements. *)

(* What an addition at the end of a queue does to its elements. *)
LEMMA AppendElements ==
  ASSUME NEW S, NEW s \in Seq(S), NEW e \in S
  PROVE  /\ Append(s, e) \in Seq(S)
         /\ Elements(Append(s, e)) = Elements(s) \cup {e}
         /\ Distinct(s) /\ e \notin Elements(s) => Distinct(Append(s, e))
BY DEF Elements, Distinct

(* What the removal of the first message does to the elements of a chain. *)
LEMMA TailElements ==
  ASSUME NEW S, NEW s \in Seq(S), s # <<>>, Distinct(s)
  PROVE  /\ Tail(s) \in Seq(S) /\ Head(s) \in S
         /\ Head(s) \in Elements(s)
         /\ Elements(Tail(s)) = Elements(s) \ {Head(s)}
         /\ Distinct(Tail(s))
<1>1. /\ Len(s) \in Nat \ {0} /\ Tail(s) \in Seq(S) /\ Head(s) = s[1]
      /\ Len(Tail(s)) = Len(s) - 1
      /\ \A i \in 1 .. Len(Tail(s)) : Tail(s)[i] = s[i + 1]
  OBVIOUS
<1>2. Head(s) \in S /\ Head(s) \in Elements(s)
  BY <1>1 DEF Elements
<1>3. Elements(Tail(s)) \subseteq Elements(s) \ {Head(s)}
  BY <1>1 DEF Elements, Distinct
<1>4. ASSUME NEW x \in Elements(s), x # Head(s) PROVE x \in Elements(Tail(s))
  <2>1. PICK i \in 1 .. Len(s) : s[i] = x
    BY DEF Elements
  <2>2. i - 1 \in 1 .. Len(Tail(s)) /\ Tail(s)[i - 1] = x
    BY <1>1, <1>4, <2>1
  <2> QED
    BY <2>2 DEF Elements
<1>5. Distinct(Tail(s))
  BY <1>1 DEF Distinct
<1> QED
  BY <1>1, <1>2, <1>3, <1>4, <1>5

(* The empty queue has no elements, and is the only one without. *)
LEMMA EmptyElements ==
  /\ Elements(<<>>) = {} /\ Distinct(<<>>)
  /\ \A S : \A s \in Seq(S) : s = <<>> \/ s[1] \in Elements(s)
BY DEF Elements, Distinct

-----------------------------------------------------------------------------
(* The initial state. *)
LEMMA InitLogIInv == LogInit => LogIInv
<1> SUFFICES ASSUME LogInit PROVE LogIInv
  OBVIOUS
<1>1. LogTypeOK
  <2>1. queue \in Seq(Messages) /\ messages \in Seq(Messages)
    BY DEF LogInit
  <2>2. pc \in [Clients -> {"idle", "waiting", "woken"}]
    BY DEF LogInit
  <2>3. busy \in BOOLEAN /\ cancelled \in BOOLEAN
    BY DEF LogInit
  <2> QED
    BY <2>1, <2>2, <2>3, ConstantsAssumption DEF LogInit, LogTypeOK
<1>2. OnTheWay = {}
  BY EmptyElements DEF LogInit, OnTheWay
<1>3. Accounting
  BY <1>2, EmptyElements, FS_EmptySet, ConstantsAssumption DEF LogInit, Accounting
<1> QED
  BY <1>1, <1>3 DEF LogInit, LogIInv, ThreadInv, NobodyOversleeps, Delivering

(* A counter that stops at its limit keeps its type and does not return to 0. *)
LEMMA LimitType ==
  \A n \in Nat : Limit(n) \in 0 .. MaxCount /\ (n # 0 => Limit(n) # 0)
BY ConstantsAssumption DEF Limit

(* Delivery of something keeps the types of the counters. *)
LEMMA DeliveredType ==
  ASSUME NEW n \in 0 .. MaxCount, written \in Nat, Delivered(n)
  PROVE  notProperlyDelivered' \in 0 .. MaxCount /\ written' \in Nat
BY LimitType, ConstantsAssumption DEF Delivered

(* The accounting depends on the queue, the chain and the capacity only. *)
LEMMA AccountingUnchanged ==
  Accounting /\ UNCHANGED <<queue, messages, remainingCapacity>> => Accounting'
BY DEF Accounting, OnTheWay


-----------------------------------------------------------------------------
(* Types.  The capacity is the only type that rests on something else: it   *)
(* stays between 0 and Capacity because it is accounted for.                *)

(* From the accounting follows the type of the capacity. *)
LEMMA CapacityInRange ==
  Accounting /\ remainingCapacity \in Nat => remainingCapacity \in 0 .. Capacity
<1> SUFFICES ASSUME Accounting, remainingCapacity \in Nat
             PROVE  remainingCapacity \in 0 .. Capacity
  OBVIOUS
<1>1. Cardinality(OnTheWay) \in Nat
  BY FS_CardinalityType DEF Accounting
<1> QED
  BY <1>1, ConstantsAssumption DEF Accounting

(* The thread of the facility goes on from the top of its loop. *)
LEMMA LoopTopInv ==
  ASSUME LogIInv, LoopTop, messages = <<>>, localDropped = 0, localFailures = 0,
         UNCHANGED <<remainingCapacity, cancelled, notProperlyDelivered, logs, written>>,
         pc' \in [Clients -> {"idle", "waiting", "woken"}]
  PROVE  LogTypeOK' /\ Accounting' /\ ThreadInv'
<1> USE DEF LogIInv
<1>1. CASE cancelled \/ NothingToLog
  <2>1. UNCHANGED <<queueVars, localVars>> /\ busy' = FALSE /\ thread' \in {"ended", "waiting"}
    BY <1>1 DEF LoopTop
  <2>2. LogTypeOK'
    BY <2>1 DEF LogTypeOK, queueVars, localVars
  <2>3. Accounting'
    BY <2>1, AccountingUnchanged DEF queueVars, localVars
  <2>4. ThreadInv'
    BY <2>1 DEF ThreadInv, Delivering, queueVars, localVars
  <2> QED
    BY <2>2, <2>3, <2>4
<1>2. CASE ~(cancelled \/ NothingToLog)
  <2>1. /\ thread' = "fetched" /\ busy' = TRUE
        /\ messages' = queue /\ queue' = <<>>
        /\ localFailures' = messageCreationFailureCnt /\ messageCreationFailureCnt' = 0
        /\ localDropped' = droppedMessages /\ droppedMessages' = 0
    BY <1>2 DEF LoopTop
  <2>2. LogTypeOK'
    <3>1. queue' \in Seq(Messages) /\ messages' \in Seq(Messages)
      BY <2>1 DEF LogTypeOK
    <3>2. busy' \in BOOLEAN /\ cancelled' \in BOOLEAN
      BY <2>1 DEF LogTypeOK
    <3> QED
      BY <2>1, <3>1, <3>2, ConstantsAssumption DEF LogTypeOK
  <2>3. Accounting'
    <3>1. OnTheWay' = OnTheWay
      BY <2>1, EmptyElements DEF OnTheWay
    <3> QED
      BY <2>1, <3>1, EmptyElements DEF Accounting
  <2>4. ThreadInv'
    BY <2>1 DEF ThreadInv, Delivering
  <2> QED
    BY <2>2, <2>3, <2>4
<1> QED
  BY <1>1, <1>2

(* A message is logged: it is new, and takes capacity if it is limited. *)
LEMMA LogInv ==
  ASSUME LogIInv, NEW m \in Messages, Log(m)
  PROVE  LogTypeOK' /\ Accounting' /\ ThreadInv'
<1> USE DEF LogIInv
<1>1. /\ queue \in Seq(Messages) /\ queue' = Append(queue, m)
      /\ messages' = messages /\ m \notin Elements(queue) /\ m \notin Elements(messages)
      /\ remainingCapacity' = remainingCapacity - (IF m \in Limited THEN 1 ELSE 0)
      /\ m \in Limited => remainingCapacity # 0
      /\ thread' \in {thread, "woken"} /\ (thread' # thread => thread = "waiting")
      /\ logs' = logs + 1 /\ logs < MaxLogs
      /\ UNCHANGED <<droppedMessages, messageCreationFailureCnt, busy, cancelled, localDropped,
                     localFailures, notProperlyDelivered, pc, written>>
  BY DEF Log, LogTypeOK, SignalThread, localVars
<1>2. /\ queue' \in Seq(Messages) /\ Elements(queue') = Elements(queue) \cup {m}
      /\ Distinct(queue')
  BY <1>1, AppendElements DEF Accounting
<1>3. remainingCapacity' \in Nat
  BY <1>1 DEF LogTypeOK
<1>4. Accounting'
  <2>1. Elements(messages') = Elements(messages)
    BY <1>1
  <2>2. CASE m \in Limited
    <3>1. OnTheWay' = OnTheWay \cup {m} /\ m \notin OnTheWay
      BY <1>1, <1>2, <2>1, <2>2 DEF OnTheWay
    <3>2. IsFiniteSet(OnTheWay') /\ Cardinality(OnTheWay') = Cardinality(OnTheWay) + 1
      BY <3>1, FS_AddElement DEF Accounting
    <3>3. remainingCapacity' = Capacity - Cardinality(OnTheWay')
      <4>1. Cardinality(OnTheWay) \in Nat
        BY FS_CardinalityType DEF Accounting
      <4> QED
        BY <1>1, <2>2, <3>2, <4>1, ConstantsAssumption DEF Accounting
    <3> QED
      BY <1>1, <1>2, <2>1, <3>2, <3>3 DEF Accounting
  <2>3. CASE m \notin Limited
    <3>1. OnTheWay' = OnTheWay
      BY <1>2, <2>1, <2>3 DEF OnTheWay
    <3>2. remainingCapacity' = remainingCapacity
      BY <1>1, <2>3 DEF LogTypeOK
    <3> QED
      BY <1>1, <1>2, <2>1, <3>1, <3>2 DEF Accounting
  <2> QED
    BY <2>2, <2>3
<1>5. LogTypeOK'
  <2>1. remainingCapacity' \in 0 .. Capacity
    <3>1. Cardinality(OnTheWay') \in Nat
      BY <1>4, FS_CardinalityType DEF Accounting
    <3> QED
      BY <1>3, <1>4, <3>1, ConstantsAssumption DEF Accounting
  <2>2. queue' \in Seq(Messages) /\ messages' \in Seq(Messages)
    BY <1>1, <1>2 DEF LogTypeOK
  <2>3. logs' \in 0 .. MaxLogs
    BY <1>1, ConstantsAssumption DEF LogTypeOK
  <2> QED
    BY <1>1, <2>1, <2>2, <2>3 DEF LogTypeOK
<1>6. ThreadInv'
  BY <1>1 DEF ThreadInv, Delivering
<1> QED
  BY <1>4, <1>5, <1>6

(* A message leaves the chain and gives its capacity back. *)
LEMMA DeliverMessageInv ==
  ASSUME LogIInv, DeliverMessage
  PROVE  LogTypeOK' /\ Accounting' /\ ThreadInv'
<1> USE DEF LogIInv
<1> DEFINE m == Head(messages)
<1>1. /\ thread = "delivering" /\ messages \in Seq(Messages) /\ messages # <<>>
      /\ messages' = Tail(messages)
      /\ remainingCapacity' = remainingCapacity + (IF m \in Limited THEN 1 ELSE 0)
      /\ Delivered(notProperlyDelivered)
      /\ UNCHANGED <<queue, droppedMessages, messageCreationFailureCnt, busy, thread,
                     cancelled, localDropped, localFailures, pc, logs>>
  BY DEF DeliverMessage, LogTypeOK, queueVars
<1>2. /\ messages' \in Seq(Messages) /\ m \in Elements(messages)
      /\ Elements(messages') = Elements(messages) \ {m} /\ Distinct(messages')
  BY <1>1, TailElements DEF Accounting
<1>3. Elements(queue') = Elements(queue) /\ m \notin Elements(queue)
  BY <1>1, <1>2 DEF Accounting
<1>4. Cardinality(OnTheWay) \in Nat
  BY FS_CardinalityType DEF Accounting
<1>5. Accounting' /\ remainingCapacity' \in Nat
  <2>1. CASE m \in Limited
    <3>1. OnTheWay' = OnTheWay \ {m} /\ m \in OnTheWay
      BY <1>2, <1>3, <2>1 DEF OnTheWay
    <3>2. IsFiniteSet(OnTheWay') /\ Cardinality(OnTheWay') = Cardinality(OnTheWay) - 1
      BY <3>1, FS_RemoveElement DEF Accounting
    <3>3. remainingCapacity' = Capacity - Cardinality(OnTheWay') /\ remainingCapacity' \in Nat
      BY <1>1, <1>4, <2>1, <3>2, ConstantsAssumption DEF Accounting, LogTypeOK
    <3> QED
      BY <1>1, <1>2, <1>3, <3>2, <3>3 DEF Accounting
  <2>2. CASE m \notin Limited
    <3>1. OnTheWay' = OnTheWay
      BY <1>2, <1>3, <2>2 DEF OnTheWay
    <3>2. remainingCapacity' = remainingCapacity /\ remainingCapacity' \in Nat
      BY <1>1, <2>2 DEF LogTypeOK
    <3> QED
      BY <1>1, <1>2, <1>3, <3>1, <3>2 DEF Accounting
  <2> QED
    BY <2>1, <2>2
<1>6. LogTypeOK'
  <2>1. remainingCapacity' \in 0 .. Capacity
    <3>1. Cardinality(OnTheWay') \in Nat
      BY <1>5, FS_CardinalityType DEF Accounting
    <3> QED
      BY <1>5, <3>1, ConstantsAssumption DEF Accounting
  <2>2. queue' \in Seq(Messages) /\ messages' \in Seq(Messages)
    BY <1>1, <1>2 DEF LogTypeOK
  <2>3. notProperlyDelivered' \in 0 .. MaxCount /\ written' \in Nat
    BY <1>1, DeliveredType DEF LogTypeOK
  <2> QED
    BY <1>1, <2>1, <2>2, <2>3 DEF LogTypeOK
<1>7. ThreadInv'
  BY <1>1 DEF ThreadInv, Delivering
<1> QED
  BY <1>5, <1>6, <1>7

(* The other steps leave messages and capacity alone. *)
LEMMA OtherInv ==
  ASSUME LogIInv,
         \/ LogDropped \/ ReportLogMessageCreationFailed
         \/ \E c \in Clients : Flush(c) \/ FlushWakes(c)
         \/ Start \/ Stop \/ StopReturns \/ SpuriousWakeup
         \/ BeginDelivery \/ ReportLosses \/ ReportFailures \/ UNCHANGED logVars
  PROVE  LogTypeOK' /\ Accounting' /\ ThreadInv'
<1> USE DEF LogIInv, queueVars, localVars
<1>1. UNCHANGED <<queue, messages, remainingCapacity>>
  BY DEF LogDropped, ReportLogMessageCreationFailed, Flush, FlushWakes, Start, Stop, StopReturns,
         SpuriousWakeup, BeginDelivery, ReportLosses, ReportFailures, logVars
<1>2. Accounting'
  BY <1>1, AccountingUnchanged
<1>3. LogTypeOK' /\ ThreadInv'
  <2>1. CASE LogDropped
    BY <2>1, LimitType, ConstantsAssumption DEF LogDropped, LogTypeOK, ThreadInv, Delivering
  <2>2. CASE ReportLogMessageCreationFailed
    <3>1. /\ messageCreationFailureCnt' \in 0 .. MaxCount /\ logs' \in 0 .. MaxLogs
          /\ thread' \in {thread, "woken"} /\ (thread' # thread => thread = "waiting")
      <4>1. messageCreationFailureCnt + 1 \in Nat
        BY DEF LogTypeOK
      <4>2. messageCreationFailureCnt' \in 0 .. MaxCount
        BY <2>2, <4>1, LimitType DEF ReportLogMessageCreationFailed
      <4>3. logs' \in 0 .. MaxLogs
        BY <2>2, ConstantsAssumption DEF ReportLogMessageCreationFailed, LogTypeOK
      <4>4. thread' \in {thread, "woken"} /\ (thread' # thread => thread = "waiting")
        BY <2>2 DEF ReportLogMessageCreationFailed, SignalThread
      <4> QED
        BY <4>2, <4>3, <4>4
    <3>2. UNCHANGED <<queue, remainingCapacity, droppedMessages, busy, cancelled, localVars,
                      notProperlyDelivered, pc, written>>
      BY <2>2 DEF ReportLogMessageCreationFailed
    <3>3. LogTypeOK'
      BY <3>1, <3>2 DEF LogTypeOK
    <3>4. thread' # thread => thread' = "woken" /\ thread = "waiting"
      BY <3>1
    <3>5. ThreadInv'
      BY <3>2, <3>4 DEF ThreadInv, Delivering
    <3> QED
      BY <3>3, <3>5
  <2>3. ASSUME NEW c \in Clients, Flush(c) \/ FlushWakes(c) PROVE LogTypeOK' /\ ThreadInv'
    BY <2>3 DEF Flush, FlushWakes, LogTypeOK, ThreadInv, Delivering
  <2>4. CASE Start \/ Stop \/ StopReturns
    <3>1. /\ cancelled' \in BOOLEAN
          /\ thread' \in {"none", "locking", "woken", thread}
          /\ thread' # thread => thread \in {"none", "waiting", "ended"}
      BY <2>4 DEF Start, Stop, StopReturns, SignalThread, LogTypeOK
    <3>2. UNCHANGED <<queueVars, remainingCapacity, busy, localVars,
                      notProperlyDelivered, pc, logs, written>>
      BY <2>4 DEF Start, Stop, StopReturns
    <3> QED
      BY <3>1, <3>2 DEF LogTypeOK, ThreadInv, Delivering
  <2>5. CASE SpuriousWakeup
    BY <2>5 DEF SpuriousWakeup, LogTypeOK, ThreadInv, Delivering
  <2>6. CASE BeginDelivery
    <3>1. localDropped + notProperlyDelivered \in Nat
      BY DEF LogTypeOK
    <3>2. notProperlyDelivered' \in 0 .. MaxCount
      BY <2>6, <3>1, LimitType DEF BeginDelivery
    <3> QED
      BY <2>6, <3>2, ConstantsAssumption DEF BeginDelivery, LogTypeOK, ThreadInv, Delivering
  <2>7. CASE ReportLosses
    <3>1. notProperlyDelivered' \in 0 .. MaxCount /\ written' \in Nat
      BY <2>7, DeliveredType, ConstantsAssumption DEF ReportLosses, LogTypeOK
    <3> QED
      BY <2>7, <3>1 DEF ReportLosses, LogTypeOK, ThreadInv, Delivering
  <2>8. CASE ReportFailures
    <3>1. notProperlyDelivered' \in 0 .. MaxCount /\ written' \in Nat
      BY <2>8, DeliveredType, ConstantsAssumption DEF ReportFailures, LogTypeOK
    <3> QED
      BY <2>8, <3>1, ConstantsAssumption DEF ReportFailures, LogTypeOK, ThreadInv, Delivering
  <2>9. CASE UNCHANGED logVars
    BY <2>9 DEF logVars, LogTypeOK, ThreadInv, Delivering
  <2> QED
    BY <2>1, <2>2, <2>3, <2>4, <2>5, <2>6, <2>7, <2>8, <2>9
<1> QED
  BY <1>2, <1>3

-----------------------------------------------------------------------------
(* Wake-ups. *)

(* While the thread sleeps there is capacity: what took it has woken it. *)
LEMMA AsleepMeansCapacity ==
  ASSUME LogIInv, thread = "waiting"
  PROVE  remainingCapacity # 0
<1>1. queue = <<>> /\ messages = <<>>
  BY DEF LogIInv, NobodyOversleeps, ThreadInv
<1>2. OnTheWay = {}
  BY <1>1, EmptyElements DEF OnTheWay
<1> QED
  BY <1>2, FS_EmptySet, ConstantsAssumption DEF LogIInv, Accounting

(* After the top of the loop the thread sleeps only when nothing is left. *)
LEMMA LoopTopSleeps ==
  ASSUME LogIInv, LoopTop, cancelled' = cancelled
  PROVE  /\ thread' = "waiting" =>
              /\ ~cancelled' /\ queue' = <<>>
              /\ messageCreationFailureCnt' = 0 /\ droppedMessages' = 0
         /\ ~NothingToLog => 
              \/ busy' \/ queue' # <<>>
              \/ messageCreationFailureCnt' # 0 \/ droppedMessages' # 0
BY DEF LoopTop, NothingToLog, queueVars

(* No step lets somebody sleep whose turn it is. *)
LEMMA SleepInv ==
  ASSUME LogIInv, [LogNext]_logVars
  PROVE  NobodyOversleeps'
<1> USE DEF LogIInv
<1> DEFINE Asleep(c) == pc[c] = "waiting"
           Work == busy \/ queue # <<>> \/ messageCreationFailureCnt # 0 \/ droppedMessages # 0
<1>1. ASSUME UNCHANGED <<queueVars, cancelled, busy, pc>>,
             thread' = "waiting" => thread = "waiting"
      PROVE  NobodyOversleeps'
  BY <1>1 DEF NobodyOversleeps, queueVars
<1>2. ASSUME NEW m \in Messages, Log(m) PROVE NobodyOversleeps'
  <2>1. queue' # <<>>
    BY <1>2 DEF Log, LogTypeOK
  <2>2. thread' # "waiting"
    <3>1. CASE thread = "waiting"
      BY <1>2, <3>1 DEF Log, SignalThread, NobodyOversleeps
    <3>2. CASE thread # "waiting"
      BY <1>2, <3>2 DEF Log, SignalThread
    <3> QED
      BY <3>1, <3>2
  <2> QED
    BY <2>1, <2>2 DEF NobodyOversleeps
<1>3. CASE LogDropped
  <2>1. thread # "waiting" /\ thread' = thread
    BY <1>3, AsleepMeansCapacity DEF LogDropped
  <2>2. droppedMessages' # 0
    <3>1. droppedMessages + 1 \in Nat /\ droppedMessages + 1 # 0
      BY DEF LogTypeOK
    <3> QED
      BY <1>3, <3>1, LimitType DEF LogDropped
  <2> QED
    BY <2>1, <2>2 DEF NobodyOversleeps
<1>4. CASE ReportLogMessageCreationFailed
  <2>1. messageCreationFailureCnt' # 0
    <3>1. messageCreationFailureCnt + 1 \in Nat /\ messageCreationFailureCnt + 1 # 0
      BY DEF LogTypeOK
    <3> QED
      BY <1>4, <3>1, LimitType DEF ReportLogMessageCreationFailed
  <2>2. thread' # "waiting"
    BY <1>4 DEF ReportLogMessageCreationFailed, SignalThread, NobodyOversleeps
  <2> QED
    BY <2>1, <2>2 DEF NobodyOversleeps
<1>5. ASSUME NEW c \in Clients, Flush(c) PROVE NobodyOversleeps'
  <2>1. UNCHANGED <<queueVars, thread, cancelled, busy>> /\ Work
    BY <1>5 DEF Flush, Flushed, NothingToLog
  <2> QED
    BY <2>1 DEF NobodyOversleeps, queueVars
<1>6. ASSUME NEW c \in Clients, FlushWakes(c) PROVE NobodyOversleeps'
  <2>1. UNCHANGED <<queueVars, thread, cancelled, busy>>
    BY <1>6 DEF FlushWakes
  <2>2. CASE Work
    BY <2>1, <2>2 DEF NobodyOversleeps, queueVars
  <2>3. CASE ~Work
    <3>1. Flushed
      BY <2>3 DEF Flushed, NothingToLog
    <3>2. \A d \in Clients : pc'[d] = "waiting" => pc[d] = "waiting"
      BY <1>6, <3>1 DEF FlushWakes, LogTypeOK
    <3> QED
      BY <2>1, <3>2 DEF NobodyOversleeps, queueVars
  <2> QED
    BY <2>2, <2>3
<1>7. CASE Start \/ StopReturns
  BY <1>7 DEF Start, StopReturns, NobodyOversleeps, queueVars
<1>8. CASE Stop
  BY <1>8 DEF Stop, SignalThread, NobodyOversleeps, queueVars
<1>9. CASE BeginDelivery \/ DeliverMessage \/ ReportLosses \/ ReportFailures
  <2>1. thread' # "waiting" /\ UNCHANGED <<queueVars, cancelled, busy, pc>>
    BY <1>9 DEF BeginDelivery, DeliverMessage, ReportLosses, ReportFailures, queueVars
  <2> QED
    BY <1>1, <2>1
<1>10. CASE EnterLoop
  <2>1. LoopTop /\ UNCHANGED <<cancelled, pc>> /\ ~busy
    BY <1>10 DEF EnterLoop, ThreadInv, Delivering
  <2>2. ASSUME NEW c \in Clients, pc'[c] = "waiting" PROVE ~NothingToLog
    BY <2>1, <2>2 DEF NobodyOversleeps, NothingToLog
  <2> QED
    BY <2>1, <2>2, LoopTopSleeps DEF NobodyOversleeps
<1>11. CASE Relock
  <2>1. LoopTop /\ UNCHANGED cancelled
    BY <1>11 DEF Relock
  <2>2. ASSUME NEW c \in Clients, pc'[c] = "waiting" PROVE ~NothingToLog
    BY <1>11, <2>2 DEF Relock
  <2> QED
    BY <2>1, <2>2, LoopTopSleeps DEF NobodyOversleeps
<1>12. CASE SpuriousWakeup
  BY <1>12 DEF SpuriousWakeup, NobodyOversleeps, queueVars, LogTypeOK
<1>13. CASE UNCHANGED logVars
  BY <1>13 DEF logVars, NobodyOversleeps, queueVars
<1> QED
  BY <1>2, <1>3, <1>4, <1>5, <1>6, <1>7, <1>8, <1>9, <1>10, <1>11, <1>12, <1>13
     DEF LogNext, ThreadStep

(* The invariant is inductive. *)
LEMMA NextLogIInv == LogIInv /\ [LogNext]_logVars => LogIInv'
<1> SUFFICES ASSUME LogIInv, [LogNext]_logVars PROVE LogTypeOK' /\ Accounting' /\ ThreadInv'
  BY SleepInv DEF LogIInv
<1>1. ASSUME NEW m \in Messages, Log(m) PROVE LogTypeOK' /\ Accounting' /\ ThreadInv'
  BY <1>1, LogInv
<1>2. CASE DeliverMessage
  BY <1>2, DeliverMessageInv
<1>3. CASE EnterLoop \/ Relock
  <2>1. /\ LoopTop /\ messages = <<>> /\ localDropped = 0 /\ localFailures = 0
        /\ UNCHANGED <<remainingCapacity, cancelled, notProperlyDelivered, logs, written>>
    BY <1>3 DEF EnterLoop, Relock, LogIInv, ThreadInv
  <2>2. pc' \in [Clients -> {"idle", "waiting", "woken"}]
    BY <1>3 DEF EnterLoop, Relock, LogIInv, LogTypeOK
  <2> QED
    BY <2>1, <2>2, LoopTopInv
<1> QED
  BY <1>1, <1>2, <1>3, OtherInv DEF LogNext, ThreadStep

(* Every reachable state satisfies the invariant. *)
LEMMA AlwaysLogIInv == LogSpec => []LogIInv
BY InitLogIInv, NextLogIInv, PTL DEF LogSpec

(* All variables keep their types, in particular the capacity its range:    *)
(* the facility never has more than Capacity limited messages.              *)
THEOREM LogTypeCorrect == LogSpec => []LogTypeOK
<1>1. LogIInv => LogTypeOK
  BY DEF LogIInv
<1> QED
  BY <1>1, AlwaysLogIInv, PTL

(* Neither the thread of the facility nor a client in Flush() sleeps when   *)
(* it is its turn, though a dropped message signals nobody.                 *)
THEOREM NoLostWakeup == LogSpec => []NobodyOversleeps
<1>1. LogIInv => NobodyOversleeps
  BY DEF LogIInv
<1> QED
  BY <1>1, AlwaysLogIInv, PTL

-----------------------------------------------------------------------------
(* The refinement. *)

(* What the concatenation of the chain and the queue does. *)
LEMMA ChainAndQueue ==
  ASSUME NEW S, NEW s \in Seq(S), NEW t \in Seq(S)
  PROVE  /\ s \o t \in Seq(S)
         /\ Elements(s \o t) = Elements(s) \cup Elements(t)
         /\ \A e \in S : s \o Append(t, e) = Append(s \o t, e)
         /\ s # <<>> => s \o t # <<>> /\ Tail(s) \o t = Tail(s \o t)
         /\ s = <<>> => s \o t = t
         /\ s \o <<>> = s
<1>1. s \o t \in Seq(S) /\ Len(s \o t) = Len(s) + Len(t)
  OBVIOUS
<1>2. \A i \in 1 .. Len(s) + Len(t) :
        (s \o t)[i] = IF i <= Len(s) THEN s[i] ELSE t[i - Len(s)]
  OBVIOUS
<1>3. Elements(s \o t) = Elements(s) \cup Elements(t)
  <2>1. Elements(s \o t) \subseteq Elements(s) \cup Elements(t)
    BY <1>1, <1>2 DEF Elements
  <2>2. Elements(s) \subseteq Elements(s \o t)
    BY <1>1, <1>2 DEF Elements
  <2>3. ASSUME NEW i \in 1 .. Len(t) PROVE t[i] \in Elements(s \o t)
    <3>1. i + Len(s) \in 1 .. Len(s) + Len(t) /\ (s \o t)[i + Len(s)] = t[i]
      BY <1>2
    <3> QED
      BY <1>1, <3>1 DEF Elements
  <2> QED
    BY <2>1, <2>2, <2>3 DEF Elements
<1>4. \A e \in S : s \o Append(t, e) = Append(s \o t, e)
  OBVIOUS
<1>5. s # <<>> => s \o t # <<>> /\ Tail(s) \o t = Tail(s \o t)
  OBVIOUS
<1>6. (s = <<>> => s \o t = t) /\ s \o <<>> = s
  OBVIOUS
<1> QED
  BY <1>1, <1>3, <1>4, <1>5, <1>6

accepted == messages \o queue
flushing == {c \in Clients : pc[c] # "idle"}

(* MessageLog counts as this module does. *)
LEMMA SameCardinality == \A S : Abstract!Cardinality(S) = Cardinality(S)
BY DEF Abstract!Cardinality, Cardinality

(* The limit of MessageLog counts what the accounting counts. *)
LEMMA CapacityIsTheLimit ==
  ASSUME LogIInv
  PROVE  /\ Abstract!OnTheirWay(messages \o queue) = OnTheWay
         /\ Cardinality(OnTheWay) \in Nat
         /\ Cardinality(OnTheWay) = Capacity - remainingCapacity
<1>1. Elements(accepted) = Elements(messages) \cup Elements(queue)
  BY ChainAndQueue DEF LogIInv, LogTypeOK, accepted
<1>2. Abstract!OnTheirWay(messages \o queue) = {m \in Limited : m \in Elements(accepted)}
  BY DEF Abstract!OnTheirWay, Elements, accepted
<1>3. Cardinality(OnTheWay) \in Nat
  BY FS_CardinalityType DEF LogIInv, Accounting
<1> QED
  BY <1>1, <1>2, <1>3, ConstantsAssumption DEF OnTheWay, LogIInv, Accounting, LogTypeOK

(* Steps that change nothing MessageLog knows of. *)
LEMMA Stutters ==
  ASSUME UNCHANGED <<accepted, Untold, written, flushing>>
  PROVE  UNCHANGED Abstract!vars
BY DEF Abstract!vars, accepted, flushing

(* Every step is one of MessageLog, or one it does not see. *)
LEMMA StepRefines ==
  ASSUME LogIInv, [LogNext]_logVars
  PROVE  [Abstract!Next]_Abstract!vars
<1> USE DEF LogIInv
<1> DEFINE Goal == Abstract!Next \/ UNCHANGED Abstract!vars
<1> SUFFICES Goal
  OBVIOUS
<1>t. queue \in Seq(Messages) /\ messages \in Seq(Messages)
  BY DEF LogTypeOK
<1>1. ASSUME NEW m \in Messages, Log(m) PROVE Goal
  <2>1. /\ queue' = Append(queue, m) /\ UNCHANGED <<messages, pc, written>>
        /\ UNCHANGED <<droppedMessages, messageCreationFailureCnt, localDropped, localFailures,
                       notProperlyDelivered>>
    BY <1>1 DEF Log, localVars
  <2>2. accepted' = Append(accepted, m)
    BY <1>t, <2>1, ChainAndQueue DEF accepted
  <2>3. UNCHANGED <<Untold, written, flushing>>
    BY <2>1 DEF Untold, flushing
  <2>4. m \in Limited => Abstract!Cardinality(Abstract!OnTheirWay(messages \o queue)) < Capacity
    BY <1>1, CapacityIsTheLimit, SameCardinality, ConstantsAssumption DEF Log, LogTypeOK
  <2>5. Abstract!Accept(m)
    BY <2>2, <2>3, <2>4 DEF Abstract!Accept, accepted, flushing
  <2> QED
    BY <2>5 DEF Abstract!Next
<1>2. CASE LogDropped
  <2>1. UNCHANGED <<accepted, written, flushing>>
    BY <1>2 DEF LogDropped, localVars, accepted, flushing
  <2>2. Abstract!Cardinality(Abstract!OnTheirWay(messages \o queue)) = Capacity
    BY <1>2, CapacityIsTheLimit, SameCardinality, ConstantsAssumption DEF LogDropped
  <2>3. Untold' = Untold \cup {"message"}
    <3>1. droppedMessages + 1 \in Nat /\ droppedMessages + 1 # 0
      BY DEF LogTypeOK
    <3>2. droppedMessages' # 0
      BY <1>2, <3>1, LimitType DEF LogDropped
    <3> QED
      BY <1>2, <3>2 DEF LogDropped, localVars, Untold
  <2>4. Abstract!Refuse
    BY <2>1, <2>2, <2>3 DEF Abstract!Refuse, accepted, flushing
  <2> QED
    BY <2>4 DEF Abstract!Next
<1>3. CASE ReportLogMessageCreationFailed
  <2>1. UNCHANGED <<accepted, written, flushing>>
    BY <1>3 DEF ReportLogMessageCreationFailed, localVars, accepted, flushing
  <2>2. Untold' = Untold \cup {"creation"}
    <3>1. messageCreationFailureCnt + 1 \in Nat /\ messageCreationFailureCnt + 1 # 0
      BY DEF LogTypeOK
    <3>2. messageCreationFailureCnt' # 0
      BY <1>3, <3>1, LimitType DEF ReportLogMessageCreationFailed
    <3> QED
      BY <1>3, <3>2 DEF ReportLogMessageCreationFailed, localVars, Untold
  <2>3. Abstract!NotCreated
    BY <2>1, <2>2 DEF Abstract!NotCreated, accepted, flushing
  <2> QED
    BY <2>3 DEF Abstract!Next
<1>4. ASSUME NEW c \in Clients, Flush(c) PROVE Goal
  <2>1. UNCHANGED <<accepted, Untold, written>>
    BY <1>4 DEF Flush, queueVars, localVars, accepted, Untold
  <2>2. flushing' = flushing \cup {c}
    BY <1>4 DEF Flush, flushing, LogTypeOK
  <2>3. Abstract!Flush(c)
    BY <2>1, <2>2 DEF Abstract!Flush, accepted, flushing
  <2> QED
    BY <2>3 DEF Abstract!Next
<1>5. ASSUME NEW c \in Clients, FlushWakes(c) PROVE Goal
  <2>1. UNCHANGED <<accepted, Untold, written>>
    BY <1>5 DEF FlushWakes, queueVars, localVars, accepted, Untold
  <2>2. CASE Flushed
    <3>1. queue = <<>> /\ messages = <<>> /\ localFailures = 0 /\ messageCreationFailureCnt = 0
      BY <2>2 DEF Flushed, NothingToLog, ThreadInv, Delivering
    <3>2. accepted = <<>> /\ "creation" \notin Untold
      BY <3>1 DEF accepted, Untold
    <3>3. flushing' = flushing \ {c}
      BY <1>5, <2>2 DEF FlushWakes, flushing, LogTypeOK
    <3>4. Abstract!FlushReturns(c)
      BY <2>1, <3>2, <3>3 DEF Abstract!FlushReturns, accepted, flushing
    <3> QED
      BY <3>4 DEF Abstract!Next
  <2>3. CASE ~Flushed
    <3>1. UNCHANGED flushing
      BY <1>5, <2>3 DEF FlushWakes, flushing, LogTypeOK
    <3> QED
      BY <2>1, <3>1, Stutters
  <2> QED
    BY <2>2, <2>3
<1>6. CASE Start \/ Stop \/ StopReturns \/ SpuriousWakeup \/ UNCHANGED logVars
  <2>1. UNCHANGED <<queueVars, localVars, notProperlyDelivered, written>>
    BY <1>6 DEF Start, Stop, StopReturns, SpuriousWakeup, logVars
  <2>2. UNCHANGED flushing
    BY <1>6 DEF Start, Stop, StopReturns, SpuriousWakeup, logVars, flushing, LogTypeOK
  <2> QED
    BY <2>1, <2>2, Stutters DEF accepted, Untold, queueVars, localVars
<1>7. CASE EnterLoop \/ Relock
  <2>1. /\ LoopTop /\ UNCHANGED <<notProperlyDelivered, written>>
        /\ messages = <<>> /\ localDropped = 0 /\ localFailures = 0
    BY <1>7 DEF EnterLoop, Relock, ThreadInv
  <2>2. UNCHANGED flushing
    BY <1>7 DEF EnterLoop, Relock, flushing, LogTypeOK
  <2>3. UNCHANGED accepted
    BY <1>t, <2>1, ChainAndQueue DEF LoopTop, queueVars, localVars, accepted
  <2>4. UNCHANGED Untold
    BY <2>1 DEF LoopTop, queueVars, localVars, Untold
  <2> QED
    BY <2>1, <2>2, <2>3, <2>4, Stutters
<1>8. CASE BeginDelivery
  <2>1. UNCHANGED <<accepted, written, flushing>>
    BY <1>8 DEF BeginDelivery, queueVars, accepted, flushing
  <2>2. notProperlyDelivered' # 0 <=> notProperlyDelivered # 0 \/ localDropped # 0
    <3>1. localDropped + notProperlyDelivered \in Nat
      BY DEF LogTypeOK
    <3>2. localDropped + notProperlyDelivered # 0
            <=> notProperlyDelivered # 0 \/ localDropped # 0
      BY DEF LogTypeOK
    <3> QED
      BY <1>8, <3>1, <3>2, LimitType, ConstantsAssumption DEF BeginDelivery, Limit
  <2>3. UNCHANGED Untold
    BY <1>8, <2>2 DEF BeginDelivery, queueVars, Untold
  <2> QED
    BY <2>1, <2>3, Stutters
<1>9. ASSUME NEW n \in 0 .. MaxCount, Delivered(n)
      PROVE  \/ notProperlyDelivered' = n /\ written' = written + 1
             \/ notProperlyDelivered' # 0 /\ UNCHANGED written
  <2>1. n + 1 \in Nat /\ n + 1 # 0
    BY ConstantsAssumption
  <2> QED
    BY <1>9, <2>1, LimitType DEF Delivered
<1>10. CASE DeliverMessage
  <2>1. /\ messages # <<>> /\ messages' = Tail(messages) /\ Delivered(notProperlyDelivered)
        /\ UNCHANGED <<queue, droppedMessages, messageCreationFailureCnt, localDropped,
                       localFailures, pc>>
    BY <1>10 DEF DeliverMessage, queueVars
  <2>2. accepted # <<>> /\ accepted' = Tail(accepted) /\ UNCHANGED flushing
    BY <1>t, <2>1, ChainAndQueue DEF accepted, flushing
  <2>3. \/ written' = written + 1 /\ UNCHANGED Untold
        \/ Untold' = Untold \cup {"message"} /\ UNCHANGED written
    BY <1>9, <2>1 DEF Untold, LogTypeOK
  <2>4. Abstract!Process
    BY <2>2, <2>3 DEF Abstract!Process, accepted, flushing
  <2> QED
    BY <2>4 DEF Abstract!Next
<1>11. CASE ReportLosses
  <2>1. /\ UNCHANGED <<queueVars, localVars, pc>>
        /\ \/ UNCHANGED <<notProperlyDelivered, written>>
           \/ notProperlyDelivered # 0 /\ Delivered(0)
    BY <1>11 DEF ReportLosses
  <2>2. UNCHANGED <<accepted, flushing>>
    BY <2>1 DEF queueVars, localVars, accepted, flushing
  <2>3. CASE UNCHANGED <<notProperlyDelivered, written>>
    BY <2>1, <2>2, <2>3, Stutters DEF queueVars, localVars, Untold
  <2>4. CASE notProperlyDelivered # 0 /\ Delivered(0)
    <3>1. \/ notProperlyDelivered' = 0 /\ written' = written + 1
          \/ notProperlyDelivered' # 0 /\ UNCHANGED written
      BY <1>9, <2>4, ConstantsAssumption
    <3>2. CASE notProperlyDelivered' = 0 /\ written' = written + 1
      <4>1. "message" \in Untold /\ Untold' \in {Untold, Untold \ {"message"}}
        BY <2>1, <2>4, <3>2 DEF queueVars, localVars, Untold
      <4>2. Abstract!Report("message")
        BY <2>2, <3>2, <4>1 DEF Abstract!Report, accepted, flushing
      <4> QED
        BY <4>2 DEF Abstract!Next
    <3>3. CASE notProperlyDelivered' # 0 /\ UNCHANGED written
      <4>1. UNCHANGED Untold
        BY <2>1, <2>4, <3>3 DEF queueVars, localVars, Untold
      <4> QED
        BY <2>2, <3>3, <4>1, Stutters
    <3> QED
      BY <3>1, <3>2, <3>3
  <2> QED
    BY <2>1, <2>3, <2>4
<1>12. CASE ReportFailures
  <2>1. /\ UNCHANGED <<queueVars, messages, localDropped, pc>> /\ localFailures' = 0
        /\ IF localFailures = 0 THEN UNCHANGED <<notProperlyDelivered, written>>
                                ELSE Delivered(notProperlyDelivered)
    BY <1>12 DEF ReportFailures
  <2>2. UNCHANGED <<accepted, flushing>>
    BY <2>1 DEF queueVars, accepted, flushing
  <2>3. CASE localFailures = 0
    BY <2>1, <2>2, <2>3, Stutters DEF queueVars, Untold
  <2>4. CASE localFailures # 0
    <3>1. \/ notProperlyDelivered' = notProperlyDelivered /\ written' = written + 1
          \/ notProperlyDelivered' # 0 /\ UNCHANGED written
      BY <1>9, <2>1, <2>4 DEF LogTypeOK
    <3>2. "creation" \in Untold
      BY <2>4 DEF Untold
    <3>3. CASE notProperlyDelivered' = notProperlyDelivered /\ written' = written + 1
      <4>1. Untold' \in {Untold, Untold \ {"creation"}}
        BY <2>1, <2>4, <3>3 DEF queueVars, Untold
      <4>2. Abstract!Report("creation")
        BY <2>2, <3>2, <3>3, <4>1 DEF Abstract!Report, accepted, flushing
      <4> QED
        BY <4>2 DEF Abstract!Next
    <3>4. CASE notProperlyDelivered' # 0 /\ UNCHANGED written
      <4>1. Untold' \in {Untold \cup {"message"}, (Untold \ {"creation"}) \cup {"message"}}
        BY <2>1, <2>4, <3>4 DEF queueVars, Untold
      <4>2. Abstract!ReportLost("creation")
        BY <2>2, <3>2, <3>4, <4>1 DEF Abstract!ReportLost, accepted, flushing
      <4> QED
        BY <4>2 DEF Abstract!Next
    <3> QED
      BY <3>1, <3>3, <3>4
  <2> QED
    BY <2>3, <2>4
<1> QED
  BY <1>1, <1>2, <1>3, <1>4, <1>5, <1>6, <1>7, <1>8, <1>10, <1>11, <1>12 DEF LogNext, ThreadStep

(* The facility keeps the promises of MessageLog: messages are written in   *)
(* the order of acceptance, the limit is exact, no loss is silent, and      *)
(* Flush() returns only when nothing is on its way.                         *)
THEOREM LogRefinement == LogSpec => ImplementsMessageLog
<1>1. LogInit => Abstract!Init
  <2> SUFFICES ASSUME LogInit PROVE Abstract!Init
    OBVIOUS
  <2>1. messages \o queue = <<>>
    BY DEF LogInit
  <2>2. Untold = {}
    BY DEF LogInit, Untold
  <2>3. {c \in Clients : pc[c] # "idle"} = {}
    BY DEF LogInit
  <2> QED
    BY <2>1, <2>2, <2>3 DEF LogInit, Abstract!Init
<1> QED
  BY <1>1, StepRefines, AlwaysLogIInv, PTL DEF LogSpec, ImplementsMessageLog, Abstract!Spec
=============================================================================
