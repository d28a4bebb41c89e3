--------------------------- MODULE WorkQueue_proofs ---------------------------
(***************************************************************************)
(* Proofs about WorkQueue for any queues, clients and packages and any     *)
(* number of calls: a package is in one place only, its state says where,  *)
(* no thread sleeps on work, and the queues implement WorkExecutor.        *)
(*                                                                         *)
(* The queues have separate mutexes: that a package is not enqueued twice  *)
(* follows from the state of the package alone, so that OnePlace and       *)
(* StateMatchesPlace need each other.                                      *)
(***************************************************************************)
EXTENDS WorkQueue, SequenceTheorems, TLAPS

States == StaticStates \cup DynamicStates \cup {"panic"}

Elements(s) == {s[i] : i \in 1 .. Len(s)}
Distinct(s) == \A i, j \in 1 .. Len(s) : s[i] = s[j] => i = j

(* s without its i-th element *)
Cut(s, i) == [j \in 1 .. Len(s) - 1 |-> IF j < i THEN s[j] ELSE s[j + 1]]

(* The queues in B execute p; p is in some queue. *)
Executed(p, B) == \E q \in B : current[q] = p
Enqueued(p) == \E q \in Queues : p \in InQueue(q)

(* s is the right state of p if the queues in B execute their packages. *)
Right(s, p, B) ==
  /\ p \in Static /\ Enqueued(p) /\ Executed(p, B) => s = "staticExecInQ"
  /\ p \in Static /\ Enqueued(p) /\ ~Executed(p, B) => s = "staticInQ"
  /\ p \in Static /\ ~Enqueued(p) /\ Executed(p, B) => s = "staticExec"
  /\ p \in Static /\ ~Enqueued(p) /\ ~Executed(p, B) => s = "staticNotInQ"
  /\ p \notin Static /\ (Enqueued(p) \/ Executed(p, B)) => s = "dynamicInQ"
  /\ p \notin Static /\ ~Enqueued(p) /\ ~Executed(p, B) => s = "dynamicNotInQ"

Busy == {q \in Queues : HasPackage(q)}

Types ==
  /\ queue \in [Queues -> Seq(Packages)]
  /\ state \in [Packages -> States]
  /\ current \in [Queues -> Packages \cup {None}]
  /\ terminate \in [Queues -> BOOLEAN]
  /\ worker \in [Queues -> WorkerStates]

(* The places of the packages; a dynamic package is not accepted again     *)
(* while it is executed.                                                   *)
Places ==
  /\ \A q \in Queues : Distinct(queue[q])
  /\ \A q, r \in Queues : q # r => InQueue(q) \cap InQueue(r) = {}
  /\ \A q, r \in Queues : q # r /\ q \in Busy => current[q] \notin InQueue(r)
  /\ \A q, r \in Queues : q # r /\ q \in Busy /\ r \in Busy => current[q] # current[r]
  /\ \A q \in Busy : current[q] \in InQueue(q) => current[q] \in Static
  /\ \A q \in Queues : q \in Busy <=> current[q] # None

Matching == \A p \in Packages : Right(state[p], p, Busy)

IInv == Types /\ Places /\ Matching /\ NeverSleepsOnWork

-----------------------------------------------------------------------------
(* Facts about sequences: what adding and removing does to the elements *)

LEMMA AppendElements ==
  ASSUME NEW S, NEW s \in Seq(S), NEW p \in S
  PROVE  /\ Append(s, p) \in Seq(S)
         /\ Elements(Append(s, p)) = Elements(s) \cup {p}
         /\ p \notin Elements(s) /\ Distinct(s) => Distinct(Append(s, p))
<1> DEFINE t == Append(s, p)
<1>1. /\ t \in Seq(S) /\ Len(t) = Len(s) + 1 /\ Len(s) \in Nat
      /\ \A i \in 1 .. Len(s) : t[i] = s[i]
      /\ t[Len(s) + 1] = p
  BY AppendProperties, LenProperties
<1> HIDE DEF t
<1>2. \A i \in 1 .. Len(t) : i \in 1 .. Len(s) \/ i = Len(s) + 1
  BY <1>1
<1>3. Elements(t) = Elements(s) \cup {p}
  <2>1. \A x \in Elements(t) : x \in Elements(s) \cup {p}
    BY <1>1, <1>2 DEF Elements
  <2>2. \A x \in Elements(s) : x \in Elements(t)
    BY <1>1 DEF Elements
  <2>3. p \in Elements(t)
    BY <1>1 DEF Elements
  <2> QED
    BY <2>1, <2>2, <2>3
<1>4. ASSUME p \notin Elements(s), Distinct(s) PROVE Distinct(t)
  BY <1>1, <1>2, <1>4 DEF Elements, Distinct
<1> QED
  BY <1>1, <1>3, <1>4 DEF t

LEMMA PrependElements ==
  ASSUME NEW S, NEW s \in Seq(S), NEW p \in S
  PROVE  /\ <<p>> \o s \in Seq(S)
         /\ Elements(<<p>> \o s) = Elements(s) \cup {p}
         /\ p \notin Elements(s) /\ Distinct(s) => Distinct(<<p>> \o s)
<1> DEFINE t == <<p>> \o s
<1>1. <<p>> \in Seq(S) /\ Len(<<p>>) = 1 /\ <<p>>[1] = p
  OBVIOUS
<1>2. /\ t \in Seq(S) /\ Len(t) = 1 + Len(s) /\ Len(s) \in Nat
      /\ \A i \in 1 .. 1 + Len(s) : t[i] = IF i <= 1 THEN <<p>>[i] ELSE s[i - 1]
  BY <1>1, ConcatProperties, LenProperties
<1>3. t[1] = p
  BY <1>1, <1>2
<1>4. \A i \in 1 .. Len(s) : t[i + 1] = s[i]
  BY <1>2
<1> HIDE DEF t
<1>5. \A i \in 1 .. Len(t) : i = 1 \/ (i - 1 \in 1 .. Len(s) /\ t[i] = s[i - 1])
  BY <1>2
<1>6. Elements(t) = Elements(s) \cup {p}
  <2>1. \A x \in Elements(t) : x \in Elements(s) \cup {p}
    BY <1>3, <1>5 DEF Elements
  <2>2. \A x \in Elements(s) : x \in Elements(t)
    <3> SUFFICES ASSUME NEW i \in 1 .. Len(s) PROVE s[i] \in Elements(t)
      BY DEF Elements
    <3>1. i + 1 \in 1 .. Len(t) /\ t[i + 1] = s[i]
      BY <1>2, <1>4
    <3> QED
      BY <3>1 DEF Elements
  <2>3. p \in Elements(t)
    BY <1>2, <1>3 DEF Elements
  <2> QED
    BY <2>1, <2>2, <2>3
<1>7. ASSUME p \notin Elements(s), Distinct(s) PROVE Distinct(t)
  <2> SUFFICES ASSUME NEW i \in 1 .. Len(t), NEW j \in 1 .. Len(t), t[i] = t[j]
               PROVE  i = j
    BY DEF Distinct
  <2>1. CASE i = 1 \/ j = 1
    BY <1>3, <1>5, <1>7, <2>1 DEF Elements
  <2>2. CASE i # 1 /\ j # 1
    BY <1>5, <1>7, <2>2 DEF Distinct
  <2> QED
    BY <2>1, <2>2
<1> QED
  BY <1>2, <1>6, <1>7 DEF t

LEMMA TailElements ==
  ASSUME NEW S, NEW s \in Seq(S), s # <<>>, Distinct(s)
  PROVE  /\ Tail(s) \in Seq(S) /\ Head(s) \in S
         /\ Elements(Tail(s)) = Elements(s) \ {Head(s)}
         /\ Head(s) \in Elements(s)
         /\ Distinct(Tail(s))
<1> DEFINE t == Tail(s)
<1>1. /\ t \in Seq(S) /\ Head(s) \in S /\ Len(t) = Len(s) - 1 /\ Len(s) \in Nat \ {0}
      /\ \A i \in 1 .. Len(t) : t[i] = s[i + 1]
  BY HeadTailProperties, EmptySeq
<1>2. Head(s) = s[1]
  OBVIOUS
<1> HIDE DEF t
<1>3. Elements(t) = Elements(s) \ {s[1]}
  <2>1. ASSUME NEW i \in 1 .. Len(t) PROVE t[i] \in Elements(s) \ {s[1]}
    <3>1. i + 1 \in 1 .. Len(s) /\ i + 1 # 1 /\ 1 \in 1 .. Len(s)
      BY <1>1
    <3> QED
      BY <1>1, <3>1 DEF Elements, Distinct
  <2>2. ASSUME NEW i \in 1 .. Len(s), s[i] # s[1] PROVE s[i] \in Elements(t)
    <3>1. i - 1 \in 1 .. Len(t) /\ t[i - 1] = s[i]
      BY <1>1, <2>2
    <3> QED
      BY <3>1 DEF Elements
  <2> QED
    BY <2>1, <2>2 DEF Elements
<1>4. Distinct(t)
  <2> SUFFICES ASSUME NEW i \in 1 .. Len(t), NEW j \in 1 .. Len(t), t[i] = t[j]
               PROVE  i = j
    BY DEF Distinct
  <2>1. i + 1 \in 1 .. Len(s) /\ j + 1 \in 1 .. Len(s) /\ s[i + 1] = s[j + 1]
    BY <1>1
  <2> QED
    BY <2>1 DEF Distinct
<1>5. s[1] \in Elements(s)
  BY <1>1 DEF Elements
<1> QED
  BY <1>1, <1>2, <1>3, <1>4, <1>5 DEF t

LEMMA CutElements ==
  ASSUME NEW S, NEW s \in Seq(S), Distinct(s), NEW i \in 1 .. Len(s)
  PROVE  /\ Cut(s, i) \in Seq(S)
         /\ Elements(Cut(s, i)) = Elements(s) \ {s[i]}
         /\ Distinct(Cut(s, i))
<1>a. PICK t : t = Cut(s, i)
  OBVIOUS
<1>b. t = [j \in 1 .. Len(s) - 1 |-> IF j < i THEN s[j] ELSE s[j + 1]]
  BY <1>a DEF Cut
<1>1. Len(s) \in Nat /\ Len(s) - 1 \in Nat /\ \A j \in 1 .. Len(s) : s[j] \in S
  BY LenProperties, ElementOfSeq
<1>2. t \in [1 .. Len(s) - 1 -> S]
  BY <1>1, <1>b
<1>3. t \in Seq(S)
  BY <1>1, <1>2, SeqDef
<1>4. Len(t) = Len(s) - 1
  <2>1. DOMAIN t = 1 .. Len(t) /\ DOMAIN t = 1 .. Len(s) - 1 /\ Len(t) \in Nat
    BY <1>2, <1>3, LenProperties
  <2> QED
    BY <1>1, <2>1
<1>5. \A j \in 1 .. Len(t) : t[j] = IF j < i THEN s[j] ELSE s[j + 1]
  BY <1>4, <1>b
<1>6. Elements(t) = Elements(s) \ {s[i]}
  <2>1. ASSUME NEW j \in 1 .. Len(t) PROVE t[j] \in Elements(s) \ {s[i]}
    <3>1. CASE j < i
      BY <1>1, <1>4, <1>5, <3>1 DEF Elements, Distinct
    <3>2. CASE ~(j < i)
      <4>1. j + 1 \in 1 .. Len(s) /\ j + 1 # i /\ t[j] = s[j + 1]
        BY <1>1, <1>4, <1>5, <3>2
      <4> QED
        BY <4>1 DEF Elements, Distinct
    <3> QED
      BY <3>1, <3>2
  <2>2. ASSUME NEW j \in 1 .. Len(s), s[j] # s[i] PROVE s[j] \in Elements(t)
    <3>1. CASE j < i
      BY <1>1, <1>4, <1>5, <3>1 DEF Elements
    <3>2. CASE j > i
      <4>1. j - 1 \in 1 .. Len(t) /\ t[j - 1] = s[j]
        BY <1>1, <1>4, <1>5, <3>2
      <4> QED
        BY <4>1 DEF Elements
    <3> QED
      BY <2>2, <3>1, <3>2, <1>1
  <2> QED
    BY <2>1, <2>2 DEF Elements
<1>7. Distinct(t)
  <2> SUFFICES ASSUME NEW j \in 1 .. Len(t), NEW k \in 1 .. Len(t), t[j] = t[k]
               PROVE  j = k
    BY DEF Distinct
  <2> DEFINE f(x) == IF x < i THEN x ELSE x + 1
  <2>1. f(j) \in 1 .. Len(s) /\ f(k) \in 1 .. Len(s) /\ s[f(j)] = s[f(k)]
    BY <1>1, <1>4, <1>5
  <2>2. f(j) = f(k)
    BY <2>1 DEF Distinct
  <2> QED
    BY <2>2
<1> QED
  BY <1>3, <1>6, <1>7, <1>a
-----------------------------------------------------------------------------
LEMMA PackagesAreNotNone == None \notin Packages
  BY ConstantsAssumption

LEMMA InitEstablishesIInv == Init => IInv
<1> SUFFICES ASSUME Init PROVE IInv
  OBVIOUS
<1>1. Types
  <2>1. <<>> \in Seq(Packages)
    OBVIOUS
  <2>2. queue \in [Queues -> Seq(Packages)]
    BY <2>1 DEF Init
  <2>3. state \in [Packages -> States]
    BY DEF Init, States, StaticStates, DynamicStates
  <2> QED
    BY <2>2, <2>3 DEF Init, Types, WorkerStates
<1>2. Busy = {} /\ \A q \in Queues : Elements(queue[q]) = {} /\ InQueue(q) = {}
  BY DEF Init, Busy, HasPackage, Elements, InQueue
<1>3. \A q \in Queues : Distinct(queue[q])
  BY DEF Init, Distinct
<1>4. Places
  BY <1>2, <1>3 DEF Init, Places
<1>5. Matching
  BY <1>2 DEF Init, Matching, Right, Enqueued, Executed
<1>6. NeverSleepsOnWork
  BY DEF Init, NeverSleepsOnWork
<1> QED
  BY <1>1, <1>4, <1>5, <1>6 DEF IInv

(* A step of a worker that moves no package and does not lie down *)
WorkersMove ==
  /\ worker' \in [Queues -> WorkerStates]
  /\ \A q \in Queues : worker'[q] = "waiting" => worker[q] = "waiting"
  /\ \A q \in Queues : HasPackage(q)' <=> HasPackage(q)

LEMMA FrameStep ==
  ASSUME IInv, UNCHANGED <<queue, state, current>>, WorkersMove,
         terminate' \in [Queues -> BOOLEAN],
         \A q \in Queues : worker'[q] = "waiting" => terminate'[q] = terminate[q]
  PROVE  IInv'
<1>1. Busy' = Busy /\ \A q \in Queues : InQueue(q)' = InQueue(q)
  BY DEF Busy, WorkersMove, InQueue
<1>2. Types'
  BY DEF IInv, Types, WorkersMove
<1>3. Places'
  <2>1. Places /\ queue' = queue /\ current' = current
    BY DEF IInv
  <2>2. \A q \in Queues : Distinct(queue[q])'
    BY <2>1 DEF Places
  <2>3. \A q, r \in Queues : q # r => InQueue(q)' \cap InQueue(r)' = {}
    BY <1>1, <2>1 DEF Places
  <2>4. \A q, r \in Queues : q # r /\ q \in Busy => current[q] \notin InQueue(r)'
    BY <1>1, <2>1 DEF Places
  <2>5. \A q \in Busy : current[q] \in InQueue(q)' => current[q] \in Static
    <3>1. Busy \subseteq Queues
      BY DEF Busy
    <3> QED
      BY <1>1, <2>1, <3>1 DEF Places
  <2> QED
    BY <1>1, <2>1, <2>2, <2>3, <2>4, <2>5 DEF Places
<1>4. Matching'
  <2>1. \A p : Enqueued(p)' <=> Enqueued(p)
    BY <1>1 DEF Enqueued
  <2>2. \A p : Executed(p, Busy)' <=> Executed(p, Busy)
    BY <1>1 DEF Executed
  <2> QED
    BY <2>1, <2>2 DEF IInv, Matching, Right
<1>5. NeverSleepsOnWork'
  BY DEF IInv, NeverSleepsOnWork, WorkersMove
<1> QED
  BY <1>2, <1>3, <1>4, <1>5 DEF IInv

(* The state of a package is enough to know that it may be accepted. *)
LEMMA AcceptedIsFree ==
  ASSUME IInv, NEW q \in Queues, NEW p \in Packages, Accepts(q, p)
  PROVE  /\ ~Enqueued(p)
         /\ \A r \in Busy : current[r] = p => r = q
         /\ p \notin Static => ~Executed(p, Busy)
         /\ p \in Static => (current[q] = p <=> Executed(p, Busy))
<1>1. Right(state[p], p, Busy)
  BY DEF IInv, Matching
<1>2. q \in Busy <=> current[q] # None
  BY DEF IInv, Places
<1>3. current[q] = p => q \in Busy
  BY <1>2, PackagesAreNotNone
<1>4. Busy \subseteq Queues
  BY DEF Busy
<1>5. CASE p \notin Static
  <2>1. state[p] = "dynamicNotInQ"
    BY <1>5 DEF Accepts
  <2> QED
    BY <1>1, <1>5, <2>1 DEF Right, Executed
<1>6. CASE p \in Static /\ current[q] # p
  <2>1. state[p] = "staticNotInQ"
    BY <1>6 DEF Accepts
  <2>2. ~Enqueued(p) /\ ~Executed(p, Busy)
    BY <1>1, <1>6, <2>1 DEF Right
  <2> QED
    BY <1>6, <2>2 DEF Executed
<1>7. CASE p \in Static /\ current[q] = p
  <2>1. state[p] = "staticExec" /\ Executed(p, Busy)
    BY <1>3, <1>7 DEF Accepts, Executed
  <2>2. ~Enqueued(p)
    BY <1>1, <1>7, <2>1 DEF Right
  <2>3. \A r \in Busy : current[r] = p => r = q
    BY <1>3, <1>4, <1>7 DEF IInv, Places
  <2> QED
    BY <1>7, <2>1, <2>2, <2>3
<1> QED
  BY <1>5, <1>6, <1>7

LEMMA EnqueueStep ==
  ASSUME IInv, NEW q \in Queues, NEW p \in Packages, NEW n \in Seq(Packages),
         Elements(n) = Elements(queue[q]) \cup {p},
         p \notin Elements(queue[q]) /\ Distinct(queue[q]) => Distinct(n),
         Enqueue(q, p, n), UNCHANGED <<current, terminate>>
  PROVE  IInv'
<1>1. /\ ~Enqueued(p)
      /\ \A r \in Busy : current[r] = p => r = q
      /\ p \notin Static => ~Executed(p, Busy)
      /\ p \in Static => (current[q] = p <=> Executed(p, Busy))
  BY AcceptedIsFree DEF Enqueue
<1>2. /\ queue' = [queue EXCEPT ![q] = n]
      /\ state' = SetToInQ(q, p)
      /\ worker' = [worker EXCEPT ![q] = IF queue[q] = <<>> /\ @ = "waiting" THEN "woken" ELSE @]
  BY DEF Enqueue, SignalIfEmpty
<1>3. /\ InQueue(q)' = InQueue(q) \cup {p}
      /\ \A r \in Queues : r # q => InQueue(r)' = InQueue(r)
      /\ \A r \in Queues : InQueue(r) = Elements(queue[r])
  BY <1>2 DEF IInv, Types, InQueue, Elements
<1>4. WorkersMove /\ worker'[q] # "waiting"
  <2>1. worker[q] = "waiting" => queue[q] = <<>>
    BY DEF IInv, NeverSleepsOnWork
  <2>2. worker' \in [Queues -> WorkerStates]
    BY <1>2 DEF IInv, Types, WorkerStates
  <2> QED
    BY <1>2, <2>1, <2>2 DEF IInv, Types, WorkersMove, HasPackage
<1>5. Busy' = Busy
  BY <1>4 DEF WorkersMove, Busy
<1>6. /\ \A r \in Packages : r # p => state'[r] = state[r]
      /\ p \notin Static => state'[p] = "dynamicInQ"
      /\ p \in Static /\ Executed(p, Busy) => state'[p] = "staticExecInQ"
      /\ p \in Static /\ ~Executed(p, Busy) => state'[p] = "staticInQ"
  BY <1>1, <1>2 DEF IInv, Types, SetToInQ
<1>7. Types'
  <2>1. state' \in [Packages -> States]
    BY <1>2 DEF IInv, Types, SetToInQ, States, StaticStates, DynamicStates
  <2> QED
    BY <1>2, <1>4, <2>1 DEF IInv, Types, WorkersMove
<1>8. Places'
  <2>1. \A r \in Queues : Distinct(queue'[r])
    <3>1. p \notin Elements(queue[q])
      BY <1>1, <1>3 DEF Enqueued
    <3> QED
      BY <1>2, <3>1 DEF IInv, Types, Places
  <2>2. \A r, t \in Queues : r # t => InQueue(r)' \cap InQueue(t)' = {}
    BY <1>1, <1>3 DEF IInv, Places, Enqueued
  <2>3. \A r, t \in Queues : r # t /\ r \in Busy => current[r] \notin InQueue(t)'
    BY <1>1, <1>3 DEF IInv, Places
  <2>4. \A r \in Busy : current[r] \in InQueue(r)' => current[r] \in Static
    BY <1>1, <1>3 DEF IInv, Places, Executed, Busy
  <2> QED
    BY <1>5, <2>1, <2>2, <2>3, <2>4 DEF IInv, Places
<1>9. Matching'
  <2>1. Enqueued(p)' /\ \A r \in Packages : r # p => (Enqueued(r)' <=> Enqueued(r))
    BY <1>3 DEF Enqueued
  <2>2. \A r : Executed(r, Busy)' <=> Executed(r, Busy)
    BY <1>5 DEF Executed
  <2>3. Right(state[p], p, Busy)'
    BY <1>6, <2>1, <2>2 DEF Right
  <2>4. ASSUME NEW r \in Packages, r # p PROVE Right(state[r], r, Busy)'
    <3>1. Right(state[r], r, Busy)
      BY DEF IInv, Matching
    <3> QED
      BY <1>6, <2>1, <2>2, <2>4, <3>1 DEF Right
  <2> QED
    BY <2>3, <2>4 DEF Matching
<1>10. NeverSleepsOnWork'
  BY <1>2, <1>4 DEF IInv, Types, NeverSleepsOnWork, WorkersMove
<1> QED
  BY <1>7, <1>8, <1>9, <1>10 DEF IInv

(* A package that is unlinked has the state that Release() expects. *)
LEMMA UnlinkStep ==
  ASSUME IInv, NEW q \in Queues, NEW i \in 1 .. Len(queue[q]), Unlink(q, i),
         UNCHANGED <<current, terminate, worker>>
  PROVE  IInv'
<1> DEFINE n == queue'[q]
<1>a. queue[q] \in Seq(Packages) /\ queue[q][i] \in Packages
  <2>1. queue[q] \in Seq(Packages)
    BY DEF IInv, Types
  <2> QED
    BY <2>1, ElementOfSeq
<1>1. PICK p \in Packages : p = queue[q][i]
  BY <1>a
<1>2. /\ n \in Seq(Packages) /\ Distinct(n) /\ Elements(n) = Elements(queue[q]) \ {p}
      /\ \A r \in Queues : r # q => queue'[r] = queue[r]
      /\ queue' \in [Queues -> Seq(Packages)]
  <2>1. queue' = [queue EXCEPT ![q] = [j \in 1 .. Len(queue[q]) - 1 |->
                                         IF j < i THEN queue[q][j] ELSE queue[q][j + 1]]]
    BY DEF Unlink
  <2>2. n = [j \in 1 .. Len(queue[q]) - 1 |-> IF j < i THEN queue[q][j] ELSE queue[q][j + 1]]
    BY <2>1 DEF IInv, Types
  <2>3. Distinct(queue[q])
    BY DEF IInv, Places
  <2>4. n \in Seq(Packages) /\ Distinct(n) /\ Elements(n) = Elements(queue[q]) \ {p}
    <3>1. n = Cut(queue[q], i)
      BY <2>2 DEF Cut
    <3>2. i \in 1 .. Len(queue[q])
      OBVIOUS
    <3> HIDE DEF n
    <3> QED
      BY <1>a, <1>1, <2>3, <3>1, <3>2, CutElements
  <2> QED
    BY <2>1, <2>2, <2>4 DEF IInv, Types
<1>3. /\ InQueue(q)' = InQueue(q) \ {p} /\ p \in InQueue(q)
      /\ \A r \in Queues : r # q => InQueue(r)' = InQueue(r)
  BY <1>1, <1>2 DEF InQueue, Elements
<1>4. Enqueued(p) /\ ~Enqueued(p)' /\ \A r \in Packages : r # p => (Enqueued(r)' <=> Enqueued(r))
  <2>1. \A r \in Queues : r # q => InQueue(q) \cap InQueue(r) = {}
    BY DEF IInv, Places
  <2>2. Enqueued(p)
    BY <1>3 DEF Enqueued
  <2>3. \A r \in Queues : p \notin InQueue(r)'
    BY <1>3, <2>1
  <2>4. \A r \in Packages : r # p => \A t \in Queues : r \in InQueue(t)' <=> r \in InQueue(t)
    BY <1>3
  <2> QED
    BY <2>2, <2>3, <2>4 DEF Enqueued
<1>5. state' = [state EXCEPT ![p] = Released(@)]
  BY <1>1 DEF Unlink
<1> HIDE DEF n
<1>6. Busy' = Busy
  BY DEF Busy, HasPackage
<1>7. \A r : Executed(r, Busy)' <=> Executed(r, Busy)
  BY <1>6 DEF Executed
<1>8. p \notin Static => ~Executed(p, Busy)
  <2>1. Busy \subseteq Queues
    BY DEF Busy
  <2> QED
    BY <1>3, <2>1 DEF IInv, Places, Executed
<1>9. Right(state[p], p, Busy)
  BY <1>1 DEF IInv, Matching
<1>10. Right(state[p], p, Busy)' /\ state'[p] \in States
  <2>1. state'[p] = Released(state[p])
    BY <1>1, <1>5 DEF IInv, Types
  <2>2. CASE p \notin Static
    <3>1. state[p] = "dynamicInQ"
      BY <1>4, <1>9, <2>2 DEF Right
    <3>2. state'[p] = "dynamicNotInQ"
      BY <2>1, <3>1 DEF Released
    <3> QED
      BY <1>4, <1>7, <1>8, <2>2, <3>2 DEF Right, States, DynamicStates
  <2>3. CASE p \in Static /\ Executed(p, Busy)
    <3>1. state[p] = "staticExecInQ"
      BY <1>4, <1>9, <2>3 DEF Right
    <3>2. state'[p] = "staticExec"
      BY <2>1, <3>1 DEF Released
    <3> QED
      BY <1>4, <1>7, <2>3, <3>2 DEF Right, States, StaticStates
  <2>4. CASE p \in Static /\ ~Executed(p, Busy)
    <3>1. state[p] = "staticInQ"
      BY <1>4, <1>9, <2>4 DEF Right
    <3>2. state'[p] = "staticNotInQ"
      BY <2>1, <3>1 DEF Released
    <3> QED
      BY <1>4, <1>7, <2>4, <3>2 DEF Right, States, StaticStates
  <2> QED
    BY <2>2, <2>3, <2>4
<1>11. Matching'
  <2>1. ASSUME NEW r \in Packages, r # p PROVE Right(state[r], r, Busy)'
    <3>1. Right(state[r], r, Busy) /\ state'[r] = state[r]
      BY <1>5, <2>1 DEF IInv, Matching, Types
    <3> QED
      BY <1>4, <1>7, <2>1, <3>1 DEF Right
  <2> QED
    BY <1>10, <2>1 DEF Matching
<1>12. Types'
  BY <1>2, <1>5, <1>10 DEF IInv, Types
<1>13. Places'
  <2>1. \A r \in Queues : Distinct(queue'[r])
    BY <1>2 DEF IInv, Places, n
  <2>2. \A r \in Queues : InQueue(r)' \subseteq InQueue(r)
    BY <1>3
  <2>3. Busy \subseteq Queues /\ Places /\ current' = current
    BY DEF Busy, IInv
  <2>4. \A r, t \in Queues : r # t => InQueue(r)' \cap InQueue(t)' = {}
    BY <2>2, <2>3 DEF Places
  <2>5. \A r, t \in Queues : r # t /\ r \in Busy => current[r] \notin InQueue(t)'
    BY <2>2, <2>3 DEF Places
  <2>6. \A r \in Busy : current[r] \in InQueue(r)' => current[r] \in Static
    BY <2>2, <2>3 DEF Places
  <2> QED
    BY <1>6, <2>1, <2>3, <2>4, <2>5, <2>6 DEF Places
<1>14. NeverSleepsOnWork'
  <2>1. queue[q] # <<>>
    BY DEF IInv, Types
  <2> QED
    BY <1>2, <2>1 DEF IInv, NeverSleepsOnWork
<1> QED
  BY <1>11, <1>12, <1>13, <1>14 DEF IInv
-----------------------------------------------------------------------------
(* The loop in Work().  AllRight: s are the right states of all packages   *)
(* if q executes none.                                                     *)
AllRight(q, s) ==
  /\ s \in [Packages -> States]
  /\ \A p \in Packages : Right(s[p], p, Busy \ {q})

LEMMA IdleIsAllRight ==
  ASSUME IInv, NEW q \in Queues, ~HasPackage(q)
  PROVE  AllRight(q, state)
<1>1. Busy \ {q} = Busy
  BY DEF Busy
<1> QED
  BY <1>1 DEF IInv, Types, Matching, AllRight

(* Finish() meets the states that it expects. *)
LEMMA FinishedIsAllRight ==
  ASSUME IInv, NEW q \in Queues, HasPackage(q)
  PROVE  AllRight(q, StateAfterFinish(q))
<1> DEFINE s == StateAfterFinish(q)
<1>1. q \in Busy /\ Busy \subseteq Queues
  BY DEF Busy
<1>2. current[q] \in Packages
  BY <1>1 DEF IInv, Places, Types
<1>3. PICK p \in Packages : p = current[q]
  BY <1>2
<1>4. /\ s \in [Packages -> {s[r] : r \in Packages}]
      /\ s[p] = Finished(state[p])
      /\ \A r \in Packages : r # p => s[r] = state[r]
  BY <1>3 DEF IInv, Types, StateAfterFinish
<1> HIDE DEF s
<1>5. Executed(p, Busy) /\ ~Executed(p, Busy \ {q})
  BY <1>1, <1>3 DEF IInv, Places, Executed
<1>6. \A r : r # p => (Executed(r, Busy \ {q}) <=> Executed(r, Busy))
  BY <1>1, <1>3 DEF Executed
<1>7. p \notin Static => ~Enqueued(p)
  BY <1>1, <1>3 DEF IInv, Places, Enqueued
<1>8. Right(state[p], p, Busy)
  BY DEF IInv, Matching
<1>9. Right(s[p], p, Busy \ {q}) /\ s[p] \in States
  <2>1. CASE p \notin Static
    <3>1. state[p] = "dynamicInQ"
      BY <1>5, <1>8, <2>1 DEF Right
    <3>2. s[p] = "dynamicNotInQ"
      BY <1>4, <3>1 DEF Finished
    <3> QED
      BY <1>5, <1>7, <2>1, <3>2 DEF Right, States, DynamicStates
  <2>2. CASE p \in Static /\ Enqueued(p)
    <3>1. state[p] = "staticExecInQ"
      BY <1>5, <1>8, <2>2 DEF Right
    <3>2. s[p] = "staticInQ"
      BY <1>4, <3>1 DEF Finished
    <3> QED
      BY <1>5, <2>2, <3>2 DEF Right, States, StaticStates
  <2>3. CASE p \in Static /\ ~Enqueued(p)
    <3>1. state[p] = "staticExec"
      BY <1>5, <1>8, <2>3 DEF Right
    <3>2. s[p] = "staticNotInQ"
      BY <1>4, <3>1 DEF Finished
    <3> QED
      BY <1>5, <2>3, <3>2 DEF Right, States, StaticStates
  <2> QED
    BY <2>1, <2>2, <2>3
<1>10. ASSUME NEW r \in Packages, r # p PROVE Right(s[r], r, Busy \ {q}) /\ s[r] \in States
  <2>1. Right(state[r], r, Busy) /\ state[r] \in States /\ s[r] = state[r]
    BY <1>4, <1>10 DEF IInv, Matching, Types
  <2> QED
    BY <1>6, <1>10, <2>1 DEF Right
<1>11. s \in [Packages -> States]
  BY <1>4, <1>9, <1>10
<1> QED
  BY <1>9, <1>10, <1>11 DEF AllRight, s

(* The thread of q has finished its package, if any, and takes no other. *)
LEMMA LetGoStep ==
  ASSUME IInv, NEW q \in Queues, NEW s, AllRight(q, s),
         NEW w \in {"out", "waiting"}, w = "waiting" => queue[q] = <<>> /\ ~terminate'[q],
         queue' = queue, state' = s, current' = [current EXCEPT ![q] = None],
         worker' = [worker EXCEPT ![q] = w], terminate' \in [Queues -> BOOLEAN],
         \A r \in Queues : r # q => terminate'[r] = terminate[r]
  PROVE  IInv'
<1>1. Types'
  BY DEF IInv, Types, AllRight, WorkerStates
<1>2. /\ worker'[q] = w /\ \A r \in Queues : r # q => worker'[r] = worker[r]
      /\ current'[q] = None /\ \A r \in Queues : r # q => current'[r] = current[r]
      /\ \A r \in Queues : InQueue(r)' = InQueue(r)
      /\ Busy \subseteq Queues
  BY DEF IInv, Types, InQueue, Busy
<1>3. Busy' = Busy \ {q}
  BY <1>2 DEF Busy, HasPackage
<1>4. Places'
  <2>1. \A r \in Queues : Distinct(queue[r])'
    BY DEF IInv, Places
  <2>2. \A r, t \in Queues : r # t => InQueue(r)' \cap InQueue(t)' = {}
    BY <1>2 DEF IInv, Places
  <2>3. \A r, t \in Queues : r # t /\ r \in Busy' => current'[r] \notin InQueue(t)'
    BY <1>2, <1>3 DEF IInv, Places
  <2>4. \A r, t \in Queues : r # t /\ r \in Busy' /\ t \in Busy' => current'[r] # current'[t]
    BY <1>2, <1>3 DEF IInv, Places
  <2>5. \A r \in Busy' : current'[r] \in InQueue(r)' => current'[r] \in Static
    BY <1>2, <1>3 DEF IInv, Places
  <2>6. \A r \in Queues : r \in Busy' <=> current'[r] # None
    BY <1>2, <1>3 DEF IInv, Places
  <2> QED
    BY <2>1, <2>2, <2>3, <2>4, <2>5, <2>6 DEF Places
<1>5. Matching'
  <2>1. \A p : Enqueued(p)' <=> Enqueued(p)
    BY <1>2 DEF Enqueued
  <2>2. \A p : Executed(p, Busy)' <=> Executed(p, Busy \ {q})
    BY <1>2, <1>3 DEF Executed
  <2> QED
    BY <2>1, <2>2 DEF AllRight, Matching, Right
<1>6. NeverSleepsOnWork'
  BY <1>2 DEF IInv, NeverSleepsOnWork
<1> QED
  BY <1>1, <1>4, <1>5, <1>6 DEF IInv

(* The thread of q takes the package at the head. *)
LEMMA FetchStep ==
  ASSUME IInv, NEW q \in Queues, NEW s, NEW left, AllRight(q, s), Fetch(q, s, left)
  PROVE  IInv'
<1>1. queue[q] \in Seq(Packages) /\ queue[q] # <<>> /\ Distinct(queue[q])
  BY DEF IInv, Types, Places, Fetch
<1>2. PICK p \in Packages : p = Head(queue[q])
  BY <1>1, TailElements
<1>3. /\ Tail(queue[q]) \in Seq(Packages) /\ Distinct(Tail(queue[q]))
      /\ Elements(Tail(queue[q])) = Elements(queue[q]) \ {p} /\ p \in Elements(queue[q])
  BY <1>1, <1>2, TailElements
<1>4. /\ queue' = [queue EXCEPT ![q] = Tail(queue[q])]
      /\ current' = [current EXCEPT ![q] = p]
      /\ worker' = [worker EXCEPT ![q] = "fetched"]
      /\ state' = [s EXCEPT ![p] = IF @ = "staticInQ" THEN "staticExec" ELSE @]
      /\ terminate' = terminate
  BY <1>2 DEF Fetch
<1>5. /\ worker'[q] = "fetched" /\ \A r \in Queues : r # q => worker'[r] = worker[r]
      /\ current'[q] = p /\ \A r \in Queues : r # q => current'[r] = current[r]
      /\ queue'[q] = Tail(queue[q]) /\ \A r \in Queues : r # q => queue'[r] = queue[r]
      /\ Busy \subseteq Queues
  BY <1>4 DEF IInv, Types, Busy
<1>6. /\ InQueue(q)' = InQueue(q) \ {p} /\ p \in InQueue(q)
      /\ \A r \in Queues : r # q => InQueue(r)' = InQueue(r)
  <2>1. /\ InQueue(q) = Elements(queue[q])
        /\ InQueue(q)' = Elements(queue'[q])
    BY DEF InQueue, Elements
  <2>2. InQueue(q)' = InQueue(q) \ {p} /\ p \in InQueue(q)
    BY <1>3, <1>5, <2>1
  <2>3. \A r \in Queues : r # q => InQueue(r)' = InQueue(r)
    BY <1>5 DEF InQueue
  <2> QED
    BY <2>2, <2>3
<1>7. Busy' = (Busy \ {q}) \cup {q}
  BY <1>5 DEF Busy, HasPackage
<1>8. Types'
  <2>1. queue' \in [Queues -> Seq(Packages)]
    BY <1>3, <1>4 DEF IInv, Types
  <2>2. state' \in [Packages -> States]
    BY <1>4 DEF AllRight, States, StaticStates
  <2>3. current' \in [Queues -> Packages \cup {None}] /\ worker' \in [Queues -> WorkerStates]
    BY <1>4 DEF IInv, Types, WorkerStates
  <2> QED
    BY <1>4, <2>1, <2>2, <2>3 DEF IInv, Types
<1>9. \A r \in Queues : r # q => p \notin InQueue(r) /\ (r \in Busy => current[r] # p)
  BY <1>6 DEF IInv, Places
<1>10. Places'
  <2>1. \A r \in Queues : Distinct(queue'[r])
    BY <1>3, <1>5 DEF IInv, Places
  <2>2. \A r, t \in Queues : r # t => InQueue(r)' \cap InQueue(t)' = {}
    <3>1. \A r \in Queues : InQueue(r)' \subseteq InQueue(r)
      BY <1>6
    <3> QED
      BY <3>1 DEF IInv, Places
  <2>3. \A r, t \in Queues : r # t /\ r \in Busy' => current'[r] \notin InQueue(t)'
    <3> SUFFICES ASSUME NEW r \in Queues, NEW t \in Queues, r # t, r \in Busy'
                 PROVE  current'[r] \notin InQueue(t)'
      OBVIOUS
    <3>1. CASE r = q
      BY <1>5, <1>6, <1>9, <3>1
    <3>2. CASE r # q
      <4>1. r \in Busy /\ current'[r] = current[r]
        BY <1>5, <1>7, <3>2
      <4>2. current[r] \notin InQueue(t)
        BY <4>1 DEF IInv, Places
      <4> QED
        BY <1>6, <4>1, <4>2
    <3> QED
      BY <3>1, <3>2
  <2>4. \A r, t \in Queues : r # t /\ r \in Busy' /\ t \in Busy' => current'[r] # current'[t]
    BY <1>5, <1>7, <1>9 DEF IInv, Places
  <2>5. \A r \in Busy' : current'[r] \in InQueue(r)' => current'[r] \in Static
    BY <1>5, <1>6, <1>7 DEF IInv, Places
  <2>6. \A r \in Queues : r \in Busy' <=> current'[r] # None
    BY <1>5, <1>7, PackagesAreNotNone DEF IInv, Places
  <2> QED
    BY <2>1, <2>2, <2>3, <2>4, <2>5, <2>6 DEF Places
<1>11. Matching'
  <2>1. Enqueued(p) /\ ~Enqueued(p)' /\ \A r \in Packages : r # p => (Enqueued(r)' <=> Enqueued(r))
    <3>1. \A r \in Queues : p \notin InQueue(r)'
      BY <1>6, <1>9
    <3>2. \A r \in Packages : r # p => \A t \in Queues : r \in InQueue(t)' <=> r \in InQueue(t)
      BY <1>6
    <3>3. Enqueued(p)
      BY <1>6 DEF Enqueued
    <3> QED
      BY <3>1, <3>2, <3>3 DEF Enqueued
  <2>2. ~Executed(p, Busy \ {q}) /\ Executed(p, Busy)'
    BY <1>5, <1>7, <1>9 DEF Executed
  <2>3. \A r : r # p => (Executed(r, Busy)' <=> Executed(r, Busy \ {q}))
    BY <1>5, <1>7 DEF Executed
  <2>4. Right(state[p], p, Busy)'
    <3>1. Right(s[p], p, Busy \ {q})
      BY DEF AllRight
    <3>2. state'[p] = IF s[p] = "staticInQ" THEN "staticExec" ELSE s[p]
      BY <1>4 DEF AllRight
    <3>3. CASE p \in Static
      <4>1. state'[p] = "staticExec"
        BY <2>1, <2>2, <3>1, <3>2, <3>3 DEF Right
      <4> QED
        BY <2>1, <2>2, <3>3, <4>1 DEF Right
    <3>4. CASE p \notin Static
      <4>1. s[p] = "dynamicInQ"
        BY <2>1, <3>1, <3>4 DEF Right
      <4>2. state'[p] = "dynamicInQ"
        BY <3>2, <4>1
      <4> QED
        BY <2>1, <2>2, <3>4, <4>2 DEF Right
    <3> QED
      BY <3>3, <3>4
  <2>5. ASSUME NEW r \in Packages, r # p PROVE Right(state[r], r, Busy)'
    <3>1. Right(s[r], r, Busy \ {q}) /\ state'[r] = s[r]
      BY <1>4, <2>5 DEF AllRight
    <3> QED
      BY <2>1, <2>3, <2>5, <3>1 DEF Right
  <2> QED
    BY <2>4, <2>5 DEF Matching
<1>12. NeverSleepsOnWork'
  BY <1>4, <1>5 DEF IInv, NeverSleepsOnWork
<1> QED
  BY <1>8, <1>10, <1>11, <1>12 DEF IInv

LEMMA LoopTopStep ==
  ASSUME IInv, NEW q \in Queues, NEW s, NEW left, AllRight(q, s), LoopTop(q, s, left)
  PROVE  IInv'
<1>1. CASE StopWorking(q, s, left)
  <2>1. /\ queue' = queue /\ state' = s /\ current' = [current EXCEPT ![q] = None]
        /\ worker' = [worker EXCEPT ![q] = "out"]
        /\ terminate' = [terminate EXCEPT ![q] = FALSE]
    BY <1>1 DEF StopWorking
  <2>2. terminate' \in [Queues -> BOOLEAN] /\ \A r \in Queues : r # q => terminate'[r] = terminate[r]
    BY <2>1 DEF IInv, Types
  <2> QED
    BY <2>1, <2>2, LetGoStep
<1>2. CASE WaitForWork(q, s, left)
  <2>1. /\ queue' = queue /\ state' = s /\ current' = [current EXCEPT ![q] = None]
        /\ worker' = [worker EXCEPT ![q] = "waiting"]
        /\ terminate' = terminate /\ ~terminate[q] /\ queue[q] = <<>>
    BY <1>2 DEF WaitForWork
  <2>2. terminate' \in [Queues -> BOOLEAN] /\ \A r \in Queues : r # q => terminate'[r] = terminate[r]
    BY <2>1 DEF IInv, Types
  <2>3. ~terminate'[q]
    BY <2>1
  <2> QED
    BY <2>1, <2>2, <2>3, LetGoStep
<1>3. CASE Fetch(q, s, left)
  BY <1>3, FetchStep
<1> QED
  BY <1>1, <1>2, <1>3 DEF LoopTop
-----------------------------------------------------------------------------
LEMMA SameStep ==
  ASSUME IInv, UNCHANGED <<queue, state, current, terminate, worker>>
  PROVE  IInv'
<1>1. WorkersMove
  BY DEF IInv, Types, WorkersMove, HasPackage
<1>2. terminate' \in [Queues -> BOOLEAN]
  BY DEF IInv, Types
<1> QED
  BY <1>1, <1>2, FrameStep

(* One worker moves; if it slept it now stands up. *)
LEMMA OneWorkerStep ==
  ASSUME IInv, UNCHANGED <<queue, state, current, terminate>>, NEW q \in Queues,
         NEW w \in WorkerStates, worker' = [worker EXCEPT ![q] = w],
         w = "waiting" => worker[q] = "waiting",
         w \in {"fetched", "executing", "inPost", "executed", "threw"} <=> HasPackage(q)
  PROVE  IInv'
<1>1. /\ worker' \in [Queues -> WorkerStates] /\ worker'[q] = w
      /\ \A r \in Queues : r # q => worker'[r] = worker[r]
  BY DEF IInv, Types
<1>2. WorkersMove
  BY <1>1 DEF WorkersMove, HasPackage
<1>3. terminate' \in [Queues -> BOOLEAN]
  BY DEF IInv, Types
<1> QED
  BY <1>2, <1>3, FrameStep

LEMMA WorkerMovesStep ==
  ASSUME IInv, NEW q \in Queues, NEW from, NEW to \in WorkerStates \ {"waiting"},
         WorkerMoves(q, from, to),
         to \in {"fetched", "executing", "inPost", "executed", "threw"} <=>
         from \in {"fetched", "executing", "inPost", "executed", "threw"}
  PROVE  IInv'
<1>1. /\ UNCHANGED <<queue, state, current, terminate>>
      /\ worker[q] = from /\ worker' = [worker EXCEPT ![q] = to]
  BY DEF WorkerMoves
<1>2. to \in {"fetched", "executing", "inPost", "executed", "threw"} <=> HasPackage(q)
  BY <1>1 DEF HasPackage
<1> QED
  BY <1>1, <1>2, OneWorkerStep

(* Add, InsertAtHeadOfList and the package of a flush *)
LEMMA AddStep ==
  ASSUME IInv, NEW q \in Queues, NEW p \in Packages, UNCHANGED <<current, terminate>>,
         \/ Enqueue(q, p, Append(queue[q], p))
         \/ Enqueue(q, p, <<p>> \o queue[q])
  PROVE  IInv'
<1>1. queue[q] \in Seq(Packages)
  BY DEF IInv, Types
<1>2. CASE Enqueue(q, p, Append(queue[q], p))
  <2> DEFINE n == Append(queue[q], p)
  <2>1. /\ n \in Seq(Packages) /\ Elements(n) = Elements(queue[q]) \cup {p}
        /\ p \notin Elements(queue[q]) /\ Distinct(queue[q]) => Distinct(n)
    BY <1>1, AppendElements
  <2>2. Enqueue(q, p, n)
    BY <1>2
  <2> HIDE DEF n
  <2> QED
    BY <2>1, <2>2, EnqueueStep
<1>3. CASE Enqueue(q, p, <<p>> \o queue[q])
  <2> DEFINE n == <<p>> \o queue[q]
  <2>1. /\ n \in Seq(Packages) /\ Elements(n) = Elements(queue[q]) \cup {p}
        /\ p \notin Elements(queue[q]) /\ Distinct(queue[q]) => Distinct(n)
    BY <1>1, PrependElements
  <2>2. Enqueue(q, p, n)
    BY <1>3
  <2> HIDE DEF n
  <2> QED
    BY <2>1, <2>2, EnqueueStep
<1> QED
  BY <1>2, <1>3

LEMMA RefusedStep ==
  ASSUME IInv, NEW q \in Queues, SignalIfEmpty(q),
         UNCHANGED <<queue, state, current, terminate>>
  PROVE  IInv'
<1> DEFINE w == IF queue[q] = <<>> /\ worker[q] = "waiting" THEN "woken" ELSE worker[q]
<1>1. /\ w \in WorkerStates /\ worker' = [worker EXCEPT ![q] = w]
      /\ w = "waiting" => worker[q] = "waiting"
  BY DEF SignalIfEmpty, IInv, Types, WorkerStates
<1>2. w \in {"fetched", "executing", "inPost", "executed", "threw"} <=> HasPackage(q)
  BY DEF HasPackage
<1> HIDE DEF w
<1> QED
  BY <1>1, <1>2, OneWorkerStep

LEMMA RequestTerminationStep ==
  ASSUME IInv, NEW q \in Queues, RequestTermination(q)
  PROVE  IInv'
<1>1. /\ UNCHANGED <<queue, state, current>>
      /\ terminate' = [terminate EXCEPT ![q] = TRUE]
      /\ worker' = [worker EXCEPT ![q] = IF @ = "waiting" THEN "woken" ELSE @]
  BY DEF RequestTermination
<1>2. /\ worker' \in [Queues -> WorkerStates] /\ worker'[q] # "waiting"
      /\ HasPackage(q)' <=> HasPackage(q)
      /\ \A r \in Queues : r # q => worker'[r] = worker[r] /\ terminate'[r] = terminate[r]
      /\ terminate' \in [Queues -> BOOLEAN]
  BY <1>1 DEF IInv, Types, WorkerStates, HasPackage
<1>3. WorkersMove
  BY <1>2 DEF WorkersMove, HasPackage
<1> QED
  BY <1>1, <1>2, <1>3, FrameStep

LEMMA RemoveEndStep ==
  ASSUME IInv, NEW q \in Queues, RemoveEnd(q)
  PROVE  IInv'
<1> DEFINE w == IF worker[q] = "destructor" THEN "destroyed" ELSE worker[q]
<1>1. /\ w \in WorkerStates /\ worker' = [worker EXCEPT ![q] = w]
      /\ w = "waiting" => worker[q] = "waiting"
      /\ UNCHANGED <<queue, state, current, terminate>>
  BY DEF RemoveEnd, IInv, Types, WorkerStates
<1>2. w \in {"fetched", "executing", "inPost", "executed", "threw"} <=> HasPackage(q)
  BY DEF HasPackage
<1> HIDE DEF w
<1> QED
  BY <1>1, <1>2, OneWorkerStep

LEMMA DestroyStep ==
  ASSUME IInv, NEW q \in Queues, Destroy(q)
  PROVE  IInv'
<1>1. /\ worker' = [worker EXCEPT ![q] = "destructor"] /\ worker[q] = "out"
      /\ UNCHANGED <<queue, state, current, terminate>>
  BY DEF Destroy
<1>2. "destructor" \in WorkerStates /\ ~HasPackage(q)
  BY <1>1 DEF WorkerStates, HasPackage
<1> QED
  BY <1>1, <1>2, OneWorkerStep

LEMMA LeaveWithExceptionStep ==
  ASSUME IInv, NEW q \in Queues, LeaveWithException(q)
  PROVE  IInv'
<1>1. /\ queue' = queue /\ state' = StateAfterFinish(q)
      /\ current' = [current EXCEPT ![q] = None]
      /\ worker' = [worker EXCEPT ![q] = "out"] /\ terminate' = terminate
      /\ HasPackage(q)
  BY DEF LeaveWithException, HasPackage
<1>2. AllRight(q, StateAfterFinish(q))
  BY <1>1, FinishedIsAllRight
<1>3. terminate' \in [Queues -> BOOLEAN] /\ \A r \in Queues : r # q => terminate'[r] = terminate[r]
  BY <1>1 DEF IInv, Types
<1> QED
  BY <1>1, <1>2, <1>3, LetGoStep

LEMMA WorkerStepKeepsIInv ==
  ASSUME IInv, NEW q \in Queues, WorkerStep(q) \/ FunctorThrows(q) \/ SpuriousWorkerWakeup(q)
  PROVE  IInv'
<1>1. CASE EnterWork(q) \/ WakeUp(q)
  <2>1. LoopTop(q, state, flushed) /\ ~HasPackage(q)
    BY <1>1 DEF EnterWork, WakeUp, HasPackage
  <2> QED
    BY <2>1, IdleIsAllRight, LoopTopStep
<1>2. CASE NextPackage(q)
  <2>1. LoopTop(q, StateAfterFinish(q), LeftAfterFinish(q)) /\ HasPackage(q)
    BY <1>2 DEF NextPackage, HasPackage
  <2> QED
    BY <2>1, FinishedIsAllRight, LoopTopStep
<1>3. CASE LeaveWithException(q)
  BY <1>3, LeaveWithExceptionStep
<1>4. CASE StartFunctor(q)
  BY <1>4, WorkerMovesStep DEF StartFunctor, WorkerStates
<1>5. CASE Post(q)
  BY <1>5, WorkerMovesStep DEF Post, WorkerStates
<1>6. CASE FunctorReturns(q)
  BY <1>6, WorkerMovesStep DEF FunctorReturns, WorkerStates
<1>7. CASE FunctorThrows(q)
  BY <1>7, WorkerMovesStep DEF FunctorThrows, WorkerStates
<1>8. CASE SpuriousWorkerWakeup(q)
  BY <1>8, WorkerMovesStep DEF SpuriousWorkerWakeup, WorkerStates
<1> QED
  BY <1>1, <1>2, <1>3, <1>4, <1>5, <1>6, <1>7, <1>8 DEF WorkerStep

LEMMA QueueStepKeepsIInv ==
  ASSUME IInv, NEW q \in Queues, QueueStep(q)
  PROVE  IInv'
<1>1. ASSUME NEW p \in Static \cup Dynamic, Add(q, p) \/ InsertAtHeadOfList(q, p)
      PROVE  IInv'
  <2>1. /\ Enqueue(q, p, Append(queue[q], p)) \/ Enqueue(q, p, <<p>> \o queue[q])
        /\ UNCHANGED <<current, terminate>> /\ p \in Packages
    BY <1>1 DEF Add, InsertAtHeadOfList, Packages
  <2> QED
    BY <2>1, AddStep
<1>2. ASSUME NEW p, AddRefused(q, p) PROVE IInv'
  BY <1>2, RefusedStep DEF AddRefused
<1>3. ASSUME NEW p, Remove(q, p) PROVE IInv'
  BY <1>3, UnlinkStep DEF Remove
<1>4. ASSUME NEW selection, RemoveSelected(q, selection) PROVE IInv'
  BY <1>4, SameStep DEF RemoveSelected
<1>5. CASE RequestTermination(q)
  BY <1>5, RequestTerminationStep
<1>6. CASE RemoveNext(q)
  BY <1>6, UnlinkStep DEF RemoveNext
<1>7. CASE RemoveEnd(q)
  BY <1>7, RemoveEndStep
<1>8. CASE Destroy(q)
  BY <1>8, DestroyStep
<1>9. CASE WorkerStep(q) \/ FunctorThrows(q) \/ SpuriousWorkerWakeup(q)
  BY <1>9, WorkerStepKeepsIInv
<1> QED
  BY <1>1, <1>2, <1>3, <1>4, <1>5, <1>6, <1>7, <1>8, <1>9 DEF QueueStep, RemovalStep

LEMMA ClientKeepsIInv ==
  ASSUME IInv, NEW c \in Clients,
         \/ \E q \in Queues : Flush(c, q)
         \/ ClientStep(c) \/ BeginShutdown(c) \/ SpuriousWakeup(c)
  PROVE  IInv'
<1>1. ASSUME NEW q \in Queues, Flush(c, q) PROVE IInv'
  <2>1. /\ Enqueue(q, c, Append(queue[q], c)) /\ UNCHANGED <<current, terminate>>
        /\ c \in Packages
    BY <1>1 DEF Flush, Packages
  <2> QED
    BY <2>1, AddStep
<1>2. CASE ClientStep(c) \/ BeginShutdown(c) \/ SpuriousWakeup(c)
  <2>1. UNCHANGED <<queue, state, current, terminate, worker>>
    BY <1>2 DEF ClientStep, BeginShutdown, SpuriousWakeup, FlushWakes, FlushReturns, RemoveOwn,
                WaitForOwnerChange, OwnerNotExecuted, EndShutdown
  <2> QED
    BY <2>1, SameStep
<1> QED
  BY <1>1, <1>2
LEMMA StepKeepsIInv == IInv /\ [Next]_vars => IInv'
<1> SUFFICES ASSUME IInv, [Next]_vars PROVE IInv'
  OBVIOUS
<1>1. CASE UNCHANGED vars
  BY <1>1, SameStep DEF vars
<1>2. ASSUME NEW q \in Queues, QueueStep(q) PROVE IInv'
  BY <1>2, QueueStepKeepsIInv
<1>3. ASSUME NEW c \in Clients,
             \/ \E q \in Queues : Flush(c, q)
             \/ ClientStep(c) \/ BeginShutdown(c) \/ SpuriousWakeup(c)
      PROVE  IInv'
  BY <1>3, ClientKeepsIInv
<1> QED
  BY <1>1, <1>2, <1>3 DEF Next

(* The inductive invariant of the queues *)
THEOREM Invariance == Spec => []IInv
  BY InitEstablishesIInv, StepKeepsIInv, PTL DEF Spec

(* A package is in one place only, however many queues and threads share   *)
(* it: WorkPackage::pNext and pPrev belong to one list.                    *)
THEOREM InOnePlace == Spec => []OnePlace
<1>1. IInv => OnePlace
  <2> SUFFICES ASSUME IInv PROVE OnePlace
    OBVIOUS
  <2>1. \A q \in Queues : HasPackage(q) <=> q \in Busy
    BY DEF Busy
  <2>2. \A q \in Queues : \A i, j \in 1 .. Len(queue[q]) : queue[q][i] = queue[q][j] => i = j
    BY DEF IInv, Places, Distinct
  <2> QED
    BY <2>1, <2>2 DEF IInv, Places, OnePlace
<1> QED
  BY <1>1, Invariance, PTL

(* The state of a package says where it is: Release() and Finish() of      *)
(* WorkPackage.cpp never panic, and a dynamic package is released once.    *)
THEOREM StatesMatchPlaces == Spec => []StateMatchesPlace
<1>1. IInv => StateMatchesPlace
  <2> SUFFICES ASSUME IInv, NEW p \in Packages
               PROVE  LET enqueued == \E q \in Queues : p \in InQueue(q)
                          executed == \E q \in Queues : HasPackage(q) /\ current[q] = p
                      IN  state[p] =
                            IF p \in Static
                            THEN IF enqueued THEN IF executed THEN "staticExecInQ" ELSE "staticInQ"
                                             ELSE IF executed THEN "staticExec" ELSE "staticNotInQ"
                            ELSE IF enqueued \/ executed THEN "dynamicInQ" ELSE "dynamicNotInQ"
    BY DEF StateMatchesPlace
  <2>1. (\E q \in Queues : HasPackage(q) /\ current[q] = p) <=> Executed(p, Busy)
    BY DEF Executed, Busy
  <2>2. Right(state[p], p, Busy)
    BY DEF IInv, Matching
  <2> QED
    BY <2>1, <2>2 DEF Right, Enqueued
<1> QED
  BY <1>1, Invariance, PTL

(* No lost wake-up: although Add() signals an empty queue only, the thread *)
(* in Work() never sleeps while there is a package or a request to         *)
(* terminate.                                                              *)
THEOREM NoLostWakeup == Spec => []NeverSleepsOnWork
<1>1. IInv => NeverSleepsOnWork
  BY DEF IInv
<1> QED
  BY <1>1, Invariance, PTL

-----------------------------------------------------------------------------
(* The queues implement WorkExecutor. *)
Running == [q \in Queues |-> IF worker[q] \in {"fetched", "executing", "inPost"}
                             THEN current[q] ELSE None]

LEMMA InitRefines == Init => Executor!Init
  BY DEF Init, Executor!Init

LEMMA SameRunning ==
  ASSUME IInv, current' = current,
         \A r \in Queues : worker'[r] \in {"fetched", "executing", "inPost"} <=>
                           worker[r] \in {"fetched", "executing", "inPost"}
  PROVE  Running' = Running
  BY DEF Running

LEMMA StutterRefines ==
  ASSUME IInv, UNCHANGED <<queue, current>>,
         \A r \in Queues : worker'[r] \in {"fetched", "executing", "inPost"} <=>
                           worker[r] \in {"fetched", "executing", "inPost"}
  PROVE  UNCHANGED Executor!executorVars
  BY SameRunning DEF Running, Executor!executorVars

(* The state of a package is enough to know that the executor accepts it. *)
LEMMA AcceptedIsAcceptable ==
  ASSUME IInv, NEW q \in Queues, NEW p \in Packages, Accepts(q, p)
  PROVE  Executor!Acceptable(q, p)
<1>1. ~Enqueued(p) /\ \A r \in Busy : current[r] = p => r = q
  BY AcceptedIsFree
<1>2. \A r \in Queues : p \notin InQueue(r)
  BY <1>1 DEF Enqueued
<1>3. ASSUME NEW r \in Queues, r # q PROVE Running[r] # p
  <2>1. CASE worker[r] \in {"fetched", "executing", "inPost"}
    <3>1. r \in Busy
      BY <2>1 DEF Busy, HasPackage
    <3> QED
      BY <1>1, <1>3, <2>1, <3>1 DEF Running
  <2>2. CASE worker[r] \notin {"fetched", "executing", "inPost"}
    BY <2>2, PackagesAreNotNone DEF Running
  <2> QED
    BY <2>1, <2>2
<1> QED
  BY <1>2, <1>3 DEF Executor!Acceptable, Executor!PendingIn, InQueue, Running

LEMMA EnqueueRefines ==
  ASSUME IInv, NEW q \in Queues, NEW p \in Packages, UNCHANGED current
  PROVE  /\ Enqueue(q, p, Append(queue[q], p)) => Executor!Accept(q, p)
         /\ Enqueue(q, p, <<p>> \o queue[q]) => Executor!AcceptAtHead(q, p)
<1> SUFFICES ASSUME NEW n, Enqueue(q, p, n)
             PROVE  /\ Executor!Acceptable(q, p)
                    /\ queue' = [queue EXCEPT ![q] = n]
                    /\ Running' = Running
  BY DEF Executor!Accept, Executor!AcceptAtHead, Running
<1>1. Executor!Acceptable(q, p) /\ queue' = [queue EXCEPT ![q] = n]
  BY AcceptedIsAcceptable DEF Enqueue
<1>2. \A r \in Queues : worker'[r] \in {"fetched", "executing", "inPost"} <=>
                        worker[r] \in {"fetched", "executing", "inPost"}
  BY DEF Enqueue, SignalIfEmpty, IInv, Types
<1> QED
  BY <1>1, <1>2, SameRunning

LEMMA UnlinkRefines ==
  ASSUME IInv, NEW q \in Queues, NEW i \in 1 .. Len(queue[q]), Unlink(q, i),
         UNCHANGED <<current, worker>>
  PROVE  Executor!Withdraw(q, i)
<1>1. Running' = Running
  BY SameRunning
<1> QED
  BY <1>1 DEF Unlink, Executor!Withdraw, Running

LEMMA LoopTopRefines ==
  ASSUME IInv, NEW q \in Queues, NEW s, NEW left, LoopTop(q, s, left),
         worker[q] \notin {"fetched", "executing", "inPost"}
  PROVE  [Executor!Start(q)]_(Executor!executorVars)
<1>1. CASE StopWorking(q, s, left) \/ WaitForWork(q, s, left)
  <2>1. PICK w \in {"out", "waiting"} :
           /\ queue' = queue /\ current' = [current EXCEPT ![q] = None]
           /\ worker' = [worker EXCEPT ![q] = w]
    BY <1>1 DEF StopWorking, WaitForWork
  <2>2. \A r \in Queues : Running'[r] = Running[r]
    BY <2>1 DEF IInv, Types, Running
  <2>3. Running' = Running
    BY <2>2 DEF Running
  <2> QED
    BY <2>1, <2>3 DEF Running, Executor!executorVars
<1>2. CASE Fetch(q, s, left)
  <2>1. /\ queue[q] # <<>> /\ queue' = [queue EXCEPT ![q] = Tail(@)]
        /\ current' = [current EXCEPT ![q] = Head(queue[q])]
        /\ worker' = [worker EXCEPT ![q] = "fetched"]
    BY <1>2 DEF Fetch
  <2>2. Running[q] = None
    BY DEF Running
  <2>3. \A r \in Queues : Running'[r] = [Running EXCEPT ![q] = Head(queue[q])][r]
    BY <2>1 DEF IInv, Types, Running
  <2>4. Running' = [Running EXCEPT ![q] = Head(queue[q])]
    BY <2>3 DEF Running
  <2> QED
    BY <2>1, <2>2, <2>4 DEF Running, Executor!Start
<1> QED
  BY <1>1, <1>2 DEF LoopTop

(* The functor of the package returns or throws. *)
LEMMA EndRefines ==
  ASSUME IInv, NEW q \in Queues, NEW from \in {"executing", "inPost"},
         NEW to \in {"executed", "threw"}, WorkerMoves(q, from, to)
  PROVE  Executor!End(q)
<1>1. /\ queue' = queue /\ current' = current
      /\ worker[q] = from /\ worker' = [worker EXCEPT ![q] = to]
  BY DEF WorkerMoves
<1>2. current[q] # None
  BY <1>1 DEF IInv, Places, Busy, HasPackage
<1>3. Running[q] # None
  BY <1>1, <1>2 DEF Running
<1>4. \A r \in Queues : Running'[r] = [Running EXCEPT ![q] = None][r]
  BY <1>1 DEF IInv, Types, Running
<1>5. Running' = [Running EXCEPT ![q] = None]
  BY <1>4 DEF Running
<1> QED
  BY <1>1, <1>3, <1>5 DEF Running, Executor!End

LEMMA WorkerRefines ==
  ASSUME IInv, NEW q \in Queues, WorkerStep(q) \/ FunctorThrows(q) \/ SpuriousWorkerWakeup(q)
  PROVE  [Executor!Next]_(Executor!executorVars)
<1>1. CASE EnterWork(q) \/ WakeUp(q) \/ NextPackage(q)
  <2>1. [Executor!Start(q)]_(Executor!executorVars)
    BY <1>1, LoopTopRefines DEF EnterWork, WakeUp, NextPackage
  <2> QED
    BY <2>1 DEF Executor!Next
<1>2. CASE LeaveWithException(q)
  <2>1. /\ queue' = queue /\ current' = [current EXCEPT ![q] = None]
        /\ worker[q] = "threw" /\ worker' = [worker EXCEPT ![q] = "out"]
    BY <1>2 DEF LeaveWithException
  <2>2. \A r \in Queues : Running'[r] = Running[r]
    BY <2>1 DEF IInv, Types, Running
  <2>3. Running' = Running
    BY <2>2 DEF Running
  <2> QED
    BY <2>1, <2>3 DEF Running, Executor!executorVars
<1>3. CASE StartFunctor(q) \/ Post(q) \/ SpuriousWorkerWakeup(q)
  <2>1. /\ UNCHANGED <<queue, current>>
        /\ \A r \in Queues : worker'[r] \in {"fetched", "executing", "inPost"} <=>
                             worker[r] \in {"fetched", "executing", "inPost"}
    BY <1>3 DEF StartFunctor, Post, SpuriousWorkerWakeup, WorkerMoves, IInv, Types
  <2> QED
    BY <2>1, StutterRefines
<1>4. CASE FunctorReturns(q) \/ FunctorThrows(q)
  <2>1. \E from \in {"executing", "inPost"}, to \in {"executed", "threw"} :
          WorkerMoves(q, from, to)
    BY <1>4 DEF FunctorReturns, FunctorThrows
  <2>2. Executor!End(q)
    BY <2>1, EndRefines
  <2> QED
    BY <2>2 DEF Executor!Next
<1> QED
  BY <1>1, <1>2, <1>3, <1>4 DEF WorkerStep

LEMMA QueueRefines ==
  ASSUME IInv, NEW q \in Queues, QueueStep(q)
  PROVE  [Executor!Next]_(Executor!executorVars)
<1>1. ASSUME NEW p \in Static \cup Dynamic, Add(q, p) \/ InsertAtHeadOfList(q, p)
      PROVE  Executor!Next
  <2>1. Executor!Accept(q, p) \/ Executor!AcceptAtHead(q, p)
    BY <1>1, EnqueueRefines DEF Add, InsertAtHeadOfList, Packages
  <2> QED
    BY <2>1 DEF Executor!Next, Packages
<1>2. ASSUME NEW p, AddRefused(q, p) PROVE UNCHANGED Executor!executorVars
  BY <1>2, StutterRefines DEF AddRefused, SignalIfEmpty, IInv, Types
<1>3. ASSUME NEW i \in 1 .. Len(queue[q]), Unlink(q, i), UNCHANGED <<current, worker>>
      PROVE  Executor!Next
  BY <1>3, UnlinkRefines DEF Executor!Next
<1>4. ASSUME NEW p, Remove(q, p) PROVE Executor!Next
  BY <1>3, <1>4 DEF Remove
<1>5. CASE RemoveNext(q)
  BY <1>3, <1>5 DEF RemoveNext
<1>6. ASSUME NEW selection, RemoveSelected(q, selection) PROVE UNCHANGED Executor!executorVars
  BY <1>6, StutterRefines DEF RemoveSelected
<1>7. CASE RequestTermination(q) \/ RemoveEnd(q) \/ Destroy(q)
  <2>1. /\ UNCHANGED <<queue, current>>
        /\ \A r \in Queues : worker'[r] \in {"fetched", "executing", "inPost"} <=>
                             worker[r] \in {"fetched", "executing", "inPost"}
    BY <1>7 DEF RequestTermination, RemoveEnd, Destroy, IInv, Types
  <2> QED
    BY <2>1, StutterRefines
<1>8. CASE WorkerStep(q) \/ FunctorThrows(q) \/ SpuriousWorkerWakeup(q)
  BY <1>8, WorkerRefines
<1> QED
  BY <1>1, <1>2, <1>4, <1>5, <1>6, <1>7, <1>8 DEF QueueStep, RemovalStep

LEMMA ClientRefines ==
  ASSUME IInv, NEW c \in Clients,
         \/ \E q \in Queues : Flush(c, q)
         \/ ClientStep(c) \/ BeginShutdown(c) \/ SpuriousWakeup(c)
  PROVE  [Executor!Next]_(Executor!executorVars)
<1>1. ASSUME NEW q \in Queues, Flush(c, q) PROVE Executor!Next
  <2>1. Executor!Accept(q, c)
    BY <1>1, EnqueueRefines DEF Flush, Packages
  <2> QED
    BY <2>1 DEF Executor!Next, Packages
<1>2. CASE ClientStep(c) \/ BeginShutdown(c) \/ SpuriousWakeup(c)
  <2>1. UNCHANGED <<queue, current, worker>>
    BY <1>2 DEF ClientStep, BeginShutdown, SpuriousWakeup, FlushWakes, FlushReturns, RemoveOwn,
                WaitForOwnerChange, OwnerNotExecuted, EndShutdown
  <2> QED
    BY <2>1, StutterRefines
<1> QED
  BY <1>1, <1>2

(* The work queues execute packages serially, in order, at most once per   *)
(* acceptance and never in two queues at a time.                           *)
THEOREM Refinement == Spec => ImplementsExecutor
<1>1. Init => Executor!Init
  BY InitRefines
<1>2. IInv /\ [Next]_vars => [Executor!Next]_(Executor!executorVars)
  <2> SUFFICES ASSUME IInv, [Next]_vars PROVE [Executor!Next]_(Executor!executorVars)
    OBVIOUS
  <2>1. CASE UNCHANGED vars
    BY <2>1, StutterRefines DEF vars
  <2>2. CASE Next
    BY <2>2, QueueRefines, ClientRefines DEF Next
  <2> QED
    BY <2>1, <2>2
<1> QED
  BY <1>1, <1>2, Invariance, PTL DEF Spec, Executor!Spec, ImplementsExecutor

-----------------------------------------------------------------------------
(* The owners of packages: the shutdown protocol leaves nothing of its      *)
(* owner in a queue, and a flush waits for all that was in the queue and    *)
(* runs when it begins.  The package of a flush is in one queue only and    *)
(* behind all that was there before it.                                     *)


Flushing == {"flushWait", "flushSync"}

(* a is in front of b. *)
Before(s, a, b) == \E i, j \in 1 .. Len(s) : i < j /\ s[i] = a /\ s[j] = b

ClientTypes ==
  /\ currentOwner \in [Queues -> Clients \cup Queues \cup {None}]
  /\ removing \in [Queues -> SUBSET Packages]
  /\ pc \in [Clients -> ClientStates]
  /\ at \in [Clients -> Queues \cup {None}]
  /\ closing \subseteq Clients
  /\ dirty \in [Clients -> SUBSET Queues]
  /\ sem \in [Clients -> Nat]
  /\ flushed \in [Clients -> SUBSET (Packages \X {"queued", "running"})]
  /\ calls \in Nat

(* Only the destructor removes packages of flushes, when nobody flushes. *)
QueueOK(q) ==
  /\ HasPackage(q) => currentOwner[q] = Owner(q, current[q])
  /\ worker[q] = "inPost" => current[q] \in Clients
  /\ worker[q] = "destructor" => removing[q] = Packages
  /\ \A c \in Clients : at[c] = q => removing[q] \cap Clients = {}

(* Where the package of the flush of c is, c waits for it. *)
PackageOK(c) ==
  /\ \A q \in Queues : c \in InQueue(q) => pc[c] = "flushWait" /\ at[c] = q /\ sem[c] = 0
  /\ \A q \in Queues : worker[q] \in {"fetched", "executing"} /\ current[q] = c =>
       pc[c] = "flushWait" /\ at[c] = q /\ sem[c] = 0
  /\ \A q \in Queues : worker[q] = "inPost" /\ current[q] = c => pc[c] \in Flushing /\ at[c] = q

(* What the flush of c has to wait for is in front of its package or runs. *)
PromiseOK(c) ==
  /\ flushed[c] # {} => pc[c] = "flushWait" /\ sem[c] = 0
  /\ \A p \in Packages : <<p, "queued">> \in flushed[c] => Before(queue[at[c]], p, c)
  /\ \A p \in Packages : <<p, "running">> \in flushed[c] =>
       HasPackage(at[c]) /\ current[at[c]] = p /\ p # c
  /\ c \in closing /\ pc[c] \in Flushing /\ HasPackage(at[c]) /\ current[at[c]] \in OwnedBy(c) =>
       <<current[at[c]], "running">> \in flushed[c]

(* q is clean of the packages of c. *)
Clean(c, q) ==
  /\ OwnedBy(c) \cap InQueue(q) = {}
  /\ HasPackage(q) => current[q] \notin OwnedBy(c)

ShutdownOK(c) ==
  /\ \A q \in Queues \ dirty[c] : Clean(c, q)
  /\ \A q \in Queues \ dirty[c] : c \in closing \/ worker[q] = "destroyed"
  /\ pc[c] = "idle" => c \notin closing
  /\ pc[c] \notin {"idle"} \cup Flushing => c \in closing
  /\ at[c] = None <=> pc[c] \in {"idle", "closing", "destroyed"}
  /\ pc[c] = "removing" => removing[at[c]] = OwnedBy(c)
  /\ c \in closing /\ pc[c] \in Flushing \cup {"removed", "waitOwner", "checkOwner"} =>
       OwnedBy(c) \cap InQueue(at[c]) = {}

CInv ==
  /\ ClientTypes
  /\ \A q \in Queues : QueueOK(q)
  /\ \A c \in Clients : PackageOK(c)
  /\ \A c \in Clients : PromiseOK(c)
  /\ \A c \in Clients : ShutdownOK(c)
-----------------------------------------------------------------------------
(* Facts about sequences: removals and additions keep the order *)

LEMMA BeforeDiffers ==
  ASSUME NEW S, NEW s \in Seq(S), Distinct(s), NEW a, NEW b, Before(s, a, b)
  PROVE  a # b /\ a \in Elements(s) /\ b \in Elements(s) /\ s # <<>> /\ b # Head(s)
<1>1. PICK i \in 1 .. Len(s), j \in 1 .. Len(s) : i < j /\ s[i] = a /\ s[j] = b
  BY DEF Before
<1>2. Len(s) \in Nat /\ 1 \in 1 .. Len(s) /\ j # 1 /\ Head(s) = s[1]
  BY <1>1, LenProperties
<1>3. a # b /\ b # s[1]
  BY <1>1, <1>2 DEF Distinct
<1>4. s # <<>>
  BY <1>2
<1> QED
  BY <1>1, <1>2, <1>3, <1>4 DEF Elements

LEMMA BeforeAppend ==
  ASSUME NEW S, NEW s \in Seq(S), NEW p \in S
  PROVE  /\ \A a, b : Before(s, a, b) => Before(Append(s, p), a, b)
         /\ \A a \in Elements(s) : Before(Append(s, p), a, p)
<1> DEFINE t == Append(s, p)
<1>1. /\ Len(t) = Len(s) + 1 /\ Len(s) \in Nat
      /\ \A i \in 1 .. Len(s) : t[i] = s[i]
      /\ t[Len(s) + 1] = p
  BY AppendProperties, LenProperties
<1> HIDE DEF t
<1>2. \A i \in 1 .. Len(s) : i \in 1 .. Len(t) /\ i < Len(t) /\ Len(t) \in 1 .. Len(t)
  BY <1>1
<1>3. \A a, b : Before(s, a, b) => Before(t, a, b)
  BY <1>1, <1>2 DEF Before
<1>4. \A a \in Elements(s) : Before(t, a, p)
  BY <1>1, <1>2 DEF Before, Elements
<1> QED
  BY <1>3, <1>4 DEF t

LEMMA BeforePrepend ==
  ASSUME NEW S, NEW s \in Seq(S), NEW p \in S
  PROVE  \A a, b : Before(s, a, b) => Before(<<p>> \o s, a, b)
<1> DEFINE t == <<p>> \o s
<1>1. <<p>> \in Seq(S) /\ Len(<<p>>) = 1
  OBVIOUS
<1>2. /\ Len(t) = 1 + Len(s) /\ Len(s) \in Nat
      /\ \A i \in 1 .. 1 + Len(s) : t[i] = IF i <= 1 THEN <<p>>[i] ELSE s[i - 1]
  BY <1>1, ConcatProperties, LenProperties
<1>3. \A i \in 1 .. Len(s) : i + 1 \in 1 .. Len(t) /\ t[i + 1] = s[i]
  BY <1>2
<1> HIDE DEF t
<1>4. ASSUME NEW a, NEW b, Before(s, a, b) PROVE Before(t, a, b)
  <2>1. PICK i \in 1 .. Len(s), j \in 1 .. Len(s) : i < j /\ s[i] = a /\ s[j] = b
    BY <1>4 DEF Before
  <2>2. i + 1 \in 1 .. Len(t) /\ j + 1 \in 1 .. Len(t) /\ i + 1 < j + 1
    BY <1>3, <2>1
  <2>3. t[i + 1] = a /\ t[j + 1] = b
    BY <1>3, <2>1
  <2> QED
    BY <2>2, <2>3 DEF Before
<1> QED
  BY <1>4 DEF t

LEMMA BeforeTail ==
  ASSUME NEW S, NEW s \in Seq(S), s # <<>>, NEW a, NEW b, Before(s, a, b), a # Head(s)
  PROVE  Before(Tail(s), a, b)
<1> DEFINE t == Tail(s)
<1>1. /\ Len(t) = Len(s) - 1 /\ Len(s) \in Nat \ {0}
      /\ \A i \in 1 .. Len(t) : t[i] = s[i + 1]
  BY HeadTailProperties, EmptySeq
<1>2. Head(s) = s[1]
  OBVIOUS
<1> HIDE DEF t
<1>3. PICK i \in 1 .. Len(s), j \in 1 .. Len(s) : i < j /\ s[i] = a /\ s[j] = b
  BY DEF Before
<1>4. i - 1 \in 1 .. Len(t) /\ j - 1 \in 1 .. Len(t) /\ i - 1 < j - 1
  <2>1. i # 1
    BY <1>2, <1>3
  <2> QED
    BY <1>1, <1>3, <2>1
<1>5. t[i - 1] = a /\ t[j - 1] = b
  BY <1>1, <1>3, <1>4
<1> QED
  BY <1>4, <1>5 DEF Before, t

LEMMA BeforeCut ==
  ASSUME NEW S, NEW s \in Seq(S), NEW k \in 1 .. Len(s), NEW a, NEW b, Before(s, a, b),
         a # s[k], b # s[k], Distinct(s)
  PROVE  Before(Cut(s, k), a, b)
<1>1. PICK t : t = Cut(s, k)
  OBVIOUS
<1>2. Len(s) \in Nat
  BY LenProperties
<1>3. t \in Seq(S)
  BY <1>1, CutElements
<1>4. /\ DOMAIN t = 1 .. Len(s) - 1
      /\ \A j \in 1 .. Len(s) - 1 : t[j] = IF j < k THEN s[j] ELSE s[j + 1]
  BY <1>1 DEF Cut
<1>5. Len(t) = Len(s) - 1
  <2>1. DOMAIN t = 1 .. Len(t) /\ Len(t) \in Nat
    BY <1>3, LenProperties
  <2> QED
    BY <1>2, <1>4, <2>1
<1>6. PICK i \in 1 .. Len(s), j \in 1 .. Len(s) : i < j /\ s[i] = a /\ s[j] = b
  BY DEF Before
<1> DEFINE f(x) == IF x < k THEN x ELSE x - 1
<1>7. i # k /\ j # k
  BY <1>6
<1>8. f(i) \in 1 .. Len(t) /\ f(j) \in 1 .. Len(t) /\ f(i) < f(j)
  BY <1>2, <1>5, <1>6, <1>7
<1>9. t[f(i)] = a
  <2>1. CASE i < k
    BY <1>2, <1>4, <1>6, <2>1
  <2>2. CASE ~(i < k)
    <3>1. i - 1 \in 1 .. Len(s) - 1 /\ ~(i - 1 < k) /\ (i - 1) + 1 = i
      BY <1>2, <1>7, <2>2
    <3> QED
      BY <1>4, <1>6, <2>2, <3>1
  <2> QED
    BY <2>1, <2>2
<1>10. t[f(j)] = b
  <2>1. CASE j < k
    BY <1>2, <1>4, <1>6, <2>1
  <2>2. CASE ~(j < k)
    <3>1. j - 1 \in 1 .. Len(s) - 1 /\ ~(j - 1 < k) /\ (j - 1) + 1 = j
      BY <1>2, <1>7, <2>2
    <3> QED
      BY <1>4, <1>6, <2>2, <3>1
  <2> QED
    BY <2>1, <2>2
<1> HIDE DEF f
<1> QED
  BY <1>1, <1>8, <1>9, <1>10 DEF Before

-----------------------------------------------------------------------------
(* A step of somebody else, seen by client c: packages that c looks at may *)
(* leave the queues; c may learn that its removal is complete, that the    *)
(* owner has changed, or that a queue has been destroyed.                  *)
Keeps(c) ==
  /\ \/ pc'[c] = pc[c]
     \/ pc[c] = "waitOwner" /\ pc'[c] = "checkOwner"
     \/ /\ pc[c] = "removing" /\ pc'[c] = "removed"
        /\ \A q \in Queues : at[c] = q => OwnedBy(c) \cap InQueue(q)' = {}
  /\ at'[c] = at[c] /\ sem'[c] = sem[c] /\ dirty'[c] \subseteq dirty[c]
  /\ \A q \in Queues : q \in dirty[c] /\ q \notin dirty'[c] =>
       worker'[q] = "destroyed" /\ OwnedBy(c) \cap InQueue(q)' = {}
  /\ c \in closing' <=> c \in closing
  /\ flushed'[c] \subseteq flushed[c]
  /\ \A p \in Packages : <<p, "running">> \in flushed[c] => <<p, "running">> \in flushed'[c]
  /\ pc'[c] = "removing" => removing'[at[c]] = removing[at[c]]
  /\ current' = current
  /\ \A q \in Queues : HasPackage(q)' <=> HasPackage(q)
  /\ \A q \in Queues : worker[q] = "destroyed" => worker'[q] = "destroyed"
  /\ \A q \in Queues : worker'[q] \in {"fetched", "executing"} =>
                       worker[q] \in {"fetched", "executing"}
  /\ \A q \in Queues : worker'[q] = "inPost" /\ current[q] = c => worker[q] = "inPost"
  /\ \A q \in Queues : c \in InQueue(q)' => c \in InQueue(q)
  /\ \A q \in Queues : c \in closing \/ worker[q] = "destroyed" =>
                       OwnedBy(c) \cap InQueue(q)' \subseteq InQueue(q)
  /\ \A p \in Packages : <<p, "queued">> \in flushed'[c] =>
       (Before(queue[at[c]], p, c) => Before(queue'[at[c]], p, c))

LEMMA KeepsClient ==
  ASSUME IInv, CInv, NEW c \in Clients, Keeps(c)
  PROVE  PackageOK(c)' /\ PromiseOK(c)' /\ ShutdownOK(c)'
<1>1. /\ at'[c] = at[c] /\ sem'[c] = sem[c]
      /\ c \in closing' <=> c \in closing
      /\ current' = current
      /\ pc'[c] = "flushWait" <=> pc[c] = "flushWait"
      /\ pc'[c] \in Flushing <=> pc[c] \in Flushing
      /\ pc'[c] = "idle" <=> pc[c] = "idle"
      /\ pc'[c] \in {"idle", "closing", "destroyed"} <=> pc[c] \in {"idle", "closing", "destroyed"}
      /\ pc'[c] = "removing" => pc[c] = "removing"
  BY DEF Keeps, Flushing
<1>2. PackageOK(c) /\ PromiseOK(c) /\ ShutdownOK(c)
  BY DEF CInv
<1>3. at[c] \in Queues \cup {None}
  BY DEF CInv, ClientTypes
<1>4. pc[c] \in Flushing => at[c] \in Queues
  BY <1>2, <1>3 DEF ShutdownOK, Flushing
<1>5. PackageOK(c)'
  <2>1. \A q \in Queues : c \in InQueue(q)' => pc'[c] = "flushWait" /\ at'[c] = q /\ sem'[c] = 0
    BY <1>1, <1>2 DEF PackageOK, Keeps
  <2>2. \A q \in Queues : worker'[q] \in {"fetched", "executing"} /\ current'[q] = c =>
          pc'[c] = "flushWait" /\ at'[c] = q /\ sem'[c] = 0
    BY <1>1, <1>2 DEF PackageOK, Keeps
  <2>3. \A q \in Queues : worker'[q] = "inPost" /\ current'[q] = c =>
          pc'[c] \in Flushing /\ at'[c] = q
    BY <1>1, <1>2 DEF PackageOK, Keeps
  <2> QED
    BY <2>1, <2>2, <2>3 DEF PackageOK
<1>6. PromiseOK(c)'
  <2>1. flushed'[c] # {} => pc'[c] = "flushWait" /\ sem'[c] = 0
    BY <1>1, <1>2 DEF PromiseOK, Keeps
  <2>2. \A p \in Packages : <<p, "queued">> \in flushed'[c] => Before(queue'[at'[c]], p, c)
    BY <1>1, <1>2 DEF PromiseOK, Keeps
  <2>3. \A p \in Packages : <<p, "running">> \in flushed'[c] =>
          HasPackage(at[c])' /\ current'[at'[c]] = p /\ p # c
    <3> SUFFICES ASSUME NEW p \in Packages, <<p, "running">> \in flushed'[c]
                 PROVE  HasPackage(at[c])' /\ current'[at'[c]] = p /\ p # c
      OBVIOUS
    <3>1. <<p, "running">> \in flushed[c]
      BY DEF Keeps
    <3>2. HasPackage(at[c]) /\ current[at[c]] = p /\ p # c
      BY <1>2, <3>1 DEF PromiseOK
    <3>3. at[c] \in Queues
      BY <1>2, <1>4, <3>1 DEF PromiseOK, Flushing
    <3>4. HasPackage(at[c])'
      BY <1>1, <3>2, <3>3 DEF Keeps, HasPackage
    <3> QED
      BY <1>1, <3>2, <3>4
  <2>4. ASSUME c \in closing', pc'[c] \in Flushing, HasPackage(at[c])', current'[at'[c]] \in OwnedBy(c)
        PROVE  <<current'[at'[c]], "running">> \in flushed'[c]
    <3>1. at[c] \in Queues
      BY <1>1, <1>4, <2>4
    <3>2. HasPackage(at[c])
      BY <1>1, <2>4, <3>1 DEF Keeps, HasPackage
    <3>3. <<current[at[c]], "running">> \in flushed[c]
      BY <1>1, <1>2, <2>4, <3>2 DEF PromiseOK
    <3>4. current[at[c]] \in Packages
      BY <1>1, <2>4 DEF OwnedBy, Packages
    <3> QED
      BY <1>1, <3>3, <3>4 DEF Keeps
  <2>5. OwnedBy(c)' = OwnedBy(c)
    BY DEF OwnedBy
  <2> QED
    BY <2>1, <2>2, <2>3, <2>4, <2>5 DEF PromiseOK
<1>7. ShutdownOK(c)'
  <2>1. \A q \in Queues : Clean(c, q) /\ (c \in closing \/ worker[q] = "destroyed") => Clean(c, q)'
    <3> SUFFICES ASSUME NEW q \in Queues, Clean(c, q), c \in closing \/ worker[q] = "destroyed"
                 PROVE  Clean(c, q)'
      OBVIOUS
    <3>1. OwnedBy(c) \cap InQueue(q)' = {}
      BY DEF Clean, Keeps
    <3>2. HasPackage(q)' => current'[q] \notin OwnedBy(c)
      BY <1>1 DEF Clean, Keeps
    <3> QED
      BY <3>1, <3>2 DEF Clean, OwnedBy
  <2>2. \A q \in Queues \ dirty'[c] : Clean(c, q)'
    <3> SUFFICES ASSUME NEW q \in Queues \ dirty'[c] PROVE Clean(c, q)'
      OBVIOUS
    <3>1. CASE q \in dirty[c]
      <4>1. worker'[q] = "destroyed" /\ OwnedBy(c) \cap InQueue(q)' = {}
        BY <3>1 DEF Keeps
      <4> QED
        BY <4>1 DEF Clean, HasPackage, OwnedBy
    <3>2. CASE q \notin dirty[c]
      BY <1>2, <2>1, <3>2 DEF ShutdownOK
    <3> QED
      BY <3>1, <3>2
  <2>3. \A q \in Queues \ dirty'[c] : c \in closing' \/ worker'[q] = "destroyed"
    <3> SUFFICES ASSUME NEW q \in Queues \ dirty'[c]
                 PROVE  c \in closing' \/ worker'[q] = "destroyed"
      OBVIOUS
    <3>1. CASE q \in dirty[c]
      BY <3>1 DEF Keeps
    <3>2. CASE q \notin dirty[c]
      BY <1>1, <1>2, <3>2 DEF ShutdownOK, Keeps
    <3> QED
      BY <3>1, <3>2
  <2>4. pc'[c] = "removing" => removing'[at[c]] = OwnedBy(c)
    BY <1>1, <1>2 DEF ShutdownOK, Keeps
  <2>5. ASSUME c \in closing, pc'[c] \in Flushing \cup {"removed", "waitOwner", "checkOwner"}
        PROVE  OwnedBy(c) \cap InQueue(at[c])' = {}
    <3>1. at[c] \in Queues
      BY <1>1, <1>2, <1>3, <2>5 DEF ShutdownOK, Flushing
    <3>2. PICK q \in Queues : q = at[c]
      BY <3>1
    <3>3. OwnedBy(c) \cap InQueue(q)' \subseteq InQueue(q)
      BY <2>5 DEF Keeps
    <3>4. CASE pc[c] \in Flushing \cup {"removed", "waitOwner", "checkOwner"}
      <4>1. OwnedBy(c) \cap InQueue(q) = {}
        BY <1>2, <2>5, <3>2, <3>4 DEF ShutdownOK
      <4> QED
        BY <1>1, <3>2, <3>3, <4>1 DEF InQueue
    <3>5. CASE pc[c] \notin Flushing \cup {"removed", "waitOwner", "checkOwner"}
      <4>1. OwnedBy(c) \cap InQueue(q)' = {}
        BY <2>5, <3>2, <3>5 DEF Keeps
      <4> QED
        BY <1>1, <3>2, <4>1 DEF InQueue
    <3> QED
      BY <3>4, <3>5
  <2>7. pc'[c] \notin {"idle"} \cup Flushing => c \in closing'
    BY <1>1, <1>2 DEF ShutdownOK
  <2>6. OwnedBy(c)' = OwnedBy(c)
    BY DEF OwnedBy
  <2> QED
    BY <1>1, <1>2, <2>2, <2>3, <2>4, <2>5, <2>6, <2>7 DEF ShutdownOK
<1> QED
  BY <1>5, <1>6, <1>7
LEMMA OneClientMoves ==
  ASSUME IInv, CInv, NEW c, ClientTypes', \A q \in Queues : QueueOK(q)',
         \A d \in Clients : d # c => Keeps(d),
         c \in Clients => PackageOK(c)' /\ PromiseOK(c)' /\ ShutdownOK(c)'
  PROVE  CInv'
<1>1. \A d \in Clients : PackageOK(d)' /\ PromiseOK(d)' /\ ShutdownOK(d)'
  BY KeepsClient
<1> QED
  BY <1>1 DEF CInv

LEMMA NobodyMoves ==
  ASSUME IInv, CInv, ClientTypes', \A q \in Queues : QueueOK(q)', \A d \in Clients : Keeps(d)
  PROVE  CInv'
<1>1. \A d \in Clients : PackageOK(d)' /\ PromiseOK(d)' /\ ShutdownOK(d)'
  BY KeepsClient
<1> QED
  BY <1>1 DEF CInv

(* A step that changes neither what q executes nor what is removed from it *)
LEMMA QueueKeeps ==
  ASSUME CInv, NEW q \in Queues, currentOwner'[q] = currentOwner[q], current'[q] = current[q],
         HasPackage(q)' <=> HasPackage(q), removing'[q] = removing[q],
         worker'[q] = "inPost" => worker[q] = "inPost" \/ current[q] \in Clients,
         worker'[q] = "destructor" => worker[q] = "destructor",
         \A c \in Clients : at'[c] = q => at[c] = q \/ removing[q] = {}
  PROVE  QueueOK(q)'
<1>1. QueueOK(q)
  BY DEF CInv
<1>2. HasPackage(q)' => currentOwner'[q] = Owner(q, current'[q])
  BY <1>1 DEF QueueOK
<1>3. \A c \in Clients : at'[c] = q => removing'[q] \cap Clients = {}
  BY <1>1 DEF QueueOK
<1>4. worker'[q] = "inPost" => current'[q] \in Clients
  BY <1>1 DEF QueueOK
<1>5. worker'[q] = "destructor" => removing'[q] = Packages
  BY <1>1 DEF QueueOK
<1>6. Owner(q, current[q])' = Owner(q, current'[q])
  BY DEF Owner
<1> QED
  BY <1>2, <1>3, <1>4, <1>5, <1>6 DEF QueueOK

(* The variables of c are not touched. *)
Rests(c) ==
  /\ pc'[c] = pc[c] /\ at'[c] = at[c] /\ sem'[c] = sem[c] /\ dirty'[c] = dirty[c]
  /\ flushed'[c] = flushed[c]
  /\ c \in closing' <=> c \in closing

(* Add, InsertAtHeadOfList and flushes of other clients: nobody adds       *)
(* packages of a client that shuts down.                                   *)
EnqueueLike(q, p) ==
  /\ Enqueue(q, p, Append(queue[q], p)) \/ Enqueue(q, p, <<p>> \o queue[q])
  /\ MutexFree(q)
  /\ UNCHANGED <<current, currentOwner, removing>>

LEMMA EnqueueFacts ==
  ASSUME IInv, NEW q \in Queues, NEW p \in Packages, EnqueueLike(q, p)
  PROVE  /\ InQueue(q)' = InQueue(q) \cup {p}
         /\ \A r \in Queues : r # q => queue'[r] = queue[r] /\ worker'[r] = worker[r]
         /\ \A r \in Queues : worker'[r] = worker[r] \/ (worker[r] = "waiting" /\ worker'[r] = "woken")
         /\ \A a, b : Before(queue[q], a, b) => Before(queue'[q], a, b)
<1>1. queue[q] \in Seq(Packages)
  BY DEF IInv, Types
<1>2. PICK n \in {Append(queue[q], p), <<p>> \o queue[q]} : Enqueue(q, p, n)
  BY DEF EnqueueLike
<1>3. Elements(n) = Elements(queue[q]) \cup {p}
  <2>1. CASE n = Append(queue[q], p)
    BY <1>1, <2>1, AppendElements
  <2>2. CASE n = <<p>> \o queue[q]
    BY <1>1, <2>2, PrependElements
  <2> QED
    BY <1>2, <2>1, <2>2
<1>4. \A a, b : Before(queue[q], a, b) => Before(n, a, b)
  BY <1>1, <1>2, BeforeAppend, BeforePrepend
<1>5. queue'[q] = n /\ \A r \in Queues : r # q => queue'[r] = queue[r]
  BY <1>2 DEF Enqueue, IInv, Types
<1>6. worker' = [worker EXCEPT ![q] = IF queue[q] = <<>> /\ @ = "waiting" THEN "woken" ELSE @]
  BY <1>2 DEF Enqueue, SignalIfEmpty
<1>7. InQueue(q)' = InQueue(q) \cup {p}
  BY <1>3, <1>5 DEF InQueue, Elements
<1> QED
  BY <1>4, <1>5, <1>6, <1>7 DEF IInv, Types

LEMMA EnqueueKeepsClient ==
  ASSUME IInv, CInv, NEW q \in Queues, NEW p \in Packages, EnqueueLike(q, p),
         NEW c \in Clients, c # p, Rests(c), p \in OwnedBy(c) => c \notin closing
  PROVE  Keeps(c)
<1>1. /\ InQueue(q)' = InQueue(q) \cup {p}
      /\ \A r \in Queues : r # q => queue'[r] = queue[r]
      /\ \A r \in Queues : worker'[r] = worker[r] \/ (worker[r] = "waiting" /\ worker'[r] = "woken")
      /\ \A a, b : Before(queue[q], a, b) => Before(queue'[q], a, b)
  BY EnqueueFacts
<1>2. \A r \in Queues : r # q => InQueue(r)' = InQueue(r)
  BY <1>1 DEF InQueue
<1>3. worker[q] # "destroyed" /\ current' = current /\ removing' = removing
  BY DEF EnqueueLike, MutexFree
<1>4. \A r \in Queues : HasPackage(r)' <=> HasPackage(r)
  BY <1>1 DEF HasPackage
<1>5. /\ \A r \in Queues : worker[r] = "destroyed" => worker'[r] = "destroyed"
      /\ \A r \in Queues : worker'[r] \in {"fetched", "executing"} =>
                           worker[r] \in {"fetched", "executing"}
      /\ \A r \in Queues : worker'[r] = "inPost" => worker[r] = "inPost"
  BY <1>1
<1>6. \A r \in Queues : c \in InQueue(r)' => c \in InQueue(r)
  BY <1>1, <1>2
<1>7. \A r \in Queues : c \in closing \/ worker[r] = "destroyed" =>
                        OwnedBy(c) \cap InQueue(r)' \subseteq InQueue(r)
  BY <1>1, <1>2, <1>3
<1>8. \A a \in Packages : <<a, "queued">> \in flushed[c] =>
        (Before(queue[at[c]], a, c) => Before(queue'[at[c]], a, c))
  <2> SUFFICES ASSUME NEW a \in Packages, <<a, "queued">> \in flushed[c], Before(queue[at[c]], a, c)
               PROVE  Before(queue'[at[c]], a, c)
    OBVIOUS
  <2>1. at[c] \in Queues
    <3>1. PromiseOK(c) /\ ShutdownOK(c) /\ at[c] \in Queues \cup {None}
      BY DEF CInv, ClientTypes
    <3>2. pc[c] = "flushWait"
      BY <3>1 DEF PromiseOK
    <3> QED
      BY <3>1, <3>2 DEF ShutdownOK
  <2> QED
    BY <1>1, <2>1
<1> QED
  BY <1>3, <1>4, <1>5, <1>6, <1>7, <1>8 DEF Keeps, Rests

LEMMA EnqueueKeepsQueues ==
  ASSUME IInv, CInv, NEW q \in Queues, NEW p \in Packages, EnqueueLike(q, p),
         \A c \in Clients : at'[c] = at[c] \/ at'[c] = q
  PROVE  \A r \in Queues : QueueOK(r)'
<1> SUFFICES ASSUME NEW r \in Queues PROVE QueueOK(r)'
  OBVIOUS
<1>1. worker'[r] = worker[r] \/ (worker[r] = "waiting" /\ worker'[r] = "woken")
  BY EnqueueFacts
<1>2. HasPackage(r)' <=> HasPackage(r)
  BY <1>1 DEF HasPackage
<1>3. /\ currentOwner'[r] = currentOwner[r] /\ current'[r] = current[r]
      /\ removing'[r] = removing[r] /\ removing[q] = {}
  BY DEF EnqueueLike, MutexFree
<1>4. \A c \in Clients : at'[c] = r => at[c] = r \/ removing[r] = {}
  BY <1>3
<1> QED
  BY <1>1, <1>2, <1>3, <1>4, QueueKeeps

LEMMA AddKeepsCInv ==
  ASSUME IInv, CInv, NEW q \in Queues, NEW p \in Static \cup Dynamic,
         Add(q, p) \/ InsertAtHeadOfList(q, p)
  PROVE  CInv'
<1>1. /\ EnqueueLike(q, p) /\ OwnerOf[p] \notin closing
      /\ UNCHANGED <<currentOwner, removing, clientVars, flushed>> /\ calls' = calls + 1
  BY DEF Add, InsertAtHeadOfList, EnqueueLike, MayAdd, NewCall
<1>2. p \in Packages /\ p \notin Clients
  BY ConstantsAssumption DEF Packages
<1>3. ClientTypes'
  BY <1>1 DEF CInv, ClientTypes, clientVars
<1>4. \A r \in Queues : QueueOK(r)'
  BY <1>1, <1>2, EnqueueKeepsQueues DEF clientVars
<1>5. ASSUME NEW c \in Clients PROVE Keeps(c)
  <2>1. Rests(c) /\ c # p /\ (p \in OwnedBy(c) => c \notin closing)
    BY <1>1, <1>2 DEF Rests, clientVars, OwnedBy
  <2> QED
    BY <1>1, <1>2, <2>1, EnqueueKeepsClient
<1> QED
  BY <1>3, <1>4, <1>5, NobodyMoves

LEMMA FlushKeepsCInv ==
  ASSUME IInv, CInv, NEW q \in Queues, NEW c \in Clients, Flush(c, q)
  PROVE  CInv'
<1>1. /\ EnqueueLike(q, c) /\ c \in Packages /\ Accepts(q, c)
      /\ pc[c] = "idle" \/ (pc[c] = "removed" /\ at[c] = q)
      /\ at' = [at EXCEPT ![c] = q] /\ calls' \in Nat
      /\ pc' = [pc EXCEPT ![c] = "flushWait"] /\ sem' = [sem EXCEPT ![c] = 0]
      /\ UNCHANGED <<currentOwner, current, removing, closing, dirty>>
      /\ queue' = [queue EXCEPT ![q] = Append(queue[q], c)]
  BY DEF Flush, EnqueueLike, Enqueue, NewCall, Packages, CInv, ClientTypes
<1> DEFINE promise == {<<p, "queued">> : p \in InQueue(q)} \cup
                      {<<p, "running">> : p \in IF HasPackage(q) THEN {current[q]} ELSE {}}
<1>2. flushed' = [flushed EXCEPT ![c] = promise]
  BY DEF Flush
<1>3. queue[q] \in Seq(Packages) /\ (HasPackage(q) => current[q] \in Packages)
  BY DEF IInv, Types, Places, Busy
<1>4. InQueue(q) \subseteq Packages
  <2>1. \A i \in 1 .. Len(queue[q]) : queue[q][i] \in Packages
    BY <1>3, ElementOfSeq
  <2> QED
    BY <2>1 DEF InQueue
<1>5. promise \subseteq Packages \X {"queued", "running"}
  BY <1>3, <1>4
<1>6. ClientTypes'
  <2>1. flushed' \in [Clients -> SUBSET (Packages \X {"queued", "running"})]
    <3> HIDE DEF promise
    <3> QED
      BY <1>2, <1>5 DEF CInv, ClientTypes
  <2>2. at' \in [Clients -> Queues \cup {None}] /\ pc' \in [Clients -> ClientStates]
        /\ sem' \in [Clients -> Nat]
    BY <1>1 DEF CInv, ClientTypes, ClientStates
  <2> QED
    BY <1>1, <2>1, <2>2 DEF CInv, ClientTypes
<1>7. \A r \in Queues : QueueOK(r)'
  BY <1>1, EnqueueKeepsQueues DEF CInv, ClientTypes
<1>8. ASSUME NEW d \in Clients, d # c PROVE Keeps(d)
  <2>1. Rests(d)
    <3> HIDE DEF promise
    <3> QED
      BY <1>1, <1>2, <1>8 DEF Rests, CInv, ClientTypes
  <2>2. c \notin OwnedBy(d)
    BY ConstantsAssumption DEF OwnedBy
  <2> QED
    BY <1>1, <1>8, <2>1, <2>2, EnqueueKeepsClient
<1>9. /\ pc'[c] = "flushWait" /\ at'[c] = q /\ sem'[c] = 0 /\ dirty'[c] = dirty[c]
      /\ c \in closing' <=> c \in closing
  BY <1>1 DEF CInv, ClientTypes
<1>10. flushed'[c] = promise
  <2> HIDE DEF promise
  <2> QED
    BY <1>2 DEF CInv, ClientTypes
<1>11. ~Enqueued(c) /\ ~Executed(c, Busy)
  <2>1. c \notin Static
    BY ConstantsAssumption
  <2> QED
    BY <1>1, <2>1, AcceptedIsFree
<1>12. /\ InQueue(q)' = InQueue(q) \cup {c}
       /\ \A r \in Queues : r # q => queue'[r] = queue[r]
       /\ \A r \in Queues : worker'[r] = worker[r] \/ (worker[r] = "waiting" /\ worker'[r] = "woken")
  BY <1>1, EnqueueFacts
<1>13. \A r \in Queues : HasPackage(r)' <=> HasPackage(r)
  BY <1>12 DEF HasPackage
<1>14. PackageOK(c)'
  <2>1. \A r \in Queues : c \in InQueue(r)' => r = q
    BY <1>11, <1>12 DEF Enqueued, InQueue
  <2>2. \A r \in Queues : current'[r] = c => ~HasPackage(r)'
    BY <1>1, <1>11, <1>13 DEF Executed, Busy
  <2> QED
    BY <1>9, <2>1, <2>2 DEF PackageOK, HasPackage
<1>15. PromiseOK(c)'
  <2>1. \A p \in Packages : <<p, "queued">> \in promise => Before(queue'[q], p, c)
    <3> SUFFICES ASSUME NEW p \in Packages, p \in InQueue(q) PROVE Before(queue'[q], p, c)
      OBVIOUS
    <3>1. p \in Elements(queue[q])
      BY DEF InQueue, Elements
    <3>2. queue'[q] = Append(queue[q], c)
      BY <1>1 DEF IInv, Types
    <3> QED
      BY <1>1, <1>3, <3>1, <3>2, BeforeAppend
  <2>2. \A p \in Packages : <<p, "running">> \in promise => HasPackage(q)' /\ current'[q] = p /\ p # c
    BY <1>1, <1>11, <1>13 DEF Executed, Busy
  <2>3. HasPackage(q)' => <<current'[q], "running">> \in promise
    BY <1>1, <1>13
  <2> HIDE DEF promise
  <2> QED
    BY <1>9, <1>10, <2>1, <2>2, <2>3 DEF PromiseOK
<1>16. ShutdownOK(c)'
  <2>1. ShutdownOK(c) /\ c \notin OwnedBy(c) /\ OwnedBy(c)' = OwnedBy(c)
    BY ConstantsAssumption DEF CInv, OwnedBy
  <2>2. c \in closing => OwnedBy(c) \cap InQueue(q)' = {}
    BY <1>1, <1>12, <2>1 DEF ShutdownOK
  <2>3. \A r \in Queues : Clean(c, r) => Clean(c, r)'
    <3> SUFFICES ASSUME NEW r \in Queues, Clean(c, r) PROVE Clean(c, r)'
      OBVIOUS
    <3>1. OwnedBy(c) \cap InQueue(r)' = {}
      <4>1. InQueue(r)' \subseteq InQueue(r) \cup {c}
        <5>1. CASE r = q
          BY <1>12, <5>1
        <5>2. CASE r # q
          BY <1>12, <5>2 DEF InQueue
        <5> QED
          BY <5>1, <5>2
      <4> QED
        BY <2>1, <4>1 DEF Clean
    <3>2. HasPackage(r)' => current'[r] \notin OwnedBy(c)
      BY <1>1, <1>13 DEF Clean
    <3> QED
      BY <2>1, <3>1, <3>2 DEF Clean
  <2>4. \A r \in Queues \ dirty[c] : Clean(c, r)'
    BY <2>1, <2>3 DEF ShutdownOK
  <2>5. \A r \in Queues \ dirty[c] : c \in closing \/ worker'[r] = "destroyed"
    BY <1>12, <2>1 DEF ShutdownOK
  <2>6. at'[c] # None
    BY <1>9, ConstantsAssumption
  <2>7. c \in closing' /\ pc'[c] \in Flushing \cup {"removed", "waitOwner", "checkOwner"} =>
          OwnedBy(c) \cap InQueue(at[c])' = {}
    BY <1>9, <2>2 DEF InQueue
  <2>8. pc'[c] \in Flushing
    BY <1>9 DEF Flushing
  <2> QED
    BY <1>9, <2>1, <2>4, <2>5, <2>6, <2>7, <2>8 DEF ShutdownOK
<1> QED
  BY <1>6, <1>7, <1>8, <1>14, <1>15, <1>16, OneClientMoves
LEMMA UnlinkKeepsCInv ==
  ASSUME IInv, CInv, NEW q \in Queues, NEW i \in 1 .. Len(queue[q]), Unlink(q, i),
         queue[q][i] \notin Clients, calls' \in Nat,
         UNCHANGED <<currentOwner, current, worker, removing, clientVars>>
  PROVE  CInv'
<1>1. queue[q] \in Seq(Packages) /\ Distinct(queue[q])
  BY DEF IInv, Types, Places
<1>2. PICK p : p = queue[q][i]
  OBVIOUS
<1>3. p \notin Clients
  BY <1>2
<1>4. queue' = [queue EXCEPT ![q] = Cut(queue[q], i)]
  BY DEF Unlink, Cut
<1>5. queue'[q] = Cut(queue[q], i) /\ \A r \in Queues : r # q => queue'[r] = queue[r]
  BY <1>4 DEF IInv, Types
<1>6. \A r \in Queues : InQueue(r)' \subseteq InQueue(r)
  <2>1. Elements(Cut(queue[q], i)) \subseteq Elements(queue[q])
    BY <1>1, CutElements
  <2> QED
    BY <1>5, <2>1 DEF InQueue, Elements
<1>7. flushed' = [c \in Clients |-> IF at[c] = q THEN flushed[c] \ {<<p, "queued">>} ELSE flushed[c]]
  BY <1>2 DEF Unlink
<1>8. ClientTypes'
  <2>1. flushed' \in [Clients -> SUBSET (Packages \X {"queued", "running"})]
    BY <1>7 DEF CInv, ClientTypes
  <2> QED
    BY <2>1 DEF CInv, ClientTypes, clientVars
<1>9. ASSUME NEW r \in Queues PROVE QueueOK(r)'
  <2>1. HasPackage(r)' <=> HasPackage(r)
    BY DEF HasPackage
  <2> QED
    BY <2>1, QueueKeeps DEF clientVars
<1>10. ASSUME NEW c \in Clients PROVE Keeps(c)
  <2>1. /\ flushed'[c] \subseteq flushed[c]
        /\ \A a \in Packages : <<a, "running">> \in flushed[c] => <<a, "running">> \in flushed'[c]
        /\ at[c] = q => <<p, "queued">> \notin flushed'[c]
    BY <1>7
  <2>2. \A r \in Queues : HasPackage(r)' <=> HasPackage(r)
    BY DEF HasPackage
  <2>3. ASSUME NEW a \in Packages, <<a, "queued">> \in flushed'[c], Before(queue[at[c]], a, c)
        PROVE  Before(queue'[at[c]], a, c)
    <3>1. at[c] \in Queues
      <4>1. PromiseOK(c) /\ ShutdownOK(c) /\ at[c] \in Queues \cup {None}
        BY DEF CInv, ClientTypes
      <4>2. pc[c] = "flushWait"
        BY <2>1, <2>3, <4>1 DEF PromiseOK
      <4> QED
        BY <4>1, <4>2 DEF ShutdownOK
    <3>2. CASE at[c] = q
      <4>1. a # queue[q][i] /\ c # queue[q][i]
        BY <1>2, <1>3, <2>1, <2>3, <3>2
      <4>2. Before(Cut(queue[q], i), a, c)
        BY <1>1, <2>3, <3>2, <4>1, BeforeCut
      <4> QED
        BY <1>5, <3>2, <4>2
    <3>3. CASE at[c] # q
      BY <1>5, <2>3, <3>1, <3>3
    <3> QED
      BY <3>2, <3>3
  <2>4. pc' = pc /\ at' = at /\ sem' = sem /\ dirty' = dirty /\ closing' = closing
    BY DEF clientVars
  <2> QED
    BY <1>6, <2>1, <2>2, <2>3, <2>4 DEF Keeps
<1> QED
  BY <1>8, <1>9, <1>10, NobodyMoves

LEMMA RemoveKeepsCInv ==
  ASSUME IInv, CInv, NEW q \in Queues, (\E p : Remove(q, p)) \/ RemoveNext(q)
  PROVE  CInv'
<1>1. ASSUME NEW p, Remove(q, p) PROVE CInv'
  <2>1. PICK i \in 1 .. Len(queue[q]) : queue[q][i] = p /\ Unlink(q, i)
    BY <1>1 DEF Remove
  <2>2. p \notin Clients /\ calls' \in Nat
    BY <1>1, ConstantsAssumption DEF Remove, NewCall, CInv, ClientTypes
  <2> QED
    BY <1>1, <2>1, <2>2, UnlinkKeepsCInv DEF Remove
<1>2. CASE RemoveNext(q)
  <2>1. PICK i \in 1 .. Len(queue[q]) : queue[q][i] \in removing[q] /\ Unlink(q, i)
    BY <1>2 DEF RemoveNext
  <2>2. queue[q][i] \notin Clients
    <3> SUFFICES ASSUME NEW c \in Clients, c = queue[q][i] PROVE FALSE
      OBVIOUS
    <3>1. PackageOK(c) /\ QueueOK(q)
      BY DEF CInv
    <3>2. at[c] = q
      BY <3>1 DEF PackageOK, InQueue
    <3> QED
      BY <2>1, <3>1, <3>2 DEF QueueOK
  <2>3. calls' \in Nat
    BY <1>2 DEF RemoveNext, CInv, ClientTypes
  <2> QED
    BY <1>2, <2>1, <2>2, <2>3, UnlinkKeepsCInv DEF RemoveNext
<1> QED
  BY <1>1, <1>2

(* A worker moves, or is woken, and nothing else happens. *)
LEMMA WorkerKeepsCInv ==
  ASSUME IInv, CInv, UNCHANGED <<queue, current, currentOwner, removing, clientVars, flushed>>,
         calls' \in Nat,
         \A q \in Queues : HasPackage(q)' <=> HasPackage(q),
         \A q \in Queues : worker[q] = "destroyed" => worker'[q] = "destroyed",
         \A q \in Queues : worker'[q] \in {"fetched", "executing"} =>
                           worker[q] \in {"fetched", "executing"},
         \A q \in Queues : worker'[q] = "inPost" => worker[q] = "inPost",
         \A q \in Queues : worker'[q] = "destructor" => worker[q] = "destructor"
  PROVE  CInv'
<1>1. pc' = pc /\ at' = at /\ sem' = sem /\ dirty' = dirty /\ closing' = closing
  BY DEF clientVars
<1>2. ClientTypes'
  BY <1>1 DEF CInv, ClientTypes
<1>3. ASSUME NEW q \in Queues PROVE QueueOK(q)'
  <2>1. HasPackage(q)' <=> HasPackage(q)
    OBVIOUS
  <2> QED
    BY <1>1, <2>1, QueueKeeps
<1>4. \A q \in Queues : InQueue(q)' = InQueue(q)
  BY DEF InQueue
<1>5. ASSUME NEW c \in Clients PROVE Keeps(c)
  BY <1>1, <1>4 DEF Keeps
<1> QED
  BY <1>2, <1>3, <1>5, NobodyMoves

LEMMA CallsAreCounted == ASSUME CInv, NewCall \/ calls' = calls PROVE calls' \in Nat
  BY DEF NewCall, CInv, ClientTypes

LEMMA RefusedKeepsCInv ==
  ASSUME IInv, CInv, NEW q \in Queues, (\E p : AddRefused(q, p)) \/ RequestTermination(q)
  PROVE  CInv'
<1>1. /\ UNCHANGED <<queue, current, currentOwner, removing, clientVars, flushed>>
      /\ NewCall
      /\ \/ SignalIfEmpty(q)
         \/ worker' = [worker EXCEPT ![q] = IF @ = "waiting" THEN "woken" ELSE @]
  BY DEF AddRefused, RequestTermination, MayAdd
<1>2. \A r \in Queues : worker'[r] = worker[r] \/ (worker[r] = "waiting" /\ worker'[r] = "woken")
  BY <1>1 DEF IInv, Types, SignalIfEmpty
<1>3. \A r \in Queues : HasPackage(r)' <=> HasPackage(r)
  BY <1>2 DEF HasPackage
<1>4. calls' \in Nat
  BY <1>1, CallsAreCounted
<1> QED
  BY <1>1, <1>2, <1>3, <1>4, WorkerKeepsCInv

LEMMA FunctorKeepsCInv ==
  ASSUME IInv, CInv, NEW q \in Queues,
         StartFunctor(q) \/ FunctorReturns(q) \/ FunctorThrows(q) \/ SpuriousWorkerWakeup(q)
  PROVE  CInv'
<1>1. /\ UNCHANGED <<queue, current, currentOwner, removing, clientVars, flushed>>
      /\ calls' = calls
  BY DEF StartFunctor, FunctorReturns, FunctorThrows, SpuriousWorkerWakeup, WorkerMoves, clientVars
<1>2. \E to \in WorkerStates :
        /\ worker' = [worker EXCEPT ![q] = to]
        /\ \/ worker[q] = "fetched" /\ to = "executing"
           \/ worker[q] \in {"executing", "inPost"} /\ to \in {"executed", "threw"}
           \/ worker[q] = "waiting" /\ to = "woken"
  BY DEF StartFunctor, FunctorReturns, FunctorThrows, SpuriousWorkerWakeup, WorkerMoves,
         WorkerStates
<1>3. \A r \in Queues :
        \/ worker'[r] = worker[r]
        \/ worker[r] = "fetched" /\ worker'[r] = "executing"
        \/ worker[r] \in {"executing", "inPost"} /\ worker'[r] \in {"executed", "threw"}
        \/ worker[r] = "waiting" /\ worker'[r] = "woken"
  BY <1>2 DEF IInv, Types
<1>4. \A r \in Queues : HasPackage(r)' <=> HasPackage(r)
  BY <1>3 DEF HasPackage
<1>5. calls' \in Nat
  BY <1>1, CallsAreCounted
<1> QED
  BY <1>1, <1>3, <1>4, <1>5, WorkerKeepsCInv
(* Somebody locks queueMutex for a removal; the destructor does if nobody  *)
(* is inside a method of the queue.                                        *)
LEMMA RemovalBegins ==
  ASSUME IInv, CInv, NEW q \in Queues, NEW selection \in SUBSET Packages, NEW c \in Clients,
         MutexFree(q), removing' = [removing EXCEPT ![q] = selection],
         selection \cap Clients = {}, \A d \in Clients : at'[d] = at[d] \/ (d = c /\ at'[d] = q),
         UNCHANGED <<queue, current, currentOwner, worker>>
  PROVE  /\ \A r \in Queues : QueueOK(r)'
         /\ \A d \in Clients : Rests(d) => Keeps(d)
<1>1. /\ removing'[q] = selection /\ \A r \in Queues : r # q => removing'[r] = removing[r]
      /\ removing[q] = {} /\ worker[q] # "destroyed"
  BY DEF CInv, ClientTypes, MutexFree
<1>2. \A r \in Queues : HasPackage(r)' <=> HasPackage(r)
  BY DEF HasPackage
<1>3. QueueOK(q)'
  <2>1. QueueOK(q) /\ Packages # {}
    BY DEF CInv, Packages
  <2>2. worker'[q] # "destructor"
    BY <1>1, <2>1 DEF QueueOK
  <2>3. HasPackage(q)' => currentOwner'[q] = Owner(q, current'[q])
    BY <1>2, <2>1 DEF QueueOK
  <2>4. worker'[q] = "inPost" => current'[q] \in Clients
    BY <2>1 DEF QueueOK
  <2>5. Owner(q, current[q])' = Owner(q, current'[q])
    BY DEF Owner
  <2> QED
    BY <1>1, <2>2, <2>3, <2>4, <2>5 DEF QueueOK
<1>4. ASSUME NEW r \in Queues, r # q PROVE QueueOK(r)'
  <2>1. \A d \in Clients : at'[d] = r => at[d] = r \/ removing[r] = {}
    BY <1>4
  <2>2. HasPackage(r)' <=> HasPackage(r)
    BY <1>2
  <2> QED
    BY <1>1, <1>4, <2>1, <2>2, QueueKeeps
<1>5. ASSUME NEW d \in Clients, Rests(d) PROVE Keeps(d)
  <2>1. \A r \in Queues : InQueue(r)' = InQueue(r)
    BY DEF InQueue
  <2>2. pc[d] = "removing" => removing'[at[d]] = removing[at[d]]
    <3> SUFFICES ASSUME pc[d] = "removing" PROVE removing'[at[d]] = removing[at[d]]
      OBVIOUS
    <3>1. ShutdownOK(d) /\ at[d] \in Queues \cup {None} /\ OwnedBy(d) # {}
      BY ConstantsAssumption DEF CInv, ClientTypes
    <3>2. at[d] \in Queues /\ removing[at[d]] = OwnedBy(d)
      BY <3>1 DEF ShutdownOK
    <3> QED
      BY <1>1, <3>1, <3>2
  <2> QED
    BY <1>2, <1>5, <2>1, <2>2 DEF Keeps, Rests
<1> QED
  BY <1>3, <1>4, <1>5

LEMMA RemoveSelectedKeepsCInv ==
  ASSUME IInv, CInv, NEW q \in Queues, NEW c \in Clients, NEW selection \in SUBSET OwnedBy(c),
         RemoveSelected(q, selection)
  PROVE  CInv'
<1>1. selection \in SUBSET Packages /\ selection \cap Clients = {}
  BY ConstantsAssumption DEF OwnedBy, Packages
<1>2. /\ MutexFree(q) /\ removing' = [removing EXCEPT ![q] = selection] /\ NewCall
      /\ UNCHANGED <<queue, current, currentOwner, worker, clientVars, flushed>>
  BY DEF RemoveSelected
<1>3. at' = at /\ \A d \in Clients : Rests(d)
  BY <1>2 DEF clientVars, Rests
<1>4. /\ \A r \in Queues : QueueOK(r)'
      /\ \A d \in Clients : Rests(d) => Keeps(d)
  BY <1>1, <1>2, <1>3, RemovalBegins
<1>5. ClientTypes'
  <2>1. calls' \in Nat
    BY <1>2, CallsAreCounted
  <2>2. removing' \in [Queues -> SUBSET Packages]
    BY <1>1, <1>2 DEF CInv, ClientTypes
  <2> QED
    BY <1>2, <2>1, <2>2 DEF CInv, ClientTypes, clientVars
<1> QED
  BY <1>3, <1>4, <1>5, NobodyMoves

LEMMA DestroyKeepsCInv ==
  ASSUME IInv, CInv, NEW q \in Queues, Destroy(q)
  PROVE  CInv'
<1>1. /\ worker[q] = "out" /\ \A c \in Clients : at[c] # q
      /\ worker' = [worker EXCEPT ![q] = "destructor"]
      /\ removing' = [removing EXCEPT ![q] = Packages]
      /\ UNCHANGED <<queue, current, currentOwner, clientVars, flushed, calls>>
  BY DEF Destroy
<1>2. pc' = pc /\ at' = at /\ sem' = sem /\ dirty' = dirty /\ closing' = closing
  BY <1>1 DEF clientVars
<1>3. /\ worker'[q] = "destructor" /\ \A r \in Queues : r # q => worker'[r] = worker[r]
      /\ removing'[q] = Packages /\ \A r \in Queues : r # q => removing'[r] = removing[r]
  BY <1>1 DEF IInv, Types, CInv, ClientTypes
<1>4. \A r \in Queues : HasPackage(r)' <=> HasPackage(r)
  BY <1>1, <1>3 DEF HasPackage
<1>5. ClientTypes'
  BY <1>1, <1>2 DEF CInv, ClientTypes
<1>6. ASSUME NEW r \in Queues PROVE QueueOK(r)'
  <2>1. CASE r = q
    BY <1>1, <1>2, <1>3, <2>1 DEF QueueOK, HasPackage
  <2>2. CASE r # q
    <3>1. HasPackage(r)' <=> HasPackage(r)
      BY <1>4
    <3> QED
      BY <1>1, <1>2, <1>3, <2>2, <3>1, QueueKeeps
  <2> QED
    BY <2>1, <2>2
<1>7. ASSUME NEW c \in Clients PROVE Keeps(c)
  <2>1. \A r \in Queues : InQueue(r)' = InQueue(r)
    BY <1>1 DEF InQueue
  <2>2. pc[c] = "removing" => removing'[at[c]] = removing[at[c]]
    BY <1>1 DEF CInv, ClientTypes
  <2>3. \A r \in Queues : worker[r] = "destroyed" => worker'[r] = "destroyed"
    BY <1>1, <1>3
  <2>4. \A r \in Queues : worker'[r] \in {"fetched", "executing", "inPost"} => worker'[r] = worker[r]
    BY <1>3
  <2> QED
    BY <1>1, <1>2, <1>4, <2>1, <2>2, <2>3, <2>4 DEF Keeps
<1> QED
  BY <1>5, <1>6, <1>7, NobodyMoves

LEMMA RemoveEndKeepsCInv ==
  ASSUME IInv, CInv, NEW q \in Queues, RemoveEnd(q)
  PROVE  CInv'
<1>1. /\ InQueue(q) \cap removing[q] = {}
      /\ removing' = [removing EXCEPT ![q] = {}]
      /\ worker' = [worker EXCEPT ![q] = IF @ = "destructor" THEN "destroyed" ELSE @]
      /\ dirty' = [c \in Clients |-> IF worker[q] = "destructor" THEN dirty[c] \ {q} ELSE dirty[c]]
      /\ pc' = [c \in Clients |-> IF pc[c] = "removing" /\ at[c] = q THEN "removed" ELSE pc[c]]
      /\ UNCHANGED <<queue, current, currentOwner, at, closing, sem, flushed, calls>>
  BY DEF RemoveEnd
<1>2. /\ worker'[q] = IF worker[q] = "destructor" THEN "destroyed" ELSE worker[q]
      /\ \A r \in Queues : r # q => worker'[r] = worker[r]
      /\ removing'[q] = {} /\ \A r \in Queues : r # q => removing'[r] = removing[r]
  BY <1>1 DEF IInv, Types, CInv, ClientTypes
<1>3. \A r \in Queues : HasPackage(r)' <=> HasPackage(r)
  BY <1>2 DEF HasPackage
<1>4. ClientTypes'
  <2>1. dirty' \in [Clients -> SUBSET Queues] /\ pc' \in [Clients -> ClientStates]
        /\ removing' \in [Queues -> SUBSET Packages]
    BY <1>1 DEF CInv, ClientTypes, ClientStates
  <2> QED
    BY <1>1, <2>1 DEF CInv, ClientTypes
<1>5. ASSUME NEW r \in Queues PROVE QueueOK(r)'
  <2>1. CASE r = q
    <3>1. QueueOK(q) /\ Owner(q, current[q])' = Owner(q, current'[q])
      BY DEF CInv, Owner
    <3>2. HasPackage(q)' => currentOwner'[q] = Owner(q, current'[q])
      BY <1>1, <1>3, <3>1 DEF QueueOK
    <3>3. worker'[q] = "inPost" => current'[q] \in Clients
      BY <1>1, <1>2, <3>1 DEF QueueOK
    <3> QED
      BY <1>2, <2>1, <3>1, <3>2, <3>3 DEF QueueOK
  <2>2. CASE r # q
    <3>1. HasPackage(r)' <=> HasPackage(r)
      BY <1>3
    <3> QED
      BY <1>1, <1>2, <2>2, <3>1, QueueKeeps
  <2> QED
    BY <2>1, <2>2
<1>6. \A r \in Queues : InQueue(r)' = InQueue(r)
  BY <1>1 DEF InQueue
<1>7. ASSUME NEW c \in Clients PROVE Keeps(c)
  <2>1. ShutdownOK(c) /\ QueueOK(q) /\ OwnedBy(c) \subseteq Packages
    BY DEF CInv, OwnedBy, Packages
  <2>2. \/ pc'[c] = pc[c]
        \/ /\ pc[c] = "removing" /\ pc'[c] = "removed"
           /\ \A r \in Queues : at[c] = r => OwnedBy(c) \cap InQueue(r)' = {}
    <3>1. CASE pc[c] = "removing" /\ at[c] = q
      <4>1. removing[q] = OwnedBy(c)
        BY <2>1, <3>1 DEF ShutdownOK
      <4> QED
        BY <1>1, <1>6, <3>1, <4>1
    <3>2. CASE ~(pc[c] = "removing" /\ at[c] = q)
      BY <1>1, <3>2
    <3> QED
      BY <3>1, <3>2
  <2>3. \A r \in Queues : r \in dirty[c] /\ r \notin dirty'[c] =>
          worker'[r] = "destroyed" /\ OwnedBy(c) \cap InQueue(r)' = {}
    <3> SUFFICES ASSUME NEW r \in Queues, r \in dirty[c], r \notin dirty'[c]
                 PROVE  worker'[r] = "destroyed" /\ OwnedBy(c) \cap InQueue(r)' = {}
      OBVIOUS
    <3>1. r = q /\ worker[q] = "destructor"
      BY <1>1
    <3>2. removing[q] = Packages
      BY <2>1, <3>1 DEF QueueOK
    <3> QED
      BY <1>1, <1>2, <1>6, <2>1, <3>1, <3>2
  <2>4. pc'[c] = "removing" => removing'[at[c]] = removing[at[c]]
    <3> SUFFICES ASSUME pc'[c] = "removing" PROVE removing'[at[c]] = removing[at[c]]
      OBVIOUS
    <3>1. pc[c] = "removing" /\ at[c] # q
      BY <1>1
    <3> QED
      BY <1>1, <3>1 DEF CInv, ClientTypes
  <2>5. \A r \in Queues : worker'[r] \in {"fetched", "executing", "inPost"} => worker'[r] = worker[r]
    BY <1>2
  <2>6. \A r \in Queues : worker[r] = "destroyed" => worker'[r] = "destroyed"
    BY <1>2
  <2>7. dirty'[c] \subseteq dirty[c] /\ at' = at /\ sem' = sem /\ closing' = closing
        /\ flushed' = flushed /\ current' = current /\ queue' = queue
    BY <1>1
  <2> QED
    BY <1>3, <1>6, <2>2, <2>3, <2>4, <2>5, <2>6, <2>7 DEF Keeps
<1> QED
  BY <1>4, <1>5, <1>7, NobodyMoves

(* When the package of a flush is executed nothing is left of what the     *)
(* flush has to wait for.                                                  *)
LEMMA PostKeepsCInv ==
  ASSUME IInv, CInv, NEW q \in Queues, Post(q)
  PROVE  CInv'
<1>1. PICK c \in Clients : c = current[q]
  BY DEF Post
<1>2. /\ worker[q] = "executing" /\ worker' = [worker EXCEPT ![q] = "inPost"]
      /\ sem' = [sem EXCEPT ![c] = sem[c] + 1]
      /\ UNCHANGED <<queue, current, currentOwner, removing, pc, at, closing, dirty, flushed, calls>>
  BY <1>1 DEF Post, WorkerMoves
<1>3. /\ worker'[q] = "inPost" /\ \A r \in Queues : r # q => worker'[r] = worker[r]
      /\ sem'[c] = sem[c] + 1 /\ \A d \in Clients : d # c => sem'[d] = sem[d]
      /\ sem' \in [Clients -> Nat]
  BY <1>2 DEF IInv, Types, CInv, ClientTypes
<1>4. \A r \in Queues : HasPackage(r)' <=> HasPackage(r)
  BY <1>2, <1>3 DEF HasPackage
<1>5. ClientTypes'
  BY <1>2, <1>3 DEF CInv, ClientTypes
<1>6. ASSUME NEW r \in Queues PROVE QueueOK(r)'
  <2>1. HasPackage(r)' <=> HasPackage(r)
    BY <1>4
  <2>2. worker'[r] = "inPost" => worker[r] = "inPost" \/ current[r] \in Clients
    BY <1>1, <1>3
  <2>3. worker'[r] = "destructor" => worker[r] = "destructor"
    BY <1>3
  <2> QED
    BY <1>2, <2>1, <2>2, <2>3, QueueKeeps
<1>7. \A r \in Queues : InQueue(r)' = InQueue(r)
  BY <1>2 DEF InQueue
<1>8. ASSUME NEW d \in Clients, d # c PROVE Keeps(d)
  <2>1. \A r \in Queues : worker'[r] \in {"fetched", "executing"} => worker[r] = worker'[r]
    BY <1>3
  <2>2. \A r \in Queues : worker'[r] = "inPost" /\ current[r] = d => worker[r] = "inPost"
    BY <1>1, <1>3, <1>8
  <2>3. \A r \in Queues : worker[r] = "destroyed" => worker'[r] = "destroyed"
    BY <1>2, <1>3
  <2> QED
    BY <1>2, <1>3, <1>4, <1>7, <1>8, <2>1, <2>2, <2>3 DEF Keeps
<1>9. PackageOK(c) /\ PromiseOK(c) /\ ShutdownOK(c)
  BY DEF CInv
<1>10. pc[c] = "flushWait" /\ at[c] = q /\ sem[c] = 0
  BY <1>1, <1>2, <1>9 DEF PackageOK
<1>11. q \in Busy /\ c \notin Static /\ Busy \subseteq Queues
  BY <1>2, ConstantsAssumption DEF Busy, HasPackage
<1>12. \A r \in Queues : c \notin InQueue(r)
  BY <1>1, <1>11 DEF IInv, Places
<1>13. \A r \in Queues : r # q => ~(HasPackage(r) /\ current[r] = c)
  BY <1>1, <1>11 DEF IInv, Places, Busy
<1>14. flushed[c] = {}
  <2>1. \A p \in Packages : <<p, "queued">> \notin flushed[c]
    <3> SUFFICES ASSUME NEW p \in Packages, <<p, "queued">> \in flushed[c] PROVE FALSE
      OBVIOUS
    <3>1. Before(queue[q], p, c)
      BY <1>9, <1>10 DEF PromiseOK
    <3>2. c \in InQueue(q)
      BY <3>1 DEF Before, InQueue
    <3> QED
      BY <1>12, <3>2
  <2>2. \A p \in Packages : <<p, "running">> \notin flushed[c]
    BY <1>1, <1>9, <1>10 DEF PromiseOK
  <2>3. flushed[c] \subseteq Packages \X {"queued", "running"}
    BY DEF CInv, ClientTypes
  <2> QED
    BY <2>1, <2>2, <2>3
<1>15. PackageOK(c)'
  BY <1>2, <1>3, <1>7, <1>10, <1>12, <1>13 DEF PackageOK, HasPackage, Flushing
<1>16. PromiseOK(c)'
  <2>1. HasPackage(q)' /\ current[q] \notin OwnedBy(c)
    BY <1>1, <1>3, ConstantsAssumption DEF HasPackage, OwnedBy
  <2>2. flushed'[c] = {} /\ at'[c] = q /\ current'[at'[c]] \notin OwnedBy(c)
    BY <1>2, <1>10, <1>14, <2>1
  <2>3. OwnedBy(c)' = OwnedBy(c)
    BY DEF OwnedBy
  <2> QED
    BY <2>2, <2>3 DEF PromiseOK
<1>17. ShutdownOK(c)'
  <2>1. \A r \in Queues : Clean(c, r) => Clean(c, r)'
    BY <1>2, <1>4, <1>7 DEF Clean, OwnedBy
  <2>2. \A r \in Queues : worker[r] = "destroyed" => worker'[r] = "destroyed"
    BY <1>2, <1>3
  <2>3. OwnedBy(c)' = OwnedBy(c) /\ InQueue(at[c])' = InQueue(at[c])
    BY <1>2 DEF OwnedBy, InQueue
  <2>4. \A r \in Queues \ dirty'[c] : Clean(c, r)'
    BY <1>2, <1>9, <2>1 DEF ShutdownOK
  <2>5. \A r \in Queues \ dirty'[c] : c \in closing' \/ worker'[r] = "destroyed"
    BY <1>2, <1>9, <2>2 DEF ShutdownOK
  <2>6. pc' = pc /\ at' = at /\ closing' = closing /\ removing' = removing
    BY <1>2
  <2> QED
    BY <1>9, <2>3, <2>4, <2>5, <2>6 DEF ShutdownOK
<1> QED
  BY <1>5, <1>6, <1>8, <1>15, <1>16, <1>17, OneClientMoves
-----------------------------------------------------------------------------
(* The loop in Work().  LeftRight: nobody who flushes q waits any longer   *)
(* for the package that q has executed.                                    *)
LeftRight(q, left) ==
  /\ left \in [Clients -> SUBSET (Packages \X {"queued", "running"})]
  /\ \A c \in Clients : left[c] \subseteq flushed[c]
  /\ \A c \in Clients : at[c] # q => left[c] = flushed[c]
  /\ \A c \in Clients : at[c] = q => \A p \in Packages : <<p, "running">> \notin left[c]

LEMMA LeftIsRight ==
  ASSUME CInv, NEW q \in Queues
  PROVE  /\ ~HasPackage(q) => LeftRight(q, flushed)
         /\ LeftRight(q, LeftAfterFinish(q))
<1>1. flushed \in [Clients -> SUBSET (Packages \X {"queued", "running"})]
  BY DEF CInv, ClientTypes
<1>2. \A c \in Clients : \A p \in Packages : at[c] = q /\ <<p, "running">> \in flushed[c] =>
        HasPackage(q) /\ current[q] = p
  <2> SUFFICES ASSUME NEW c \in Clients, NEW p \in Packages, at[c] = q,
                      <<p, "running">> \in flushed[c]
               PROVE  HasPackage(q) /\ current[q] = p
    OBVIOUS
  <2>1. PromiseOK(c)
    BY DEF CInv
  <2>2. HasPackage(at[c]) /\ current[at[c]] = p
    BY <2>1 DEF PromiseOK
  <2> QED
    BY <2>2
<1>3. ~HasPackage(q) => LeftRight(q, flushed)
  BY <1>1, <1>2 DEF LeftRight
<1>4. LeftRight(q, LeftAfterFinish(q))
  <2> DEFINE left == LeftAfterFinish(q)
  <2>1. \A c \in Clients :
          left[c] = IF at[c] = q THEN flushed[c] \ {<<current[q], "running">>} ELSE flushed[c]
    BY DEF LeftAfterFinish
  <2>2. left \in [Clients -> SUBSET (Packages \X {"queued", "running"})]
    BY <1>1 DEF LeftAfterFinish
  <2> HIDE DEF left
  <2>3. \A c \in Clients : at[c] = q => \A p \in Packages : <<p, "running">> \notin left[c]
    BY <1>2, <2>1
  <2>4. \A c \in Clients : left[c] \subseteq flushed[c] /\ (at[c] # q => left[c] = flushed[c])
    BY <2>1
  <2> QED
    BY <2>2, <2>3, <2>4 DEF LeftRight, left
<1> QED
  BY <1>3, <1>4

(* A broadcast lets waiters check the owner again. *)
LEMMA BroadcastFacts ==
  ASSUME CInv, NEW q, pc' = pc \/ pc' = AfterBroadcast(q), NEW c \in Clients
  PROVE  /\ pc' \in [Clients -> ClientStates]
         /\ pc'[c] = pc[c] \/ (pc[c] = "waitOwner" /\ pc'[c] = "checkOwner")
  BY DEF AfterBroadcast, CInv, ClientTypes, ClientStates

(* After the step of the thread of q, c is where it was. *)
Stays(c) ==
  /\ pc'[c] = pc[c] \/ (pc[c] = "waitOwner" /\ pc'[c] = "checkOwner")
  /\ UNCHANGED <<removing, at, closing, dirty, sem, calls>>

LEMMA StaysShutdownOK ==
  ASSUME CInv, NEW c \in Clients, Stays(c),
         \A r \in Queues : InQueue(r)' \subseteq InQueue(r),
         \A r \in Queues : worker[r] = "destroyed" => worker'[r] = "destroyed",
         \A r \in Queues : Clean(c, r) => Clean(c, r)'
  PROVE  ShutdownOK(c)'
<1>1. /\ removing' = removing /\ at' = at /\ closing' = closing /\ dirty' = dirty
      /\ pc'[c] \in Flushing \cup {"removed", "waitOwner", "checkOwner"} <=>
         pc[c] \in Flushing \cup {"removed", "waitOwner", "checkOwner"}
      /\ pc'[c] \in Flushing <=> pc[c] \in Flushing
      /\ pc'[c] = "idle" <=> pc[c] = "idle"
      /\ pc'[c] \in {"idle", "closing", "destroyed"} <=> pc[c] \in {"idle", "closing", "destroyed"}
      /\ pc'[c] = "removing" <=> pc[c] = "removing"
  BY DEF Stays, Flushing
<1>2. ShutdownOK(c) /\ at[c] \in Queues \cup {None} /\ OwnedBy(c)' = OwnedBy(c)
  BY DEF CInv, ClientTypes, OwnedBy
<1>3. \A r \in Queues \ dirty'[c] : Clean(c, r)'
  BY <1>1, <1>2 DEF ShutdownOK
<1>4. \A r \in Queues \ dirty'[c] : c \in closing' \/ worker'[r] = "destroyed"
  BY <1>1, <1>2 DEF ShutdownOK
<1>5. ASSUME c \in closing, pc[c] \in Flushing \cup {"removed", "waitOwner", "checkOwner"}
      PROVE  OwnedBy(c) \cap InQueue(at[c])' = {}
  <2>1. at[c] \in Queues /\ OwnedBy(c) \cap InQueue(at[c]) = {}
    BY <1>2, <1>5 DEF ShutdownOK, Flushing
  <2>2. PICK r \in Queues : r = at[c]
    BY <2>1
  <2>3. InQueue(r)' \subseteq InQueue(r)
    OBVIOUS
  <2> QED
    BY <1>1, <2>1, <2>2, <2>3 DEF InQueue
<1>6. pc'[c] = "removing" => removing'[at'[c]] = OwnedBy(c)
  BY <1>1, <1>2 DEF ShutdownOK
<1>7. at'[c] = None <=> pc'[c] \in {"idle", "closing", "destroyed"}
  BY <1>1, <1>2 DEF ShutdownOK
<1>8. /\ pc'[c] = "idle" => c \notin closing'
      /\ pc'[c] \notin {"idle"} \cup Flushing => c \in closing'
  BY <1>1, <1>2 DEF ShutdownOK
<1> QED
  BY <1>1, <1>2, <1>3, <1>4, <1>5, <1>6, <1>7, <1>8 DEF ShutdownOK

LEMMA LetGoKeepsCInv ==
  ASSUME IInv, CInv, NEW q \in Queues, NEW left, LeftRight(q, left),
         worker[q] \notin {"destructor", "destroyed"},
         NEW w \in {"out", "waiting"}, worker' = [worker EXCEPT ![q] = w],
         queue' = queue, current' = [current EXCEPT ![q] = None],
         currentOwner' = [currentOwner EXCEPT ![q] = None], flushed' = left,
         pc' = pc \/ pc' = AfterBroadcast(q),
         UNCHANGED <<removing, at, closing, dirty, sem, calls>>
  PROVE  CInv'
<1>1. /\ worker'[q] = w /\ \A r \in Queues : r # q => worker'[r] = worker[r]
      /\ current'[q] = None /\ \A r \in Queues : r # q => current'[r] = current[r]
      /\ \A r \in Queues : r # q => currentOwner'[r] = currentOwner[r]
      /\ \A r \in Queues : InQueue(r)' = InQueue(r)
  BY DEF IInv, Types, CInv, ClientTypes, InQueue
<1>2. ~HasPackage(q)' /\ \A r \in Queues : r # q => (HasPackage(r)' <=> HasPackage(r))
  BY <1>1 DEF HasPackage
<1>3. ClientTypes'
  <2>1. pc' \in [Clients -> ClientStates]
    BY DEF AfterBroadcast, CInv, ClientTypes, ClientStates
  <2> QED
    BY <2>1 DEF CInv, ClientTypes, LeftRight
<1>4. ASSUME NEW r \in Queues PROVE QueueOK(r)'
  <2>1. CASE r = q
    BY <1>1, <1>2, <2>1 DEF QueueOK, CInv
  <2>2. CASE r # q
    <3>1. HasPackage(r)' <=> HasPackage(r)
      BY <1>2, <2>2
    <3> QED
      BY <1>1, <2>2, <3>1, QueueKeeps
  <2> QED
    BY <2>1, <2>2
<1>5. ASSUME NEW c \in Clients PROVE PackageOK(c)' /\ PromiseOK(c)' /\ ShutdownOK(c)'
  <2>1. pc'[c] = pc[c] \/ (pc[c] = "waitOwner" /\ pc'[c] = "checkOwner")
    BY BroadcastFacts
  <2>2. PackageOK(c) /\ PromiseOK(c) /\ at[c] \in Queues \cup {None}
    BY DEF CInv, ClientTypes
  <2>3. /\ pc'[c] = "flushWait" <=> pc[c] = "flushWait"
        /\ pc'[c] \in Flushing <=> pc[c] \in Flushing
    BY <2>1 DEF Flushing
  <2>4. PackageOK(c)'
    BY <1>1, <2>2, <2>3 DEF PackageOK
  <2>5. PromiseOK(c)'
    <3>1. flushed'[c] # {} => pc'[c] = "flushWait" /\ sem'[c] = 0
      BY <2>2, <2>3 DEF PromiseOK, LeftRight
    <3>2. \A p \in Packages : <<p, "queued">> \in flushed'[c] => Before(queue'[at'[c]], p, c)
      BY <2>2 DEF PromiseOK, LeftRight
    <3>3. ASSUME NEW p \in Packages, <<p, "running">> \in flushed'[c]
          PROVE  HasPackage(at[c])' /\ current'[at'[c]] = p /\ p # c
      <4>1. at[c] # q /\ <<p, "running">> \in flushed[c]
        BY <3>3 DEF LeftRight
      <4>2. HasPackage(at[c]) /\ current[at[c]] = p /\ p # c /\ pc[c] = "flushWait"
        BY <2>2, <4>1 DEF PromiseOK
      <4>3. at[c] \in Queues
        BY <4>2 DEF CInv, ClientTypes, ShutdownOK
      <4> QED
        BY <1>1, <4>1, <4>2, <4>3 DEF HasPackage
    <3>4. ASSUME c \in closing, pc'[c] \in Flushing, HasPackage(at[c])',
                 current'[at'[c]] \in OwnedBy(c)
          PROVE  <<current'[at'[c]], "running">> \in flushed'[c]
      <4>1. at[c] \in Queues
        BY <2>3, <3>4 DEF CInv, ClientTypes, ShutdownOK, Flushing
      <4>2. at[c] # q
        BY <1>1, <3>4 DEF HasPackage
      <4>3. HasPackage(at[c]) /\ current'[at'[c]] = current[at[c]]
        BY <1>1, <3>4, <4>1, <4>2 DEF HasPackage
      <4> QED
        BY <2>2, <2>3, <3>4, <4>2, <4>3 DEF PromiseOK, LeftRight
    <3>5. OwnedBy(c)' = OwnedBy(c) /\ closing' = closing
      BY DEF OwnedBy
    <3> QED
      BY <3>1, <3>2, <3>3, <3>4, <3>5 DEF PromiseOK
  <2>6. ShutdownOK(c)'
    <3>1. ASSUME NEW r \in Queues, Clean(c, r) PROVE Clean(c, r)'
      <4>1. OwnedBy(c)' = OwnedBy(c)
        BY DEF OwnedBy
      <4>2. HasPackage(r)' => current'[r] \notin OwnedBy(c)
        BY <1>1, <1>2, <3>1 DEF Clean
      <4> QED
        BY <1>1, <3>1, <4>1, <4>2 DEF Clean
    <3>2. Stays(c)
      BY <2>1 DEF Stays
    <3>3. \A r \in Queues : worker[r] = "destroyed" => worker'[r] = "destroyed"
      BY <1>1
    <3>4. \A r \in Queues : InQueue(r)' \subseteq InQueue(r)
      BY <1>1
    <3> QED
      BY <3>1, <3>2, <3>3, <3>4, StaysShutdownOK
  <2> QED
    BY <2>4, <2>5, <2>6
<1> QED
  BY <1>3, <1>4, <1>5 DEF CInv
(* The package at the head may be that of a flush, or one that a flush     *)
(* waits for.                                                              *)
LEMMA FetchKeepsCInv ==
  ASSUME IInv, CInv, NEW q \in Queues, NEW s, NEW left, LeftRight(q, left), Fetch(q, s, left),
         ~HasPackage(q) \/ worker[q] = "executed", MutexFree(q),
         worker[q] # "destructor",
         UNCHANGED <<removing, at, closing, dirty, sem, calls>>
  PROVE  CInv'
<1>1. queue[q] \in Seq(Packages) /\ queue[q] # <<>> /\ Distinct(queue[q])
  BY DEF IInv, Types, Places, Fetch
<1>2. PICK p \in Packages : p = Head(queue[q])
  BY <1>1, TailElements
<1>3. p \in Elements(queue[q]) /\ Elements(Tail(queue[q])) = Elements(queue[q]) \ {p}
  BY <1>1, <1>2, TailElements
<1>4. /\ queue' = [queue EXCEPT ![q] = Tail(queue[q])]
      /\ current' = [current EXCEPT ![q] = p]
      /\ currentOwner' = [currentOwner EXCEPT ![q] = Owner(q, p)]
      /\ worker' = [worker EXCEPT ![q] = "fetched"]
      /\ flushed' = [c \in Clients |-> IF at[c] = q /\ <<p, "queued">> \in left[c]
                                       THEN (left[c] \ {<<p, "queued">>}) \cup {<<p, "running">>}
                                       ELSE left[c]]
      /\ pc' = AfterBroadcast(q)
  BY <1>2 DEF Fetch
<1>5. /\ worker'[q] = "fetched" /\ \A r \in Queues : r # q => worker'[r] = worker[r]
      /\ current'[q] = p /\ \A r \in Queues : r # q => current'[r] = current[r]
      /\ currentOwner'[q] = Owner(q, p) /\ \A r \in Queues : r # q => currentOwner'[r] = currentOwner[r]
      /\ queue'[q] = Tail(queue[q]) /\ \A r \in Queues : r # q => queue'[r] = queue[r]
  BY <1>4 DEF IInv, Types, CInv, ClientTypes
<1>6. /\ InQueue(q)' = InQueue(q) \ {p} /\ p \in InQueue(q)
      /\ \A r \in Queues : r # q => InQueue(r)' = InQueue(r)
  <2>1. queue'[q] = Tail(queue[q]) /\ \A r \in Queues : r # q => queue'[r] = queue[r]
    BY <1>5
  <2> QED
    BY <1>3, <2>1 DEF InQueue, Elements
<1>7. HasPackage(q)' /\ \A r \in Queues : r # q => (HasPackage(r)' <=> HasPackage(r))
  BY <1>5 DEF HasPackage
<1>8. ClientTypes'
  <2>1. pc' \in [Clients -> ClientStates]
    BY <1>4 DEF AfterBroadcast, CInv, ClientTypes, ClientStates
  <2>2. Owner(q, p) \in Clients \cup Queues
    <3>1. p \in Clients \/ p \in Static \cup Dynamic
      BY DEF Packages
    <3> QED
      BY <3>1, ConstantsAssumption DEF Owner
  <2>3. currentOwner' \in [Queues -> Clients \cup Queues \cup {None}]
    BY <1>4, <2>2 DEF CInv, ClientTypes
  <2>4. flushed' \in [Clients -> SUBSET (Packages \X {"queued", "running"})]
    BY <1>4 DEF LeftRight
  <2> QED
    BY <2>1, <2>3, <2>4 DEF CInv, ClientTypes
<1>9. ASSUME NEW r \in Queues PROVE QueueOK(r)'
  <2>1. CASE r = q
    <3>1. QueueOK(q) /\ Owner(q, current[q])' = Owner(q, current'[q])
      BY DEF CInv, Owner
    <3>2. \A c \in Clients : at'[c] = q => removing'[q] \cap Clients = {}
      BY <3>1 DEF QueueOK
    <3> QED
      BY <1>5, <2>1, <3>1, <3>2 DEF QueueOK
  <2>2. CASE r # q
    <3>1. HasPackage(r)' <=> HasPackage(r)
      BY <1>7, <2>2
    <3> QED
      BY <1>5, <2>2, <3>1, QueueKeeps
  <2> QED
    BY <2>1, <2>2
<1>10. ASSUME NEW c \in Clients PROVE PackageOK(c)' /\ PromiseOK(c)' /\ ShutdownOK(c)'
  <2>1. pc'[c] = pc[c] \/ (pc[c] = "waitOwner" /\ pc'[c] = "checkOwner")
    BY <1>4, BroadcastFacts
  <2>2. PackageOK(c) /\ PromiseOK(c) /\ ShutdownOK(c) /\ at[c] \in Queues \cup {None}
    BY DEF CInv, ClientTypes
  <2>3. /\ pc'[c] = "flushWait" <=> pc[c] = "flushWait"
        /\ pc'[c] \in Flushing <=> pc[c] \in Flushing
        /\ at' = at /\ sem' = sem /\ closing' = closing
    BY <2>1 DEF Flushing
  <2>4. pc[c] \in Flushing => at[c] \in Queues
    BY <2>2 DEF ShutdownOK, Flushing
  <2>5. PackageOK(c)'
    <3>1. \A r \in Queues : c \in InQueue(r)' => pc'[c] = "flushWait" /\ at'[c] = r /\ sem'[c] = 0
      BY <1>6, <2>2, <2>3 DEF PackageOK
    <3>2. \A r \in Queues : worker'[r] \in {"fetched", "executing"} /\ current'[r] = c =>
            pc'[c] = "flushWait" /\ at'[c] = r /\ sem'[c] = 0
      BY <1>5, <1>6, <2>2, <2>3 DEF PackageOK
    <3>3. \A r \in Queues : worker'[r] = "inPost" /\ current'[r] = c =>
            pc'[c] \in Flushing /\ at'[c] = r
      BY <1>5, <2>2, <2>3 DEF PackageOK
    <3> QED
      BY <3>1, <3>2, <3>3 DEF PackageOK
  <2>6. flushed'[c] = IF at[c] = q /\ <<p, "queued">> \in left[c]
                      THEN (left[c] \ {<<p, "queued">>}) \cup {<<p, "running">>} ELSE left[c]
    BY <1>4
  <2>7. /\ left[c] \subseteq flushed[c] /\ (at[c] # q => left[c] = flushed[c])
        /\ at[c] = q => \A a \in Packages : <<a, "running">> \notin left[c]
    BY DEF LeftRight
  <2>8. PromiseOK(c)'
    <3>1. flushed'[c] # {} => pc'[c] = "flushWait" /\ sem'[c] = 0
      <4>1. flushed'[c] # {} => flushed[c] # {}
        BY <2>6, <2>7
      <4> QED
        BY <2>2, <2>3, <4>1 DEF PromiseOK
    <3>2. ASSUME NEW a \in Packages, <<a, "queued">> \in flushed'[c]
          PROVE  Before(queue'[at'[c]], a, c)
      <4>1. <<a, "queued">> \in flushed[c]
        BY <2>6, <2>7, <3>2
      <4>2. Before(queue[at[c]], a, c) /\ at[c] \in Queues
        BY <2>2, <2>4, <4>1 DEF PromiseOK, Flushing
      <4>3. CASE at[c] = q
        <5>1. a # Head(queue[q])
          BY <1>2, <2>6, <3>2, <4>3
        <5>2. Before(Tail(queue[q]), a, c)
          BY <1>1, <4>2, <4>3, <5>1, BeforeTail
        <5> QED
          BY <1>5, <2>3, <4>3, <5>2
      <4>4. CASE at[c] # q
        BY <1>5, <2>3, <4>2, <4>4
      <4> QED
        BY <4>3, <4>4
    <3>3. ASSUME NEW a \in Packages, <<a, "running">> \in flushed'[c]
          PROVE  HasPackage(at[c])' /\ current'[at'[c]] = a /\ a # c
      <4>1. CASE at[c] = q
        <5>1. a = p /\ <<p, "queued">> \in left[c]
          BY <2>6, <2>7, <3>3, <4>1
        <5>2. Before(queue[q], p, c)
          BY <2>2, <2>7, <4>1, <5>1 DEF PromiseOK
        <5>3. p # c
          BY <1>1, <5>2, BeforeDiffers
        <5>4. HasPackage(at[c])'
          BY <1>5, <2>3, <4>1 DEF HasPackage
        <5> QED
          BY <1>5, <2>3, <4>1, <5>1, <5>3, <5>4
      <4>2. CASE at[c] # q
        <5>1. <<a, "running">> \in flushed[c]
          BY <2>6, <2>7, <3>3, <4>2
        <5>2. HasPackage(at[c]) /\ current[at[c]] = a /\ a # c /\ pc[c] = "flushWait"
          BY <2>2, <5>1 DEF PromiseOK
        <5>3. at[c] \in Queues
          BY <2>4, <5>2 DEF Flushing
        <5> QED
          BY <1>5, <2>3, <4>2, <5>2, <5>3 DEF HasPackage
      <4> QED
        BY <4>1, <4>2
    <3>4. ASSUME c \in closing, pc'[c] \in Flushing, HasPackage(at[c])',
                 current'[at'[c]] \in OwnedBy(c)
          PROVE  <<current'[at'[c]], "running">> \in flushed'[c]
      <4>1. at[c] \in Queues
        BY <2>3, <2>4, <3>4
      <4>2. CASE at[c] = q
        <5>1. p \notin OwnedBy(c)
          BY <1>6, <2>2, <2>3, <3>4, <4>2 DEF ShutdownOK
        <5> QED
          BY <1>5, <2>3, <3>4, <4>2, <5>1
      <4>3. CASE at[c] # q
        <5>1. HasPackage(at[c]) /\ current'[at'[c]] = current[at[c]]
          BY <1>5, <2>3, <3>4, <4>1, <4>3 DEF HasPackage
        <5> QED
          BY <2>2, <2>3, <2>6, <2>7, <3>4, <4>3, <5>1 DEF PromiseOK
      <4> QED
        BY <4>2, <4>3
    <3>5. OwnedBy(c)' = OwnedBy(c)
      BY DEF OwnedBy
    <3> QED
      BY <2>3, <3>1, <3>2, <3>3, <3>4, <3>5 DEF PromiseOK
  <2>9. ShutdownOK(c)'
    <3>1. ASSUME NEW r \in Queues, Clean(c, r) PROVE Clean(c, r)'
      <4>1. OwnedBy(c)' = OwnedBy(c)
        BY DEF OwnedBy
      <4>2. CASE r = q
        <5>1. p \notin OwnedBy(c) /\ OwnedBy(c) \cap InQueue(q)' = {}
          BY <1>6, <3>1, <4>2 DEF Clean
        <5> QED
          BY <1>5, <4>1, <4>2, <5>1 DEF Clean
      <4>3. CASE r # q
        <5>1. HasPackage(r)' => current'[r] \notin OwnedBy(c)
          BY <1>5, <1>7, <3>1, <4>3 DEF Clean
        <5>2. OwnedBy(c) \cap InQueue(r)' = {}
          BY <1>6, <3>1, <4>3 DEF Clean
        <5> QED
          BY <4>1, <5>1, <5>2 DEF Clean
      <4> QED
        BY <4>2, <4>3
    <3>2. Stays(c)
      BY <2>1 DEF Stays
    <3>3. \A r \in Queues : worker[r] = "destroyed" => worker'[r] = "destroyed"
      BY <1>5 DEF MutexFree
    <3>4. \A r \in Queues : InQueue(r)' \subseteq InQueue(r)
      BY <1>6
    <3> QED
      BY <3>1, <3>2, <3>3, <3>4, StaysShutdownOK
  <2> QED
    BY <2>5, <2>8, <2>9
<1> QED
  BY <1>8, <1>9, <1>10 DEF CInv

LEMMA LoopTopKeepsCInv ==
  ASSUME IInv, CInv, NEW q \in Queues, NEW s, NEW left, LeftRight(q, left), LoopTop(q, s, left),
         worker[q] \in {"out", "woken", "executed"}
  PROVE  CInv'
<1>1. /\ MutexFree(q) /\ UNCHANGED <<removing, at, closing, dirty, sem, calls>>
      /\ StopWorking(q, s, left) \/ WaitForWork(q, s, left) \/ Fetch(q, s, left)
  BY DEF LoopTop
<1>2. CASE StopWorking(q, s, left) \/ WaitForWork(q, s, left)
  <2>1. PICK w \in {"out", "waiting"} :
          /\ worker' = [worker EXCEPT ![q] = w]
          /\ queue' = queue /\ current' = [current EXCEPT ![q] = None]
          /\ currentOwner' = [currentOwner EXCEPT ![q] = None] /\ flushed' = left
          /\ pc' = pc \/ pc' = AfterBroadcast(q)
    BY <1>2 DEF StopWorking, WaitForWork
  <2> QED
    BY <1>1, <2>1, LetGoKeepsCInv
<1>3. CASE Fetch(q, s, left)
  <2>1. ~HasPackage(q) \/ worker[q] = "executed"
    BY DEF HasPackage
  <2> QED
    BY <1>1, <1>3, <2>1, FetchKeepsCInv
<1> QED
  BY <1>1, <1>2, <1>3

LEMMA WorkerStepKeepsCInv ==
  ASSUME IInv, CInv, NEW q \in Queues,
         WorkerStep(q) \/ FunctorThrows(q) \/ SpuriousWorkerWakeup(q)
  PROVE  CInv'
<1>1. CASE EnterWork(q) \/ WakeUp(q)
  <2>1. LoopTop(q, state, flushed) /\ worker[q] \in {"out", "woken"} /\ ~HasPackage(q)
    BY <1>1 DEF EnterWork, WakeUp, HasPackage
  <2> QED
    BY <2>1, LeftIsRight, LoopTopKeepsCInv
<1>2. CASE NextPackage(q)
  <2>1. LoopTop(q, StateAfterFinish(q), LeftAfterFinish(q)) /\ worker[q] = "executed"
    BY <1>2 DEF NextPackage
  <2> QED
    BY <2>1, LeftIsRight, LoopTopKeepsCInv
<1>3. CASE LeaveWithException(q)
  <2>1. /\ worker[q] = "threw" /\ worker' = [worker EXCEPT ![q] = "out"]
        /\ queue' = queue /\ current' = [current EXCEPT ![q] = None]
        /\ currentOwner' = [currentOwner EXCEPT ![q] = None] /\ flushed' = LeftAfterFinish(q)
        /\ pc' = pc \/ pc' = AfterBroadcast(q)
        /\ UNCHANGED <<removing, at, closing, dirty, sem, calls>>
    BY <1>3 DEF LeaveWithException
  <2> QED
    BY <2>1, LeftIsRight, LetGoKeepsCInv
<1>4. CASE Post(q)
  BY <1>4, PostKeepsCInv
<1>5. CASE StartFunctor(q) \/ FunctorReturns(q) \/ FunctorThrows(q) \/ SpuriousWorkerWakeup(q)
  BY <1>5, FunctorKeepsCInv
<1> QED
  BY <1>1, <1>2, <1>3, <1>4, <1>5 DEF WorkerStep

LEMMA QueueStepKeepsCInv ==
  ASSUME IInv, CInv, NEW q \in Queues, QueueStep(q)
  PROVE  CInv'
<1>1. ASSUME NEW p \in Static \cup Dynamic,
             Add(q, p) \/ InsertAtHeadOfList(q, p) \/ AddRefused(q, p) \/ Remove(q, p)
      PROVE  CInv'
  BY <1>1, AddKeepsCInv, RefusedKeepsCInv, RemoveKeepsCInv
<1>2. ASSUME NEW c \in Clients, NEW selection, RemoveSelected(q, selection),
             selection \subseteq OwnedBy(c)
      PROVE  CInv'
  BY <1>2, RemoveSelectedKeepsCInv
<1>3. ASSUME NEW c \in Clients, NEW p \in OwnedBy(c),
             RemoveSelected(q, {r \in OwnedBy(c) : OwnerID[r] = OwnerID[p]})
      PROVE  CInv'
  <2>1. {r \in OwnedBy(c) : OwnerID[r] = OwnerID[p]} \subseteq OwnedBy(c)
    OBVIOUS
  <2> QED
    BY <1>2, <1>3, <2>1
<1>4. CASE RequestTermination(q)
  BY <1>4, RefusedKeepsCInv
<1>5. CASE RemovalStep(q)
  BY <1>5, RemoveKeepsCInv, RemoveEndKeepsCInv DEF RemovalStep
<1>6. CASE Destroy(q)
  BY <1>6, DestroyKeepsCInv
<1>7. CASE WorkerStep(q) \/ FunctorThrows(q) \/ SpuriousWorkerWakeup(q)
  BY <1>7, WorkerStepKeepsCInv
<1> QED
  BY <1>1, <1>2, <1>3, <1>4, <1>5, <1>6, <1>7 DEF QueueStep
-----------------------------------------------------------------------------
(* The steps of the clients *)

LEMMA ClientFrame ==
  ASSUME IInv, CInv, NEW c \in Clients, UNCHANGED <<queue, current, currentOwner, worker, removing>>,
         \A d \in Clients : d # c => Rests(d), at'[c] = at[c] \/ at'[c] = None
  PROVE  /\ \A r \in Queues : QueueOK(r)'
         /\ \A d \in Clients : d # c => Keeps(d)
<1>1. \A r \in Queues : HasPackage(r)' <=> HasPackage(r)
  BY DEF HasPackage
<1>2. \A r \in Queues : InQueue(r)' = InQueue(r)
  BY DEF InQueue
<1>3. ASSUME NEW r \in Queues PROVE QueueOK(r)'
  <2>1. \A d \in Clients : at'[d] = r => at[d] = r \/ removing[r] = {}
    BY ConstantsAssumption DEF Rests
  <2>2. HasPackage(r)' <=> HasPackage(r)
    BY <1>1
  <2> QED
    BY <2>1, <2>2, QueueKeeps
<1>4. ASSUME NEW d \in Clients, d # c PROVE Keeps(d)
  <2>1. Rests(d)
    BY <1>4
  <2> QED
    BY <1>1, <1>2, <2>1 DEF Keeps, Rests
<1> QED
  BY <1>3, <1>4

LEMMA OutsideFlush ==
  ASSUME IInv, CInv, NEW c \in Clients, UNCHANGED <<queue, current, worker>>,
         pc[c] \notin Flushing \/ (pc[c] = "flushSync" /\ ~HoldsFlushMutex(at[c])),
         pc'[c] \notin Flushing, flushed'[c] \subseteq flushed[c]
  PROVE  PackageOK(c)' /\ PromiseOK(c)' /\ flushed[c] = {}
<1>1. PackageOK(c) /\ PromiseOK(c)
  BY DEF CInv
<1>2. flushed[c] = {} /\ flushed'[c] = {}
  BY <1>1 DEF PromiseOK, Flushing
<1>3. \A q \in Queues : InQueue(q)' = InQueue(q)
  BY DEF InQueue
<1>4. PackageOK(c)'
  <2>1. \A q \in Queues : c \notin InQueue(q)'
    BY <1>1, <1>3 DEF PackageOK, Flushing
  <2>2. \A q \in Queues : ~(worker'[q] \in {"fetched", "executing"} /\ current'[q] = c)
    BY <1>1 DEF PackageOK, Flushing
  <2>3. \A q \in Queues : ~(worker'[q] = "inPost" /\ current'[q] = c)
    BY <1>1 DEF PackageOK, HoldsFlushMutex
  <2> QED
    BY <2>1, <2>2, <2>3 DEF PackageOK
<1>5. PromiseOK(c)'
  BY <1>2 DEF PromiseOK
<1> QED
  BY <1>2, <1>4, <1>5

(* Cleaned: what the flush has waited for, or that another owner's package *)
(* is executed, is enough.                                                 *)
LEMMA CleanedIsClean ==
  ASSUME IInv, CInv, NEW c \in Clients, NEW from \in SUBSET {"flushSync", "removed", "checkOwner"},
         Cleaned(c, from), UNCHANGED <<queue, current, currentOwner, worker, removing, closing>>,
         \/ from = {"flushSync"} /\ flushed[c] = {}
         \/ from = {"removed", "checkOwner"} /\ currentOwner[at[c]] # c
  PROVE  ShutdownOK(c)' /\ pc'[c] \in {"idle", "closing"}
<1>1. /\ pc[c] \in from
      /\ pc'[c] = IF c \in closing THEN "closing" ELSE "idle"
      /\ dirty'[c] = IF c \in closing THEN dirty[c] \ {at[c]} ELSE dirty[c]
      /\ at'[c] = None /\ closing' = closing
  BY DEF Cleaned, CInv, ClientTypes
<1>2. ShutdownOK(c) /\ PromiseOK(c) /\ at[c] \in Queues \cup {None}
  BY DEF CInv, ClientTypes
<1>3. at[c] \in Queues
  BY <1>1, <1>2 DEF ShutdownOK
<1>4. PICK q \in Queues : q = at[c]
  BY <1>3
<1>5. c \in closing => Clean(c, q)
  <2> SUFFICES ASSUME c \in closing PROVE Clean(c, q)
    OBVIOUS
  <2>1. OwnedBy(c) \cap InQueue(q) = {}
    BY <1>1, <1>2, <1>4 DEF ShutdownOK, Flushing
  <2>2. ASSUME HasPackage(q), current[q] \in OwnedBy(c) PROVE FALSE
    <3>1. CASE from = {"flushSync"} /\ flushed[c] = {}
      BY <1>1, <1>2, <1>4, <2>2, <3>1 DEF PromiseOK, Flushing
    <3>2. CASE from = {"removed", "checkOwner"} /\ currentOwner[at[c]] # c
      <4>1. currentOwner[q] = Owner(q, current[q])
        BY <2>2 DEF CInv, QueueOK
      <4>2. Owner(q, current[q]) = c
        BY <2>2, ConstantsAssumption DEF Owner, OwnedBy
      <4> QED
        BY <1>4, <3>2, <4>1, <4>2
    <3> QED
      BY <3>1, <3>2
  <2> QED
    BY <2>1, <2>2 DEF Clean
<1>6. \A r \in Queues : Clean(c, r) => Clean(c, r)'
  BY DEF Clean, InQueue, OwnedBy, HasPackage
<1>7. \A r \in Queues \ dirty'[c] : Clean(c, r)'
  BY <1>1, <1>2, <1>4, <1>5, <1>6 DEF ShutdownOK
<1>8. \A r \in Queues \ dirty'[c] : c \in closing' \/ worker'[r] = "destroyed"
  BY <1>1, <1>2 DEF ShutdownOK
<1>9. pc'[c] \in {"idle", "closing"} /\ (pc'[c] = "closing" <=> c \in closing)
  BY <1>1
<1> QED
  BY <1>1, <1>7, <1>8, <1>9 DEF ShutdownOK, Flushing

LEMMA FlushWakesKeepsCInv ==
  ASSUME IInv, CInv, NEW c \in Clients, FlushWakes(c)
  PROVE  CInv'
<1>1. /\ pc[c] = "flushWait" /\ pc' = [pc EXCEPT ![c] = "flushSync"]
      /\ sem[c] > 0 /\ sem' = [sem EXCEPT ![c] = @ - 1]
      /\ UNCHANGED <<queue, current, currentOwner, worker, removing, at, closing, dirty, flushed, calls>>
  BY DEF FlushWakes, ClientMoves
<1>2. ClientTypes'
  BY <1>1 DEF CInv, ClientTypes, ClientStates
<1>3. ASSUME NEW d \in Clients, d # c PROVE Rests(d)
  BY <1>1, <1>3 DEF Rests, CInv, ClientTypes
<1>4. /\ \A r \in Queues : QueueOK(r)'
      /\ \A d \in Clients : d # c => Keeps(d)
  BY <1>1, <1>3, ClientFrame
<1>5. PackageOK(c) /\ PromiseOK(c) /\ ShutdownOK(c) /\ pc'[c] = "flushSync" /\ sem[c] # 0
  BY <1>1 DEF CInv, ClientTypes
<1>6. \A r \in Queues : InQueue(r)' = InQueue(r)
  BY <1>1 DEF InQueue
<1>7. PackageOK(c)'
  BY <1>1, <1>5, <1>6 DEF PackageOK, Flushing
<1>8. flushed[c] = {} /\ flushed'[c] = {}
  BY <1>1, <1>5 DEF PromiseOK
<1>9. PromiseOK(c)'
  BY <1>1, <1>5, <1>8 DEF PromiseOK, Flushing, HasPackage, OwnedBy
<1>10. ShutdownOK(c)'
  <2>1. \A r \in Queues : Clean(c, r) => Clean(c, r)'
    BY <1>1 DEF Clean, InQueue, OwnedBy, HasPackage
  <2>2. OwnedBy(c)' = OwnedBy(c) /\ InQueue(at[c])' = InQueue(at[c])
    BY <1>1 DEF OwnedBy, InQueue
  <2>3. \A r \in Queues \ dirty'[c] : Clean(c, r)'
    BY <1>1, <1>5, <2>1 DEF ShutdownOK
  <2>4. \A r \in Queues \ dirty'[c] : c \in closing' \/ worker'[r] = "destroyed"
    BY <1>1, <1>5 DEF ShutdownOK
  <2>5. at'[c] # None /\ pc[c] \in Flushing
    BY <1>1, <1>5 DEF ShutdownOK, Flushing
  <2> QED
    BY <1>1, <1>5, <2>2, <2>3, <2>4, <2>5 DEF ShutdownOK, Flushing
<1> QED
  BY <1>2, <1>4, <1>7, <1>9, <1>10, OneClientMoves

LEMMA CleanedKeepsCInv ==
  ASSUME IInv, CInv, NEW c \in Clients, FlushReturns(c) \/ OwnerNotExecuted(c)
  PROVE  CInv'
<1>1. /\ UNCHANGED <<queue, current, currentOwner, worker, removing, closing, sem, calls>>
      /\ flushed' = [flushed EXCEPT ![c] = {}] \/ flushed' = flushed
      /\ Cleaned(c, {"flushSync"}) \/ Cleaned(c, {"removed", "checkOwner"})
  BY DEF FlushReturns, OwnerNotExecuted
<1>2. \A d \in Clients : d # c => Rests(d)
  BY <1>1 DEF Rests, Cleaned, CInv, ClientTypes
<1>3. at'[c] = None /\ flushed'[c] \subseteq flushed[c]
  BY <1>1 DEF Cleaned, CInv, ClientTypes
<1>4. /\ \A r \in Queues : QueueOK(r)'
      /\ \A d \in Clients : d # c => Keeps(d)
  BY <1>1, <1>2, <1>3, ClientFrame
<1>5. ClientTypes'
  <2>1. flushed' \in [Clients -> SUBSET (Packages \X {"queued", "running"})]
    BY <1>1 DEF CInv, ClientTypes
  <2>2. pc' \in [Clients -> ClientStates]
    BY <1>1 DEF CInv, ClientTypes, ClientStates, Cleaned
  <2>3. at' \in [Clients -> Queues \cup {None}] /\ dirty' \in [Clients -> SUBSET Queues]
    BY <1>1 DEF CInv, ClientTypes, Cleaned
  <2> QED
    BY <1>1, <2>1, <2>2, <2>3 DEF CInv, ClientTypes
<1>6. PromiseOK(c)
  BY DEF CInv
<1>7. ShutdownOK(c)' /\ pc'[c] \in {"idle", "closing"}
  <2>1. CASE FlushReturns(c)
    <3>1. Cleaned(c, {"flushSync"}) /\ pc[c] = "flushSync"
      BY <2>1 DEF FlushReturns, Cleaned
    <3>2. flushed[c] = {}
      BY <1>6, <3>1 DEF PromiseOK
    <3> QED
      BY <1>1, <3>1, <3>2, CleanedIsClean
  <2>2. CASE OwnerNotExecuted(c)
    <3>1. Cleaned(c, {"removed", "checkOwner"}) /\ currentOwner[at[c]] # c
      BY <2>2 DEF OwnerNotExecuted
    <3> QED
      BY <1>1, <3>1, CleanedIsClean
  <2> QED
    BY <2>1, <2>2
<1>8. pc[c] \notin Flushing \/ (pc[c] = "flushSync" /\ ~HoldsFlushMutex(at[c]))
  BY DEF FlushReturns, OwnerNotExecuted, Cleaned, Flushing
<1>9. PackageOK(c)' /\ PromiseOK(c)'
  BY <1>1, <1>3, <1>7, <1>8, OutsideFlush DEF Flushing
<1> QED
  BY <1>4, <1>5, <1>7, <1>9, OneClientMoves

LEMMA RemoveOwnKeepsCInv ==
  ASSUME IInv, CInv, NEW c \in Clients, NEW q \in Queues, RemoveOwn(c, q)
  PROVE  CInv'
<1>1. /\ pc[c] = "closing" /\ pc' = [pc EXCEPT ![c] = "removing"]
      /\ MutexFree(q) /\ at' = [at EXCEPT ![c] = q]
      /\ removing' = [removing EXCEPT ![q] = OwnedBy(c)]
      /\ UNCHANGED <<queue, current, currentOwner, worker, closing, dirty, sem, flushed, calls>>
  BY DEF RemoveOwn, ClientMoves
<1>2. OwnedBy(c) \in SUBSET Packages /\ OwnedBy(c) \cap Clients = {}
  BY ConstantsAssumption DEF OwnedBy, Packages
<1>3. \A d \in Clients : d # c => Rests(d)
  BY <1>1 DEF Rests, CInv, ClientTypes
<1>4. /\ at'[c] = q /\ pc'[c] = "removing" /\ removing'[q] = OwnedBy(c)
      /\ \A d \in Clients : at'[d] = at[d] \/ (d = c /\ at'[d] = q)
  BY <1>1 DEF CInv, ClientTypes
<1>5. /\ \A r \in Queues : QueueOK(r)'
      /\ \A d \in Clients : Rests(d) => Keeps(d)
  BY <1>1, <1>2, <1>4, RemovalBegins
<1>6. ClientTypes'
  BY <1>1, <1>2 DEF CInv, ClientTypes, ClientStates
<1>7. PackageOK(c)' /\ PromiseOK(c)'
  <2>1. pc[c] \notin Flushing /\ pc'[c] \notin Flushing /\ flushed'[c] \subseteq flushed[c]
    BY <1>1, <1>4 DEF Flushing
  <2> QED
    BY <1>1, <2>1, OutsideFlush
<1>8. ShutdownOK(c)'
  <2>1. ShutdownOK(c)
    BY DEF CInv
  <2>2. c \in closing
    BY <1>1, <2>1 DEF ShutdownOK, Flushing
  <2>3. \A r \in Queues : Clean(c, r) => Clean(c, r)'
    BY <1>1 DEF Clean, InQueue, OwnedBy, HasPackage
  <2>4. \A r \in Queues \ dirty'[c] : Clean(c, r)'
    BY <1>1, <2>1, <2>3 DEF ShutdownOK
  <2>5. at'[c] # None /\ OwnedBy(c)' = OwnedBy(c)
    BY <1>4, ConstantsAssumption DEF OwnedBy
  <2> QED
    BY <1>1, <1>4, <2>2, <2>4, <2>5 DEF ShutdownOK, Flushing
<1> QED
  BY <1>3, <1>5, <1>6, <1>7, <1>8, OneClientMoves

(* The steps of c that only change where c is *)
LEMMA ShutdownKeepsCInv ==
  ASSUME IInv, CInv, NEW c \in Clients,
         WaitForOwnerChange(c) \/ EndShutdown(c) \/ BeginShutdown(c) \/ SpuriousWakeup(c)
  PROVE  CInv'
<1>1. PICK to \in {"waitOwner", "destroyed", "closing", "checkOwner"} :
        /\ pc' = [pc EXCEPT ![c] = to]
        /\ \/ pc[c] \in {"removed", "checkOwner"} /\ to = "waitOwner" /\ closing' = closing
           \/ pc[c] = "closing" /\ to = "destroyed" /\ closing' = closing
           \/ pc[c] = "idle" /\ to = "closing" /\ closing' = closing \cup {c}
           \/ pc[c] = "waitOwner" /\ to = "checkOwner" /\ closing' = closing
        /\ UNCHANGED <<queue, current, currentOwner, worker, removing, at, dirty, sem, flushed, calls>>
  BY DEF WaitForOwnerChange, EndShutdown, BeginShutdown, SpuriousWakeup, ClientMoves
<1>2. ClientTypes'
  BY <1>1 DEF CInv, ClientTypes, ClientStates
<1>3. \A d \in Clients : d # c => Rests(d)
  BY <1>1 DEF Rests, CInv, ClientTypes
<1>4. /\ \A r \in Queues : QueueOK(r)'
      /\ \A d \in Clients : d # c => Keeps(d)
  BY <1>1, <1>3, ClientFrame
<1>5. pc'[c] = to /\ (closing' = closing \/ closing' = closing \cup {c})
  BY <1>1 DEF CInv, ClientTypes
<1>6. PackageOK(c)' /\ PromiseOK(c)'
  <2>1. pc[c] \notin Flushing /\ pc'[c] \notin Flushing /\ flushed'[c] \subseteq flushed[c]
    BY <1>1, <1>5 DEF Flushing
  <2> QED
    BY <1>1, <2>1, OutsideFlush
<1>7. ShutdownOK(c)'
  <2>1. ShutdownOK(c)
    BY DEF CInv
  <2>2. c \in closing'
    BY <1>1, <2>1 DEF ShutdownOK, Flushing
  <2>3. \A r \in Queues : Clean(c, r) => Clean(c, r)'
    BY <1>1 DEF Clean, InQueue, OwnedBy, HasPackage
  <2>4. \A r \in Queues \ dirty'[c] : Clean(c, r)'
    BY <1>1, <2>1, <2>3 DEF ShutdownOK
  <2>5. to \in {"waitOwner", "checkOwner"} => OwnedBy(c) \cap InQueue(at[c]) = {}
    BY <1>1, <2>1, <2>2 DEF ShutdownOK
  <2>6. to \in {"waitOwner", "checkOwner"} <=> at[c] # None
    BY <1>1, <2>1 DEF ShutdownOK
  <2>7. OwnedBy(c)' = OwnedBy(c) /\ InQueue(at[c])' = InQueue(at[c]) /\ at' = at
    BY <1>1 DEF OwnedBy, InQueue
  <2> QED
    BY <1>5, <2>2, <2>4, <2>5, <2>6, <2>7 DEF ShutdownOK, Flushing
<1> QED
  BY <1>2, <1>4, <1>6, <1>7, OneClientMoves
-----------------------------------------------------------------------------
LEMMA InitEstablishesCInv == Init => CInv
<1> SUFFICES ASSUME Init PROVE CInv
  OBVIOUS
<1>1. ClientTypes
  BY DEF Init, ClientTypes, ClientStates
<1>2. \A q \in Queues : ~HasPackage(q) /\ worker[q] = "out" /\ removing[q] = {} /\ InQueue(q) = {}
  BY DEF Init, HasPackage, InQueue
<1>3. \A q \in Queues : QueueOK(q)
  BY <1>2 DEF QueueOK
<1>4. ASSUME NEW c \in Clients PROVE PackageOK(c) /\ PromiseOK(c) /\ ShutdownOK(c)
  <2>1. PackageOK(c)
    BY <1>2 DEF PackageOK
  <2>2. PromiseOK(c)
    BY DEF Init, PromiseOK
  <2>3. ShutdownOK(c)
    BY DEF Init, ShutdownOK, Flushing
  <2> QED
    BY <2>1, <2>2, <2>3
<1> QED
  BY <1>1, <1>3, <1>4 DEF CInv

LEMMA StepKeepsCInv == IInv /\ CInv /\ [Next]_vars => CInv'
<1> SUFFICES ASSUME IInv, CInv, [Next]_vars PROVE CInv'
  OBVIOUS
<1>1. CASE UNCHANGED vars
  <2>1. calls' \in Nat
    BY <1>1 DEF vars, CInv, ClientTypes
  <2>2. /\ UNCHANGED <<queue, current, currentOwner, removing, clientVars, flushed>>
        /\ worker' = worker
    BY <1>1 DEF vars, clientVars
  <2>3. \A q \in Queues : HasPackage(q)' <=> HasPackage(q)
    BY <2>2 DEF HasPackage
  <2> QED
    BY <2>1, <2>2, <2>3, WorkerKeepsCInv
<1>2. ASSUME NEW q \in Queues, QueueStep(q) PROVE CInv'
  BY <1>2, QueueStepKeepsCInv
<1>3. ASSUME NEW q \in Queues, NEW c \in Clients, Flush(c, q) PROVE CInv'
  BY <1>3, FlushKeepsCInv
<1>4. ASSUME NEW c \in Clients, ClientStep(c) \/ BeginShutdown(c) \/ SpuriousWakeup(c)
      PROVE  CInv'
  BY <1>4, FlushWakesKeepsCInv, CleanedKeepsCInv, RemoveOwnKeepsCInv, ShutdownKeepsCInv
     DEF ClientStep
<1> QED
  BY <1>1, <1>2, <1>3, <1>4 DEF Next

(* The inductive invariant of queues and clients *)
THEOREM ClientInvariance == Spec => [](IInv /\ CInv)
<1>1. Init => IInv /\ CInv
  BY InitEstablishesIInv, InitEstablishesCInv
<1>2. (IInv /\ CInv) /\ [Next]_vars => (IInv /\ CInv)'
  BY StepKeepsIInv, StepKeepsCInv
<1> QED
  BY <1>1, <1>2, PTL DEF Spec

(* All variables keep their types. *)
THEOREM TypeCorrect == Spec => []TypeOK
<1>1. IInv /\ CInv => TypeOK
  BY DEF IInv, Types, States, CInv, ClientTypes, TypeOK
<1> QED
  BY <1>1, ClientInvariance, PTL

(* The shutdown protocol of IWorkQueue.hpp: after Remove and                *)
(* WaitUntilCurrentWorkPackageHasBeenExecuted, or Remove and a flush,       *)
(* nothing of the owner is in the queue or executed by it, so that the      *)
(* owner may be destroyed.                                                  *)
THEOREM ShutdownLeavesNothing == Spec => []CleanedQueueIsClean
<1>1. CInv => CleanedQueueIsClean
  BY DEF CInv, ClientTypes, ShutdownOK, Clean, CleanedQueueIsClean
<1> QED
  BY <1>1, ClientInvariance, PTL

(* FlushNonDeferredWorkPackages waits for all that was in the queue or      *)
(* running when it began, and its semaphore lives until the thread of the   *)
(* queue has left Semaphore::Post.                                          *)
THEOREM FlushWaitsForAll == Spec => []FlushProtocol
<1>1. CInv => FlushProtocol
  <2> SUFFICES ASSUME CInv PROVE FlushProtocol
    OBVIOUS
  <2>1. ASSUME NEW c \in Clients, pc[c] = "flushSync" PROVE flushed[c] = {}
    BY <2>1 DEF CInv, PromiseOK
  <2>2. ASSUME NEW q \in Queues, worker[q] = "inPost"
        PROVE  pc[current[q]] \in Flushing /\ at[current[q]] = q
    <3>1. QueueOK(q)
      BY DEF CInv
    <3>2. PICK c \in Clients : c = current[q]
      BY <2>2, <3>1 DEF QueueOK
    <3>3. PackageOK(c)
      BY DEF CInv
    <3> QED
      BY <2>2, <3>2, <3>3 DEF PackageOK
  <2> QED
    BY <2>1, <2>2 DEF FlushProtocol, Flushing
<1> QED
  BY <1>1, ClientInvariance, PTL
=============================================================================
