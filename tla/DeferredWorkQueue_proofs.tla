----------------------- MODULE DeferredWorkQueue_proofs -----------------------
(***************************************************************************)
(* Proofs about DeferredWorkQueue for any packages, owners, times and any  *)
(* number of calls: the thread never oversleeps, an owner that has shut    *)
(* itself down is gone from the queue, and the queue implements            *)
(* DeferredExecutor.                                                       *)
(*                                                                         *)
(* All changes of the lists are of two kinds: a package is inserted at     *)
(* some place, or a set of packages is left out.  What these two do to     *)
(* the elements, to the first element and to the order is stated once.     *)
(*                                                                         *)
(* Proofs about SuspendableDWQ, the thread that executes such a queue,     *)
(* follow at the end.                                                      *)
(***************************************************************************)
EXTENDS DeferredWorkQueue, SuspendableDWQ, SequenceTheorems, FiniteSetTheorems, TLAPS

Distinct(s) == \A i, j \in 1 .. Len(s) : s[i] = s[j] => i = j

(* t is s with p at place k + 1. *)
Inserted(t, s, k, p) ==
  /\ Len(t) = Len(s) + 1
  /\ t[k + 1] = p
  /\ \A i \in 1 .. Len(s) : t[IF i <= k THEN i ELSE i + 1] = s[i]

(* t is s without the elements of S; f says where they were. *)
Selected(t, s, S) ==
  \E f \in [1 .. Len(t) -> 1 .. Len(s)] :
    /\ \A i, j \in 1 .. Len(t) : i < j => f[i] < f[j]
    /\ \A i \in 1 .. Len(t) : t[i] = s[f[i]] /\ t[i] \notin S
    /\ \A k \in 1 .. Len(s) : s[k] \notin S => \E i \in 1 .. Len(t) : f[i] = k

(* In the list s, sorted by the times due, the place behind k fits for t. *)
Fits(s, due, t, k) ==
  /\ k > 0 => due[s[k]] <= t
  /\ \A i \in k + 1 .. Len(s) : due[s[i]] > t

(* p comes before q in s. *)
Before(p, q, s) == \E k, l \in 1 .. Len(s) : k < l /\ s[k] = p /\ s[l] = q

Enqueued(p) == p \in Elements(queue) \cup Elements(deferred)
Executed(p) == HasPackage /\ current = p

(* The state a package has *)
Right(p, enqueued, executed) ==
  IF p \in Static
  THEN IF enqueued THEN IF executed THEN "staticExecInQ" ELSE "staticInQ"
                   ELSE IF executed THEN "staticExec" ELSE "staticNotInQ"
  ELSE IF enqueued \/ executed THEN "dynamicInQ" ELSE "dynamicNotInQ"

-----------------------------------------------------------------------------
Executing ==
  /\ HasPackage <=> current # None
  /\ HasPackage => currentOwner = Owner(current)

(* A dynamic package is not accepted again while it is executed. *)
Places ==
  /\ Distinct(queue) /\ Distinct(deferred) /\ Distinct(arrivals)
  /\ Elements(arrivals) = Elements(deferred)
  /\ HasPackage /\ Enqueued(current) => current \in Static
  /\ worker = "destroyed" => queue = <<>> /\ deferred = <<>>

Matching == \A p \in Packages : state[p] = Right(p, Enqueued(p), Executed(p))

(* The deferred packages are sorted by their times, those with equal times *)
(* by their arrival.                                                       *)
Sorted(s, a, due) ==
  \A i, j \in 1 .. Len(s) : i < j =>
    \/ due[s[i]] < due[s[j]]
    \/ due[s[i]] = due[s[j]] /\ Before(s[i], s[j], a)

(* Nothing of a client comes back once it has been removed, and its last   *)
(* package has been executed once the package of its flush is.             *)
Removed(c) == pc[c] \in {"removed", "closingWait", "closingSync", "waitOwner", "checkOwner",
                         "destroyed"}
Flushed(c) == pc[c] \in {"closingSync", "destroyed"} \/ (pc[c] = "closingWait" /\ sem[c] > 0)
Clean(c) ==
  /\ Removed(c) => \A p \in OwnedBy(c) : ~Enqueued(p)
  /\ Flushed(c) => \A p \in OwnedBy(c) : ~Executed(p)

(* The lists and the states of the packages *)
ListInv == Places /\ Matching /\ Sorted(deferred, arrivals, tp)

CleanAll == \A c \in Clients : Clean(c)

IInv ==
  /\ TypeOK
  /\ NeverOversleeps
  /\ Executing
  /\ ListInv
  /\ CleanAll

-----------------------------------------------------------------------------
(* The places that are kept, in order *)
LEMMA Enumeration ==
  ASSUME NEW n \in Nat, NEW K \in SUBSET (1 .. n)
  PROVE  LET f == [j \in 1 .. Cardinality(K) |-> CHOOSE i \in K : Cardinality(K \cap (1 .. i)) = j]
         IN  /\ Cardinality(K) \in Nat
             /\ f \in [1 .. Cardinality(K) -> K]
             /\ \A i, j \in 1 .. Cardinality(K) : i < j => f[i] < f[j]
             /\ \A k \in K : \E i \in 1 .. Cardinality(K) : f[i] = k
<1> DEFINE C == Cardinality(K)
           Up(i) == K \cap (1 .. i)
           r == [i \in K |-> Cardinality(Up(i))]
           f == [j \in 1 .. C |-> CHOOSE i \in K : Cardinality(Up(i)) = j]
<1>0. \A k \in K : k \in Int
  OBVIOUS
<1>1. IsFiniteSet(1 .. n)
  BY FS_Interval
<1>2. IsFiniteSet(K) /\ C \in Nat
  BY <1>1, FS_Subset, FS_CardinalityType
<1>3. \A i \in K : IsFiniteSet(Up(i)) /\ Cardinality(Up(i)) \in Nat /\ Cardinality(Up(i)) <= C
  BY <1>2, FS_Subset, FS_CardinalityType
<1>4. r \in [K -> 1 .. C]
  <2> SUFFICES ASSUME NEW i \in K PROVE Cardinality(Up(i)) \in 1 .. C
    OBVIOUS
  <2>1. i \in Up(i)
    OBVIOUS
  <2>2. Cardinality(Up(i)) # 0
    BY <1>3, <2>1, FS_EmptySet
  <2> QED
    BY <1>2, <1>3, <2>2
<1>5. \A i, j \in K : i < j => r[i] < r[j]
  <2> SUFFICES ASSUME NEW i \in K, NEW j \in K, i < j
               PROVE  Cardinality(Up(i)) < Cardinality(Up(j))
    OBVIOUS
  <2>1. Up(i) \in SUBSET Up(j) /\ j \in Up(j) /\ j \notin Up(i)
    OBVIOUS
  <2>2. /\ Cardinality(Up(i)) <= Cardinality(Up(j))
        /\ Cardinality(Up(j)) = Cardinality(Up(i)) => Up(j) = Up(i)
    BY <1>3, <2>1, FS_Subset
  <2> HIDE DEF Up
  <2> QED
    BY <1>3, <2>1, <2>2
<1>6. \A i, j \in K : r[i] = r[j] => i = j
  BY <1>4, <1>5
<1>7. \A j \in 1 .. C : \E i \in K : r[i] = j
  <2>1. r \in Injection(K, 1 .. C)
    BY <1>4, <1>6 DEF Injection, IsInjective
  <2>2. IsFiniteSet(1 .. C) /\ Cardinality(1 .. C) = C
    BY <1>2, FS_Interval
  <2>3. r \in Surjection(K, 1 .. C)
    BY <1>2, <2>1, <2>2, FS_Injection
  <2> QED
    BY <2>3 DEF Surjection
<1>8. \A j \in 1 .. C : f[j] \in K /\ r[f[j]] = j
  BY <1>7
<1> HIDE DEF r, f
<1>9. f \in [1 .. C -> K]
  BY <1>8 DEF f
<1>10. ASSUME NEW i \in 1 .. C, NEW j \in 1 .. C, i < j
       PROVE  f[i] < f[j]
  <2>1. f[j] \in K /\ f[i] \in K /\ r[f[i]] = i /\ r[f[j]] = j
    BY <1>8
  <2>2. f[i] \in Int /\ f[j] \in Int
    BY <1>0, <2>1
  <2>3. i \in Int /\ j \in Int
    BY <1>2
  <2>4. f[i] # f[j]
    BY <1>10, <2>1, <2>3
  <2>5. ~(f[j] < f[i])
    <3>1. f[j] < f[i] => j < i
      BY <1>5, <2>1
    <3> QED
      BY <1>10, <2>3, <3>1
  <2> QED
    BY <2>2, <2>4, <2>5
<1>11. \A k \in K : \E i \in 1 .. C : f[i] = k
  BY <1>4, <1>6, <1>8
<1> QED
  BY <1>2, <1>9, <1>10, <1>11 DEF f

(* What is left without S: the other elements, in their order *)
LEMMA WithoutSelects ==
  ASSUME NEW T, NEW s \in Seq(T), NEW S
  PROVE  Without(s, S) \in Seq(T) /\ Selected(Without(s, S), s, S)
<1> DEFINE K == Kept(s, S)
           C == Cardinality(K)
           f == [j \in 1 .. C |-> CHOOSE i \in K : Cardinality(K \cap (1 .. i)) = j]
<1>1. Len(s) \in Nat /\ K \in SUBSET (1 .. Len(s)) /\ \A i \in 1 .. Len(s) : s[i] \in T
  BY LenProperties, ElementOfSeq DEF Kept
<1>2. /\ C \in Nat
      /\ f \in [1 .. C -> K]
      /\ \A i, j \in 1 .. C : i < j => f[i] < f[j]
      /\ \A k \in K : \E i \in 1 .. C : f[i] = k
  BY <1>1, Enumeration
<1>3. PICK t : t = Without(s, S)
  OBVIOUS
<1>4. t = [j \in 1 .. C |-> s[f[j]]]
  BY <1>3 DEF Without
<1> HIDE DEF f
<1>5. \A k \in 1 .. Len(s) : k \in K <=> s[k] \notin S
  BY DEF Kept
<1> HIDE DEF K
<1>6. t \in [1 .. C -> T]
  BY <1>1, <1>2, <1>4
<1>7. t \in Seq(T)
  BY <1>2, <1>6, SeqDef
<1>8. Len(t) = C
  <2>1. DOMAIN t = 1 .. Len(t) /\ DOMAIN t = 1 .. C /\ Len(t) \in Nat
    BY <1>6, <1>7, LenProperties
  <2> QED
    BY <1>2, <2>1
<1>9. f \in [1 .. Len(t) -> 1 .. Len(s)]
  BY <1>1, <1>2, <1>8
<1>10. \A i \in 1 .. Len(t) : t[i] = s[f[i]] /\ t[i] \notin S
  BY <1>1, <1>2, <1>4, <1>5, <1>8
<1>11. \A k \in 1 .. Len(s) : s[k] \notin S => \E i \in 1 .. Len(t) : f[i] = k
  BY <1>2, <1>5, <1>8
<1>12. \A i, j \in 1 .. Len(t) : i < j => f[i] < f[j]
  BY <1>2, <1>8
<1>13. Selected(t, s, S)
  BY <1>9, <1>10, <1>11, <1>12 DEF Selected
<1> QED
  BY <1>3, <1>7, <1>13

(* Leaving elements out of a sequence *)
LEMMA SelectionFacts ==
  ASSUME NEW T, NEW s \in Seq(T), NEW t \in Seq(T), NEW S, Selected(t, s, S)
  PROVE  /\ Elements(t) = Elements(s) \ S
         /\ Distinct(s) => Distinct(t)
         /\ s # <<>> /\ Head(s) \notin S => t # <<>> /\ Head(t) = Head(s)
         /\ \A p, q : Before(p, q, s) /\ p \notin S /\ q \notin S => Before(p, q, t)
<1>1. PICK f \in [1 .. Len(t) -> 1 .. Len(s)] :
        /\ \A i, j \in 1 .. Len(t) : i < j => f[i] < f[j]
        /\ \A i \in 1 .. Len(t) : t[i] = s[f[i]] /\ t[i] \notin S
        /\ \A k \in 1 .. Len(s) : s[k] \notin S => \E i \in 1 .. Len(t) : f[i] = k
  BY DEF Selected
<1>2. Len(s) \in Nat /\ Len(t) \in Nat
  BY LenProperties
<1>3. Elements(t) = Elements(s) \ S
  <2>1. ASSUME NEW i \in 1 .. Len(t) PROVE t[i] \in Elements(s) \ S
    BY <1>1 DEF Elements
  <2>2. ASSUME NEW k \in 1 .. Len(s), s[k] \notin S PROVE s[k] \in Elements(t)
    BY <1>1, <2>2 DEF Elements
  <2> QED
    BY <2>1, <2>2 DEF Elements
<1>4. \A i, j \in 1 .. Len(t) : f[i] < f[j] => i < j
  <2> SUFFICES ASSUME NEW i \in 1 .. Len(t), NEW j \in 1 .. Len(t), ~(i < j)
               PROVE  ~(f[i] < f[j])
    OBVIOUS
  <2>1. i = j \/ j < i
    BY <1>2
  <2>2. f[i] \in Int /\ f[j] \in Int
    BY <1>2
  <2> QED
    BY <1>1, <2>1, <2>2
<1>5. ASSUME Distinct(s) PROVE Distinct(t)
  <2> SUFFICES ASSUME NEW i \in 1 .. Len(t), NEW j \in 1 .. Len(t), t[i] = t[j]
               PROVE  i = j
    BY DEF Distinct
  <2>0. f[i] \in 1 .. Len(s) /\ f[j] \in 1 .. Len(s) /\ s[f[i]] = s[f[j]]
    BY <1>1
  <2>1. f[i] = f[j] /\ f[i] \in Int
    BY <1>2, <1>5, <2>0 DEF Distinct
  <2>2. ~(i < j) /\ ~(j < i)
    BY <1>1, <2>1
  <2> QED
    BY <1>2, <2>2
<1>6. ASSUME s # <<>>, Head(s) \notin S PROVE t # <<>> /\ Head(t) = Head(s)
  <2>1. Len(s) >= 1 /\ Head(s) = s[1]
    BY <1>2, <1>6, EmptySeq
  <2>2. PICK i \in 1 .. Len(t) : f[i] = 1
    BY <1>1, <1>2, <1>6, <2>1
  <2>3. Len(t) >= 1 /\ t # <<>>
    BY <1>2, <2>2
  <2>4. f[1] \in Int /\ f[1] >= 1 /\ ~(f[1] < f[i])
    BY <1>2, <2>2, <2>3
  <2>5. i = 1
    BY <1>1, <1>2, <2>3, <2>4
  <2> QED
    BY <1>1, <2>1, <2>2, <2>3, <2>5
<1>7. ASSUME NEW p, NEW q, Before(p, q, s), p \notin S, q \notin S
      PROVE  Before(p, q, t)
  <2>1. PICK k \in 1 .. Len(s), l \in 1 .. Len(s) : k < l /\ s[k] = p /\ s[l] = q
    BY <1>7 DEF Before
  <2>2. PICK i \in 1 .. Len(t) : f[i] = k
    BY <1>1, <1>7, <2>1
  <2>3. PICK j \in 1 .. Len(t) : f[j] = l
    BY <1>1, <1>7, <2>1
  <2>4. i < j /\ t[i] = p /\ t[j] = q
    BY <1>1, <1>4, <2>1, <2>2, <2>3
  <2> QED
    BY <2>4 DEF Before
<1> QED
  BY <1>3, <1>5, <1>6, <1>7

(* The order of what is left remains. *)
LEMMA SelectionSorted ==
  ASSUME NEW T, NEW s \in Seq(T), NEW t \in Seq(T), NEW a \in Seq(T), NEW b \in Seq(T),
         NEW S, Selected(t, s, S), Selected(b, a, S), NEW due, Sorted(s, a, due)
  PROVE  Sorted(t, b, due)
<1>1. PICK f \in [1 .. Len(t) -> 1 .. Len(s)] :
        /\ \A i, j \in 1 .. Len(t) : i < j => f[i] < f[j]
        /\ \A i \in 1 .. Len(t) : t[i] = s[f[i]] /\ t[i] \notin S
  BY DEF Selected
<1>2. \A p, q : Before(p, q, a) /\ p \notin S /\ q \notin S => Before(p, q, b)
  BY SelectionFacts
<1> SUFFICES ASSUME NEW i \in 1 .. Len(t), NEW j \in 1 .. Len(t), i < j
             PROVE  \/ due[t[i]] < due[t[j]]
                    \/ due[t[i]] = due[t[j]] /\ Before(t[i], t[j], b)
  BY DEF Sorted
<1>3. \/ due[s[f[i]]] < due[s[f[j]]]
      \/ due[s[f[i]]] = due[s[f[j]]] /\ Before(s[f[i]], s[f[j]], a)
  BY <1>1 DEF Sorted
<1> QED
  BY <1>1, <1>2, <1>3

(* Fetching the first element leaves out just that one.                    *)
LEMMA TailSelects ==
  ASSUME NEW T, NEW s \in Seq(T), s # <<>>, Distinct(s)
  PROVE  /\ Tail(s) \in Seq(T) /\ Head(s) \in T /\ Head(s) \in Elements(s)
         /\ Selected(Tail(s), s, {Head(s)})
<1> DEFINE t == Tail(s)
<1>1. /\ t \in Seq(T) /\ Head(s) \in T /\ Len(t) = Len(s) - 1 /\ Len(s) \in Nat \ {0}
      /\ \A i \in 1 .. Len(t) : t[i] = s[i + 1]
  BY HeadTailProperties, EmptySeq
<1>2. Head(s) = s[1]
  OBVIOUS
<1> HIDE DEF t
<1> DEFINE f == [i \in 1 .. Len(t) |-> i + 1]
<1>3. f \in [1 .. Len(t) -> 1 .. Len(s)]
  BY <1>1
<1>4. \A i, j \in 1 .. Len(t) : i < j => f[i] < f[j]
  BY <1>1
<1>5. \A i \in 1 .. Len(t) : t[i] = s[f[i]] /\ t[i] # s[1]
  <2> SUFFICES ASSUME NEW i \in 1 .. Len(t) PROVE t[i] = s[i + 1] /\ t[i] # s[1]
    OBVIOUS
  <2>1. i + 1 \in 1 .. Len(s) /\ 1 \in 1 .. Len(s) /\ i + 1 # 1
    BY <1>1
  <2> QED
    BY <1>1, <2>1 DEF Distinct
<1>6. ASSUME NEW k \in 1 .. Len(s), s[k] # s[1] PROVE \E i \in 1 .. Len(t) : f[i] = k
  <2>1. k - 1 \in 1 .. Len(t) /\ f[k - 1] = k
    BY <1>1, <1>6
  <2> QED
    BY <2>1
<1> HIDE DEF f
<1>7. Selected(t, s, {s[1]})
  BY <1>3, <1>4, <1>5, <1>6 DEF Selected
<1>8. s[1] \in Elements(s)
  BY <1>1 DEF Elements
<1> QED
  BY <1>1, <1>2, <1>7, <1>8 DEF t

-----------------------------------------------------------------------------
(* Inserting an element *)
LEMMA InsertionFacts ==
  ASSUME NEW T, NEW s \in Seq(T), NEW t \in Seq(T), NEW k \in 0 .. Len(s), NEW p,
         Inserted(t, s, k, p)
  PROVE  /\ Elements(t) = Elements(s) \cup {p}
         /\ Distinct(s) /\ p \notin Elements(s) => Distinct(t)
         /\ k > 0 => s # <<>> /\ t # <<>> /\ Head(t) = Head(s)
         /\ \A i \in 1 .. Len(t) : i <= k => i \in 1 .. Len(s) /\ t[i] = s[i]
         /\ \A i \in 1 .. Len(t) : i > k + 1 => i - 1 \in 1 .. Len(s) /\ t[i] = s[i - 1]
<1>1. /\ Len(s) \in Nat /\ Len(t) = Len(s) + 1 /\ t[k + 1] = p
      /\ \A i \in 1 .. Len(s) : t[IF i <= k THEN i ELSE i + 1] = s[i]
  BY LenProperties DEF Inserted
<1>2. \A i \in 1 .. Len(t) : i <= k => i \in 1 .. Len(s) /\ t[i] = s[i]
  BY <1>1
<1>3. \A i \in 1 .. Len(t) : i > k + 1 => i - 1 \in 1 .. Len(s) /\ t[i] = s[i - 1]
  <2> SUFFICES ASSUME NEW i \in 1 .. Len(t), i > k + 1
               PROVE  i - 1 \in 1 .. Len(s) /\ t[i] = s[i - 1]
    OBVIOUS
  <2>1. i - 1 \in 1 .. Len(s) /\ ~(i - 1 <= k) /\ (i - 1) + 1 = i
    BY <1>1
  <2> QED
    BY <1>1, <2>1
<1>4. \A i \in 1 .. Len(t) : i <= k \/ i = k + 1 \/ i > k + 1
  BY <1>1
<1>5. Elements(t) = Elements(s) \cup {p}
  <2>1. ASSUME NEW i \in 1 .. Len(t) PROVE t[i] \in Elements(s) \cup {p}
    BY <1>1, <1>2, <1>3, <1>4 DEF Elements
  <2>2. ASSUME NEW i \in 1 .. Len(s) PROVE s[i] \in Elements(t)
    <3>1. (IF i <= k THEN i ELSE i + 1) \in 1 .. Len(t)
      BY <1>1
    <3> QED
      BY <1>1, <3>1 DEF Elements
  <2>3. p \in Elements(t)
    BY <1>1 DEF Elements
  <2> QED
    BY <2>1, <2>2, <2>3 DEF Elements
<1>6. ASSUME Distinct(s), p \notin Elements(s) PROVE Distinct(t)
  <2> SUFFICES ASSUME NEW i \in 1 .. Len(t), NEW j \in 1 .. Len(t), t[i] = t[j]
               PROVE  i = j
    BY DEF Distinct
  <2> DEFINE g(x) == IF x <= k THEN x ELSE x - 1
  <2>1. \A x \in 1 .. Len(t) : x # k + 1 => g(x) \in 1 .. Len(s) /\ t[x] = s[g(x)]
    BY <1>1, <1>2, <1>3, <1>4
  <2>2. CASE i = k + 1 \/ j = k + 1
    <3>1. \A x \in 1 .. Len(t) : x # k + 1 => t[x] # p
      BY <1>6, <2>1 DEF Elements
    <3> QED
      BY <1>1, <2>2, <3>1
  <2>3. CASE i # k + 1 /\ j # k + 1
    <3>1. g(i) = g(j)
      BY <1>6, <2>1, <2>3 DEF Distinct
    <3> QED
      BY <1>1, <2>3, <3>1
  <2> QED
    BY <2>2, <2>3
<1>7. ASSUME k > 0 PROVE s # <<>> /\ t # <<>> /\ Head(t) = Head(s)
  <2>1. Len(s) > 0 /\ 1 \in 1 .. Len(t) /\ 1 <= k
    BY <1>1, <1>7
  <2>2. s # <<>> /\ t # <<>> /\ t[1] = s[1]
    BY <1>1, <1>2, <2>1
  <2> QED
    BY <2>2
<1> QED
  BY <1>2, <1>3, <1>5, <1>6, <1>7

(* A sequence with p at the end, at the front, or between *)
LEMMA AppendInserts ==
  ASSUME NEW T, NEW s \in Seq(T), NEW p \in T
  PROVE  Append(s, p) \in Seq(T) /\ Len(s) \in 0 .. Len(s) /\ Inserted(Append(s, p), s, Len(s), p)
<1>1. /\ Append(s, p) \in Seq(T) /\ Len(Append(s, p)) = Len(s) + 1 /\ Len(s) \in Nat
      /\ \A i \in 1 .. Len(s) : Append(s, p)[i] = s[i]
      /\ Append(s, p)[Len(s) + 1] = p
  BY AppendProperties, LenProperties
<1> QED
  BY <1>1 DEF Inserted

(* The same at the front                                                   *)
LEMMA PrependInserts ==
  ASSUME NEW T, NEW s \in Seq(T), NEW p \in T
  PROVE  <<p>> \o s \in Seq(T) /\ 0 \in 0 .. Len(s) /\ Inserted(<<p>> \o s, s, 0, p)
<1>1. <<p>> \in Seq(T) /\ Len(<<p>>) = 1 /\ <<p>>[1] = p
  OBVIOUS
<1> DEFINE t == <<p>> \o s
<1>2. /\ t \in Seq(T) /\ Len(t) = 1 + Len(s) /\ Len(s) \in Nat
      /\ \A i \in 1 .. 1 + Len(s) : t[i] = IF i <= 1 THEN <<p>>[i] ELSE s[i - 1]
  BY <1>1, ConcatProperties, LenProperties
<1>3. t[1] = p
  BY <1>1, <1>2
<1> HIDE DEF t
<1>4. \A i \in 1 .. Len(s) : t[i + 1] = s[i]
  <2> SUFFICES ASSUME NEW i \in 1 .. Len(s) PROVE t[i + 1] = s[i]
    OBVIOUS
  <2>1. i + 1 \in 1 .. 1 + Len(s) /\ ~(i + 1 <= 1) /\ (i + 1) - 1 = i
    BY <1>2
  <2> QED
    BY <1>2, <2>1
<1>5. Inserted(t, s, 0, p)
  BY <1>2, <1>3, <1>4 DEF Inserted
<1> QED
  BY <1>2, <1>5 DEF t

(* The same between two elements                                           *)
LEMMA SubSeqInserts ==
  ASSUME NEW T, NEW s \in Seq(T), NEW p \in T, NEW k \in 0 .. Len(s)
  PROVE  LET t == SubSeq(s, 1, k) \o <<p>> \o SubSeq(s, k + 1, Len(s))
         IN  t \in Seq(T) /\ Inserted(t, s, k, p)
<1> DEFINE a == SubSeq(s, 1, k)
           c == SubSeq(s, k + 1, Len(s))
           b == a \o <<p>>
           t == b \o c
<1>1. Len(s) \in Nat /\ k \in Nat /\ k <= Len(s) /\ \A i \in 1 .. Len(s) : s[i] \in T
  BY LenProperties, ElementOfSeq
<1>2. a \in Seq(T) /\ Len(a) = k /\ \A i \in 1 .. k : a[i] = s[i]
  <2>1. /\ a \in Seq(T) /\ Len(a) = IF 1 <= k THEN k - 1 + 1 ELSE 0
        /\ \A i \in 1 .. k - 1 + 1 : a[i] = s[1 + i - 1]
    BY <1>1, SubSeqProperties
  <2> HIDE DEF a
  <2> QED
    BY <1>1, <2>1
<1>3. c \in Seq(T) /\ Len(c) = Len(s) - k /\ \A i \in 1 .. Len(s) - k : c[i] = s[k + i]
  <2>1. /\ c \in Seq(T)
        /\ Len(c) = IF k + 1 <= Len(s) THEN Len(s) - (k + 1) + 1 ELSE 0
        /\ \A i \in 1 .. Len(s) - (k + 1) + 1 : c[i] = s[(k + 1) + i - 1]
    BY <1>1, SubSeqProperties
  <2> HIDE DEF c
  <2>2. Len(s) - (k + 1) + 1 = Len(s) - k
    BY <1>1
  <2>3. Len(c) = Len(s) - k
    BY <1>1, <2>1
  <2>4. ASSUME NEW i \in 1 .. Len(s) - k PROVE c[i] = s[k + i]
    <3>1. (k + 1) + i - 1 = k + i
      BY <1>1
    <3> QED
      BY <2>1, <2>2, <3>1
  <2> QED
    BY <2>1, <2>3, <2>4
<1>4. <<p>> \in Seq(T) /\ Len(<<p>>) = 1 /\ <<p>>[1] = p
  OBVIOUS
<1> HIDE DEF a, c
<1>5. /\ b \in Seq(T) /\ Len(b) = k + 1
      /\ \A i \in 1 .. k + 1 : b[i] = IF i <= k THEN a[i] ELSE <<p>>[i - k]
  BY <1>1, <1>2, <1>4, ConcatProperties
<1>6. b[k + 1] = p /\ \A i \in 1 .. k : b[i] = s[i]
  BY <1>1, <1>2, <1>4, <1>5
<1> HIDE DEF b
<1>7. /\ t \in Seq(T) /\ Len(t) = Len(s) + 1
      /\ \A i \in 1 .. Len(s) + 1 : t[i] = IF i <= k + 1 THEN b[i] ELSE c[i - (k + 1)]
  <2>1. /\ t \in Seq(T) /\ Len(t) = Len(b) + Len(c)
        /\ \A i \in 1 .. Len(b) + Len(c) : t[i] = IF i <= Len(b) THEN b[i] ELSE c[i - Len(b)]
    BY <1>3, <1>5, ConcatProperties
  <2>2. Len(b) + Len(c) = Len(s) + 1 /\ Len(b) = k + 1
    BY <1>1, <1>3, <1>5
  <2> HIDE DEF t
  <2> QED
    BY <2>1, <2>2
<1> HIDE DEF t
<1>8. t[k + 1] = p
  BY <1>1, <1>6, <1>7
<1>9. ASSUME NEW i \in 1 .. Len(s) PROVE t[IF i <= k THEN i ELSE i + 1] = s[i]
  <2>1. CASE i <= k
    BY <1>1, <1>6, <1>7, <2>1
  <2>2. CASE ~(i <= k)
    <3>1. /\ i + 1 \in 1 .. Len(s) + 1 /\ ~(i + 1 <= k + 1)
          /\ (i + 1) - (k + 1) = i - k /\ i - k \in 1 .. Len(s) - k /\ k + (i - k) = i
      BY <1>1, <2>2
    <3> QED
      BY <1>3, <1>7, <2>2, <3>1
  <2> QED
    BY <2>1, <2>2
<1>10. Inserted(t, s, k, p)
  BY <1>7, <1>8, <1>9 DEF Inserted
<1> QED
  BY <1>7, <1>10 DEF t, b, a, c

(* There is a last place after which a package that is due at t fits.      *)
LEMMA LastNotLaterFits ==
  ASSUME deferred \in Seq(Deferred), tp \in [Deferred -> Times], NEW t \in Times
  PROVE  LastNotLater(t) \in 0 .. Len(deferred) /\ Fits(deferred, tp, t, LastNotLater(t))
<1> DEFINE n == Len(deferred)
           K == {i \in 1 .. n : tp[deferred[i]] <= t}
           C == Cardinality(K)
           P(k) == /\ k > 0 => tp[deferred[k]] <= t
                   /\ \A i \in k + 1 .. n : tp[deferred[i]] > t
<1>1. /\ n \in Nat /\ t \in Int
      /\ \A i \in 1 .. n : tp[deferred[i]] \in Int
  <2>1. Times \subseteq Int /\ n \in Nat /\ \A i \in 1 .. n : deferred[i] \in Deferred
    BY ConstantsAssumption, LenProperties, ElementOfSeq DEF Times
  <2> QED
    BY <2>1
<1> HIDE DEF n
<1> DEFINE f == [j \in 1 .. C |-> CHOOSE i \in K : Cardinality(K \cap (1 .. i)) = j]
<1>2. /\ C \in Nat
      /\ f \in [1 .. C -> K]
      /\ \A i, j \in 1 .. C : i < j => f[i] < f[j]
      /\ \A k \in K : \E i \in 1 .. C : f[i] = k
  <2>1. K \in SUBSET (1 .. n)
    OBVIOUS
  <2> HIDE DEF K
  <2> QED
    BY <1>1, <2>1, Enumeration
<1> HIDE DEF f
<1>3. \E k \in 0 .. n : P(k)
  <2>1. CASE C = 0
    <3>1. K = {}
      BY <1>2, <2>1
    <3>2. \A i \in 1 .. n : tp[deferred[i]] > t
      BY <1>1, <3>1
    <3>3. 0 \in 0 .. n /\ P(0)
      BY <1>1, <3>2
    <3> QED
      BY <3>3
  <2>2. CASE C # 0
    <3>1. C \in 1 .. C /\ f[C] \in K
      BY <1>2, <2>2
    <3>2. \A k \in K : k <= f[C]
      <4> SUFFICES ASSUME NEW i \in 1 .. C PROVE f[i] <= f[C]
        BY <1>2
      <4>1. i = C \/ i < C
        BY <1>2
      <4>2. \A k \in K : k \in Int
        BY <1>1
      <4>3. f[i] \in Int /\ f[C] \in Int
        BY <1>2, <3>1, <4>2
      <4> QED
        BY <1>2, <3>1, <4>1, <4>3
    <3>3. ASSUME NEW i \in f[C] + 1 .. n PROVE tp[deferred[i]] > t
      <4>1. f[C] \in 1 .. n
        BY <3>1
      <4>2. i \in 1 .. n /\ ~(i <= f[C])
        BY <1>1, <4>1
      <4>3. i \notin K
        BY <3>2, <4>2
      <4> QED
        BY <1>1, <4>2, <4>3
    <3>4. f[C] \in 0 .. n /\ P(f[C])
      BY <1>1, <3>1, <3>3
    <3> QED
      BY <3>4
  <2> QED
    BY <2>1, <2>2
<1> HIDE DEF P
<1>4. LastNotLater(t) = CHOOSE k \in 0 .. n : P(k)
  BY DEF LastNotLater, P, n
<1>5. LastNotLater(t) \in 0 .. n /\ P(LastNotLater(t))
  BY <1>3, <1>4
<1> QED
  BY <1>5 DEF P, n, Fits

(* Where Add() inserts a deferred package the list stays sorted.           *)
LEMMA InsertionSorted ==
  ASSUME NEW D, NEW s \in Seq(D), NEW u \in Seq(D), NEW a \in Seq(D), NEW p \in D,
         NEW due \in [D -> Int], NEW t \in Int, NEW k \in 0 .. Len(s),
         Inserted(u, s, k, p), Sorted(s, a, due), p \notin Elements(s), Elements(a) = Elements(s),
         Fits(s, due, t, k)
  PROVE  Sorted(u, Append(a, p), [due EXCEPT ![p] = t])
<1> DEFINE b == Append(a, p)
           new == [due EXCEPT ![p] = t]
<1>1. /\ Len(s) \in Nat /\ Len(a) \in Nat /\ Len(u) = Len(s) + 1
      /\ \A i \in 1 .. Len(s) : s[i] \in D
      /\ Len(b) = Len(a) + 1 /\ \A i \in 1 .. Len(a) : b[i] = a[i]
      /\ b[Len(a) + 1] = p
      /\ u[k + 1] = p /\ k \in Nat /\ k <= Len(s)
  BY LenProperties, ElementOfSeq, AppendProperties DEF Inserted
<1> HIDE DEF b
<1>2. /\ \A i \in 1 .. Len(u) : i <= k => i \in 1 .. Len(s) /\ u[i] = s[i]
      /\ \A i \in 1 .. Len(u) : i > k + 1 => i - 1 \in 1 .. Len(s) /\ u[i] = s[i - 1]
  BY InsertionFacts
<1>3. \A i \in 1 .. Len(s) : s[i] # p /\ new[s[i]] = due[s[i]] /\ due[s[i]] \in Int
  BY <1>1 DEF Elements
<1>4. new[p] = t
  OBVIOUS
<1> HIDE DEF new
<1>5. \A x, y : Before(x, y, a) => Before(x, y, b)
  <2> SUFFICES ASSUME NEW x, NEW y, Before(x, y, a) PROVE Before(x, y, b)
    OBVIOUS
  <2>1. PICK i \in 1 .. Len(a), j \in 1 .. Len(a) : i < j /\ a[i] = x /\ a[j] = y
    BY DEF Before
  <2>0. Len(a) \in Nat /\ Len(b) = Len(a) + 1
    BY <1>1
  <2>2. i \in 1 .. Len(b) /\ j \in 1 .. Len(b)
    BY <2>0
  <2>3. b[i] = x /\ b[j] = y
    BY <1>1, <2>1
  <2> QED
    BY <2>1, <2>2, <2>3 DEF Before
<1>6. \A i \in 1 .. Len(s) : Before(s[i], p, b)
  <2> SUFFICES ASSUME NEW i \in 1 .. Len(s) PROVE Before(s[i], p, b)
    OBVIOUS
  <2>1. PICK j \in 1 .. Len(a) : a[j] = s[i]
    BY DEF Elements
  <2>0. Len(a) \in Nat /\ Len(b) = Len(a) + 1
    BY <1>1
  <2>2. j \in 1 .. Len(b) /\ Len(a) + 1 \in 1 .. Len(b) /\ j < Len(a) + 1
    BY <2>0
  <2>3. b[j] = s[i]
    BY <1>1, <2>1
  <2> QED
    BY <1>1, <2>2, <2>3 DEF Before
<1>7. \A i, j \in 1 .. Len(s) : i < j =>
        \/ new[s[i]] < new[s[j]]
        \/ new[s[i]] = new[s[j]] /\ Before(s[i], s[j], b)
  BY <1>3, <1>5 DEF Sorted
<1>a. /\ Len(s) \in Nat /\ k \in Nat /\ k <= Len(s) /\ Len(u) = Len(s) + 1
  BY <1>1
<1>b. /\ k > 0 => due[s[k]] <= t
      /\ \A i \in k + 1 .. Len(s) : due[s[i]] > t
  BY DEF Fits
<1>8. \A i \in 1 .. k : due[s[i]] <= t
  <2> SUFFICES ASSUME NEW i \in 1 .. k PROVE due[s[i]] <= t
    OBVIOUS
  <2>1. k \in 1 .. Len(s) /\ i \in 1 .. Len(s) /\ k > 0 /\ (i = k \/ i < k)
    BY <1>a
  <2>2. due[s[k]] <= t
    BY <1>b, <2>1
  <2>3. i < k => due[s[i]] < due[s[k]] \/ due[s[i]] = due[s[k]]
    BY <2>1 DEF Sorted
  <2>4. due[s[i]] \in Int /\ due[s[k]] \in Int
    BY <1>3, <2>1
  <2> QED
    BY <2>1, <2>2, <2>3, <2>4
<1> SUFFICES ASSUME NEW i \in 1 .. Len(u), NEW j \in 1 .. Len(u), i < j
             PROVE  \/ new[u[i]] < new[u[j]]
                    \/ new[u[i]] = new[u[j]] /\ Before(u[i], u[j], b)
  BY DEF Sorted, b, new
<1>9. CASE i = k + 1
  <2>1. j > k + 1 /\ j - 1 \in k + 1 .. Len(s) /\ j - 1 \in 1 .. Len(s)
    BY <1>a, <1>9
  <2>2. u[j] = s[j - 1]
    BY <1>2, <2>1
  <2>3. new[u[j]] = due[s[j - 1]] /\ due[s[j - 1]] \in Int
    BY <1>3, <2>1, <2>2
  <2>4. due[s[j - 1]] > t
    BY <1>b, <2>1
  <2>5. new[u[i]] = t
    BY <1>1, <1>4, <1>9
  <2> QED
    BY <2>3, <2>4, <2>5
<1>10. CASE j = k + 1
  <2>1. i \in 1 .. k /\ i \in 1 .. Len(s) /\ i <= k
    BY <1>a, <1>10
  <2>2. u[i] = s[i]
    BY <1>2, <2>1
  <2>3. due[s[i]] <= t /\ Before(s[i], p, b)
    BY <1>6, <1>8, <2>1
  <2>4. new[u[i]] = due[s[i]] /\ due[s[i]] \in Int
    BY <1>3, <2>1, <2>2
  <2>5. u[j] = p /\ new[u[j]] = t
    BY <1>1, <1>4, <1>10
  <2> QED
    BY <2>2, <2>3, <2>4, <2>5
<1>11. CASE i # k + 1 /\ j # k + 1
  <2> DEFINE g(x) == IF x <= k THEN x ELSE x - 1
  <2>1. ASSUME NEW x \in 1 .. Len(u), x # k + 1
        PROVE  g(x) \in 1 .. Len(s) /\ u[x] = s[g(x)]
    <3>1. x <= k \/ x > k + 1
      BY <1>a, <2>1
    <3>2. x > k + 1 => ~(x <= k)
      BY <1>a
    <3> QED
      BY <1>2, <3>1, <3>2
  <2>2. g(i) < g(j)
    <3>1. i \in Int /\ j \in Int /\ k \in Int
      BY <1>a
    <3> QED
      BY <1>11, <3>1
  <2>3. /\ g(i) \in 1 .. Len(s) /\ u[i] = s[g(i)]
        /\ g(j) \in 1 .. Len(s) /\ u[j] = s[g(j)]
    BY <1>11, <2>1
  <2> HIDE DEF g
  <2>4. \/ new[s[g(i)]] < new[s[g(j)]]
        \/ new[s[g(i)]] = new[s[g(j)]] /\ Before(s[g(i)], s[g(j)], b)
    BY <1>7, <2>2, <2>3
  <2> QED
    BY <2>3, <2>4
<1> QED
  BY <1>9, <1>10, <1>11

-----------------------------------------------------------------------------
(* Types *)

States == {"staticNotInQ", "staticInQ", "staticExec", "staticExecInQ", "dynamicNotInQ",
           "dynamicInQ", "panic"}
WorkerStates == {"out", "waiting", "timedWaiting", "woken", "timedOut", "fetched", "executing",
                 "inPost", "executed", "threw", "destroyed"}
ClientStates == {"idle", "flushWait", "flushSync", "closing", "removed", "closingWait",
                 "closingSync", "waitOwner", "checkOwner", "destroyed"}

ListTypes ==
  /\ queue \in Seq(Packages \ Deferred) /\ deferred \in Seq(Deferred) /\ arrivals \in Seq(Deferred)
  /\ tp \in [Deferred -> Times]
  /\ state \in [Packages -> States]
WorkerTypes ==
  /\ currentOwner \in Clients \cup {"queue", None}
  /\ current \in Packages \cup {None} /\ waitsFor \in Deferred \cup {None}
  /\ terminate \in BOOLEAN
  /\ worker \in WorkerStates
ClientTypes ==
  /\ pc \in [Clients -> ClientStates]
  /\ sem \in [Clients -> Nat]
  /\ now \in Times /\ calls \in Nat

(* The type invariant in three parts                                       *)
LEMMA Types == TypeOK <=> ListTypes /\ WorkerTypes /\ ClientTypes
BY DEF TypeOK, ListTypes, WorkerTypes, ClientTypes, States, WorkerStates, ClientStates

(* The same after a step                                                   *)
LEMMA TypesPrimed == TypeOK' <=> ListTypes' /\ WorkerTypes' /\ ClientTypes'
BY DEF TypeOK, ListTypes, WorkerTypes, ClientTypes, States, WorkerStates, ClientStates

(* Release() and Finish() give states, and so does the transition into a   *)
(* list.                                                                   *)
LEMMA StateTypes ==
  /\ \A s : Released(s) \in States /\ Finished(s) \in States
  /\ state \in [Packages -> States] => \A p \in Packages : SetToInQ(p) \in [Packages -> States]
BY DEF Released, Finished, SetToInQ, States

(* Normal, deferred and flush packages differ; only flush packages have no *)
(* client as owner.                                                        *)
LEMMA PackageKinds ==
  /\ \A p \in Normal : p \in Packages /\ p \notin Deferred /\ p \notin Clients
                       /\ OwnerOf[p] \in Clients
  /\ \A p \in Deferred : p \in Packages /\ p \notin Clients /\ OwnerOf[p] \in Clients
  /\ \A c \in Clients : c \in Packages /\ c \notin Deferred /\ c \notin Static
  /\ \A c \in Clients : \A p \in OwnedBy(c) : p \in Packages /\ p \notin Clients /\ Owner(p) = c
  /\ None \notin Packages /\ None # "queue"
BY ConstantsAssumption DEF Packages, UserPackages, OwnedBy, Owner

(* A signal ends a wait, and does nothing else. *)
LEMMA SignalStep ==
  ASSUME NEW b, SignalIf(b), worker \in WorkerStates
  PROVE  /\ worker' \in WorkerStates
         /\ HasPackage' <=> HasPackage
         /\ worker' = "destroyed" <=> worker = "destroyed"
         /\ worker' \in {"fetched", "executing", "inPost"} <=>
              worker \in {"fetched", "executing", "inPost"}
         /\ Waiting' => worker' = worker /\ Waiting /\ ~b
BY DEF SignalIf, Signal, Waiting, HasPackage, WorkerStates

(* The packages in the lists *)
LEMMA ListElements ==
  ASSUME ListTypes
  PROVE  /\ \A p \in Elements(queue) : p \in Packages /\ p \notin Deferred
         /\ \A p \in Elements(deferred) : p \in Deferred /\ p \in Packages
         /\ queue # <<>> => Head(queue) \in Elements(queue)
         /\ deferred # <<>> => Head(deferred) \in Elements(deferred)
<1>1. \A i \in 1 .. Len(queue) : queue[i] \in Packages \ Deferred
  BY ElementOfSeq DEF ListTypes
<1>2. \A i \in 1 .. Len(deferred) : deferred[i] \in Deferred
  BY ElementOfSeq DEF ListTypes
<1>3. queue # <<>> => Len(queue) \in Nat \ {0} /\ Head(queue) = queue[1]
  BY EmptySeq, LenProperties DEF ListTypes
<1>4. deferred # <<>> => Len(deferred) \in Nat \ {0} /\ Head(deferred) = deferred[1]
  BY EmptySeq, LenProperties DEF ListTypes
<1> QED
  BY <1>1, <1>2, <1>3, <1>4, PackageKinds DEF Elements

(* What the methods that add and remove do to the types of the lists       *)
LEMMA RemoveAllTypes ==
  ASSUME ListTypes, NEW S, RemoveAll(S)
  PROVE  /\ queue' \in Seq(Packages \ Deferred) /\ deferred' \in Seq(Deferred)
         /\ arrivals' \in Seq(Deferred)
         /\ state' \in [Packages -> States]
<1>1. /\ queue' \in Seq(Packages \ Deferred) /\ deferred' \in Seq(Deferred)
      /\ arrivals' \in Seq(Deferred)
  BY WithoutSelects DEF RemoveAll, ListTypes
<1>2. state' \in [Packages -> States]
  BY StateTypes DEF RemoveAll, ListTypes
<1> QED
  BY <1>1, <1>2

(* Add() inserts a deferred package at the last place where it fits.       *)
LEMMA AddDeferredTypes ==
  ASSUME ListTypes, NEW p \in Deferred, NEW t \in Times, AddDeferred(p, t)
  PROVE  /\ LastNotLater(t) \in 0 .. Len(deferred)
         /\ deferred' \in Seq(Deferred) /\ Inserted(deferred', deferred, LastNotLater(t), p)
         /\ arrivals' \in Seq(Deferred) /\ Inserted(arrivals', arrivals, Len(arrivals), p)
         /\ Len(arrivals) \in 0 .. Len(arrivals)
         /\ state' \in [Packages -> States] /\ tp' \in [Deferred -> Times]
<1> DEFINE k == LastNotLater(t)
<1>1. k \in 0 .. Len(deferred)
  BY LastNotLaterFits DEF ListTypes
<1>2. deferred' = SubSeq(deferred, 1, k) \o <<p>> \o SubSeq(deferred, k + 1, Len(deferred))
  BY DEF AddDeferred
<1> HIDE DEF k
<1>3. deferred' \in Seq(Deferred) /\ Inserted(deferred', deferred, k, p)
  BY <1>1, <1>2, SubSeqInserts DEF ListTypes
<1>4. /\ arrivals' \in Seq(Deferred) /\ Inserted(arrivals', arrivals, Len(arrivals), p)
      /\ Len(arrivals) \in 0 .. Len(arrivals)
  BY AppendInserts DEF AddDeferred, ListTypes
<1>5. state' \in [Packages -> States] /\ tp' \in [Deferred -> Times]
  BY StateTypes, PackageKinds DEF AddDeferred, ListTypes
<1> QED
  BY <1>1, <1>3, <1>4, <1>5 DEF k

(* Add() and a flush insert a normal package at an end of the queue.       *)
LEMMA AddTypes ==
  ASSUME ListTypes, NEW p \in Packages \ Deferred,
         queue' \in {Append(queue, p), <<p>> \o queue}, state' = SetToInQ(p)
  PROVE  /\ queue' \in Seq(Packages \ Deferred)
         /\ \E k \in 0 .. Len(queue) : Inserted(queue', queue, k, p)
         /\ state' \in [Packages -> States]
<1>1. CASE queue' = Append(queue, p)
  BY <1>1, AppendInserts, StateTypes DEF ListTypes
<1>2. CASE queue' = <<p>> \o queue
  BY <1>2, PrependInserts, StateTypes DEF ListTypes
<1> QED
  BY <1>1, <1>2

-----------------------------------------------------------------------------
(* The decisions of Work(), without the reason why it has come to them *)
Resumes(s) == \/ worker \in {"out", "woken", "timedOut"} /\ s = state
              \/ worker = "executed" /\ s = StateAfterFinish

Decides(s) ==
  /\ Resumes(s)
  /\ \/ StopWorking(s)
     \/ WaitForWork(FALSE, s)
     \/ FirstIsDue /\ FetchDeferred(TRUE, s)
     \/ FetchNormal(FALSE, s)
  /\ UNCHANGED <<tp, sem, now, calls>>

(* However Work() comes to its decision, it is one of four.                *)
LEMMA WorkDecides ==
  ASSUME EnterWork \/ WakeUp \/ TimedOut \/ NextPackage
  PROVE  \E s : Decides(s)
<1>1. CASE EnterWork
  <2>1. Decides(state)
    BY <1>1 DEF EnterWork, LoopTop, Decide, Decides, Resumes, WaitForWork, FetchDeferred,
                FetchNormal
  <2> QED
    BY <2>1
<1>2. CASE WakeUp
  <2>1. Decides(state)
    BY <1>2 DEF WakeUp, Decide, Decides, Resumes, WaitForWork, FetchDeferred, FetchNormal
  <2> QED
    BY <2>1
<1>3. CASE TimedOut
  <2>1. Decides(state)
    BY <1>3 DEF TimedOut, Decide, Decides, Resumes, WaitForWork, FetchDeferred, FetchNormal
  <2> QED
    BY <2>1
<1>4. CASE NextPackage
  <2>1. Decides(StateAfterFinish)
    BY <1>4 DEF NextPackage, LoopTop, Decide, Decides, Resumes, WaitForWork, FetchDeferred,
                FetchNormal
  <2> QED
    BY <2>1
<1> QED
  BY <1>1, <1>2, <1>3, <1>4

(* A broadcast keeps the type.                                             *)
LEMMA BroadcastType ==
  pc \in [Clients -> ClientStates] => AfterBroadcast \in [Clients -> ClientStates]
BY DEF AfterBroadcast, ClientStates

(* Whatever Work() resumes from, the states of the packages are states.    *)
LEMMA ResumedType ==
  ASSUME ListTypes, NEW s, Resumes(s)
  PROVE  s \in [Packages -> States]
BY StateTypes DEF Resumes, StateAfterFinish, ListTypes

(* A decision of Work() keeps the types.                                   *)
LEMMA DecidesTypes ==
  ASSUME ListTypes, WorkerTypes, ClientTypes, NEW s, Decides(s)
  PROVE  ListTypes' /\ WorkerTypes' /\ ClientTypes'
<1>1. s \in [Packages -> States]
  BY ResumedType DEF Decides
<1>2. pc' \in [Clients -> ClientStates] => ClientTypes'
  BY DEF Decides, ClientTypes
<1>3. CASE StopWorking(s)
  <2>1. ListTypes'
    BY <1>1, <1>3 DEF ListTypes, StopWorking, Decides
  <2>2. WorkerTypes'
    BY <1>3 DEF WorkerTypes, StopWorking, WorkerStates
  <2>3. pc' \in [Clients -> ClientStates]
    BY <1>3, BroadcastType DEF ClientTypes, StopWorking
  <2> QED
    BY <1>2, <2>1, <2>2, <2>3
<1>4. CASE WaitForWork(FALSE, s)
  <2>1. ListTypes'
    BY <1>1, <1>4 DEF ListTypes, WaitForWork, Decides
  <2>2. waitsFor' \in Deferred \cup {None}
    BY <1>4, ListElements DEF WaitForWork
  <2>3. WorkerTypes'
    BY <1>4, <2>2 DEF WorkerTypes, WaitForWork, WorkerStates
  <2>4. pc' \in [Clients -> ClientStates]
    BY <1>4, BroadcastType DEF ClientTypes, WaitForWork
  <2> QED
    BY <1>2, <2>1, <2>3, <2>4
<1>5. ASSUME NEW p \in Packages, Fetch(p, s)
      PROVE  /\ state' \in [Packages -> States] /\ WorkerTypes'
             /\ pc' \in [Clients -> ClientStates]
  <2>1. state' \in [Packages -> States]
    BY <1>1, <1>5 DEF Fetch, States
  <2>2. Owner(p) \in Clients \cup {"queue"}
    BY PackageKinds DEF Owner, Packages, UserPackages
  <2>3. WorkerTypes'
    BY <1>5, <2>2 DEF Fetch, WorkerTypes, WorkerStates
  <2> QED
    BY <1>5, <2>1, <2>3, BroadcastType DEF Fetch, ClientTypes
<1>6. CASE FetchDeferred(TRUE, s)
  <2>1. deferred # <<>> /\ Fetch(Head(deferred), s) /\ Head(deferred) \in Packages
    BY <1>6, ListElements DEF FetchDeferred
  <2>2. deferred' \in Seq(Deferred)
    BY <1>6, HeadTailProperties DEF FetchDeferred, ListTypes
  <2>3. arrivals' \in Seq(Deferred)
    BY <1>6, WithoutSelects DEF FetchDeferred, ListTypes
  <2>4. ListTypes'
    BY <1>5, <1>6, <2>1, <2>2, <2>3 DEF ListTypes, FetchDeferred, Decides
  <2> QED
    BY <1>2, <1>5, <2>1, <2>4
<1>7. CASE FetchNormal(FALSE, s)
  <2>1. queue # <<>> /\ Fetch(Head(queue), s) /\ Head(queue) \in Packages
    BY <1>7, ListElements DEF FetchNormal
  <2>2. queue' \in Seq(Packages \ Deferred)
    BY <1>7, HeadTailProperties DEF FetchNormal, ListTypes
  <2>4. ListTypes'
    BY <1>5, <1>7, <2>1, <2>2 DEF ListTypes, FetchNormal, Decides
  <2> QED
    BY <1>2, <1>5, <2>1, <2>4
<1> QED
  BY <1>3, <1>4, <1>6, <1>7 DEF Decides

(* Each step keeps the types.                                              *)
LEMMA TypesStep ==
  ASSUME ListTypes, WorkerTypes, ClientTypes, Next
  PROVE  ListTypes' /\ WorkerTypes' /\ ClientTypes'
<1> USE DEF WorkerTypes, ClientTypes
<1>1. ASSUME NEW p \in Normal, Add(p) PROVE ListTypes' /\ WorkerTypes' /\ ClientTypes'
  <2>1. p \in Packages \ Deferred
    BY PackageKinds
  <2>2. queue' \in Seq(Packages \ Deferred) /\ state' \in [Packages -> States]
    BY <1>1, <2>1, AddTypes DEF Add
  <2>3. calls' \in Nat /\ worker' \in WorkerStates
    BY <1>1, SignalStep DEF Add, MayAdd, NewCall
  <2> QED
    BY <1>1, <2>2, <2>3 DEF Add, ListTypes, clientVars
<1>2. ASSUME NEW p \in Deferred, NEW t \in Times, AddDeferred(p, t)
      PROVE  ListTypes' /\ WorkerTypes' /\ ClientTypes'
  <2>1. calls' \in Nat /\ worker' \in WorkerStates
    BY <1>2, SignalStep DEF AddDeferred, MayAdd, NewCall, SignalIfFirst
  <2> QED
    BY <1>2, <2>1, AddDeferredTypes DEF AddDeferred, ListTypes, clientVars
<1>3. ASSUME NEW p \in Deferred, NEW t \in Times, SetTimePoint(p, t)
      PROVE  ListTypes' /\ WorkerTypes' /\ ClientTypes'
  BY <1>3 DEF SetTimePoint, NewCall, ListTypes, clientVars
<1>4. ASSUME NEW p \in UserPackages, AddRefused(p) PROVE ListTypes' /\ WorkerTypes' /\ ClientTypes'
  <2>1. calls' \in Nat /\ worker' \in WorkerStates
    BY <1>4, SignalStep DEF AddRefused, MayAdd, NewCall, SignalIfFirst
  <2> QED
    BY <1>4, <2>1 DEF AddRefused, ListTypes, clientVars
<1>5. ASSUME NEW p \in UserPackages, Remove(p) PROVE ListTypes' /\ WorkerTypes' /\ ClientTypes'
  <2>1. calls' \in Nat /\ worker' \in WorkerStates
    BY <1>5, SignalStep DEF Remove, RemoveAll, NewCall
  <2> QED
    BY <1>5, <2>1, RemoveAllTypes DEF Remove, ListTypes, clientVars
<1>6. ASSUME NEW c, NEW S, RemoveOwned(c, S) PROVE ListTypes' /\ WorkerTypes' /\ ClientTypes'
  <2>1. calls' \in Nat /\ worker' \in WorkerStates
    BY <1>6, SignalStep DEF RemoveOwned, RemoveAll, NewCall
  <2> QED
    BY <1>6, <2>1, RemoveAllTypes DEF RemoveOwned, ListTypes, clientVars
<1>7. CASE RequestTermination
  BY <1>7 DEF RequestTermination, Signal, NewCall, WorkerStates, ListTypes, clientVars
<1>8. CASE Destroy
  <2>1. state' \in [Packages -> States]
    BY <1>8, StateTypes DEF Destroy, ListTypes
  <2>2. <<>> \in Seq(Packages \ Deferred) /\ <<>> \in Seq(Deferred)
    OBVIOUS
  <2> QED
    BY <1>8, <2>1, <2>2 DEF Destroy, WorkerStates, ListTypes, clientVars
<1>9. CASE Tick
  BY <1>9, ConstantsAssumption DEF Tick, Times, ListTypes, clientVars
<1>10. CASE EnterWork \/ WakeUp \/ TimedOut \/ NextPackage
  BY <1>10, WorkDecides, DecidesTypes
<1>11. CASE LeaveWithException
  <2>1. pc' \in [Clients -> ClientStates]
    BY <1>11, BroadcastType DEF LeaveWithException
  <2>2. state' \in [Packages -> States]
    BY <1>11, StateTypes DEF LeaveWithException, StateAfterFinish, ListTypes
  <2> QED
    BY <1>11, <2>1, <2>2 DEF LeaveWithException, WorkerStates, ListTypes
<1>12. ASSUME NEW a \in WorkerStates, NEW b \in WorkerStates, WorkerMoves(a, b),
              sem' \in [Clients -> Nat]
       PROVE  ListTypes' /\ WorkerTypes' /\ ClientTypes'
  BY <1>12 DEF WorkerMoves, ListTypes
<1>13. CASE Timeout \/ StartFunctor \/ FunctorReturns \/ FunctorThrows \/ SpuriousWorkerWakeup
  BY <1>12, <1>13 DEF Timeout, StartFunctor, FunctorReturns, FunctorThrows, SpuriousWorkerWakeup,
                      WorkerStates
<1>14. CASE Post
  <2>1. sem' \in [Clients -> Nat]
    BY <1>14 DEF Post
  <2> QED
    BY <1>12, <1>14, <2>1 DEF Post, WorkerStates
<1>15. ASSUME NEW c \in Clients, NEW a, NEW b \in ClientStates, ClientMoves(c, a, b),
              sem' \in [Clients -> Nat]
       PROVE  ListTypes' /\ WorkerTypes' /\ ClientTypes'
  BY <1>15 DEF ClientMoves, ListTypes
<1>16. ASSUME NEW c \in Clients,
              \/ FlushReturns(c) \/ WaitForOwnerChange(c) \/ OwnerNotExecuted(c)
              \/ EndShutdown(c) \/ BeginShutdown(c) \/ SpuriousWakeup(c)
       PROVE  ListTypes' /\ WorkerTypes' /\ ClientTypes'
  BY <1>15, <1>16 DEF FlushReturns, WaitForOwnerChange, OwnerNotExecuted, EndShutdown,
                      BeginShutdown, SpuriousWakeup, ClientStates
<1>17. ASSUME NEW c \in Clients, FlushWakes(c) PROVE ListTypes' /\ WorkerTypes' /\ ClientTypes'
  <2>1. sem' \in [Clients -> Nat]
    BY <1>17 DEF FlushWakes
  <2> QED
    BY <1>15, <1>17, <2>1 DEF FlushWakes, ClientStates
<1>18. ASSUME NEW c \in Clients, RemoveOwn(c) PROVE ListTypes' /\ WorkerTypes' /\ ClientTypes'
  <2>1. worker' \in WorkerStates
    BY <1>18, SignalStep DEF RemoveOwn, RemoveAll
  <2>2. pc' \in [Clients -> ClientStates]
    BY <1>18 DEF RemoveOwn, ClientStates
  <2> QED
    BY <1>18, <2>1, <2>2, RemoveAllTypes DEF RemoveOwn, ListTypes
<1>19. ASSUME NEW c \in Clients, Flush(c) PROVE ListTypes' /\ WorkerTypes' /\ ClientTypes'
  <2>1. c \in Packages \ Deferred
    BY PackageKinds
  <2>2. queue' \in Seq(Packages \ Deferred) /\ state' \in [Packages -> States]
    BY <1>19, <2>1, AddTypes DEF Flush
  <2>3. calls' \in Nat /\ worker' \in WorkerStates
    BY <1>19, SignalStep DEF Flush, NewCall
  <2>4. pc' \in [Clients -> ClientStates] /\ sem' \in [Clients -> Nat]
    BY <1>19 DEF Flush, ClientStates
  <2> QED
    BY <1>19, <2>2, <2>3, <2>4 DEF Flush, ListTypes
<1> QED
  BY <1>1, <1>2, <1>3, <1>4, <1>5, <1>6, <1>7, <1>8, <1>9, <1>10, <1>11, <1>13, <1>14, <1>16,
     <1>17, <1>18, <1>19 DEF Next, WorkerStep, ClientStep

-----------------------------------------------------------------------------
(* The thread never oversleeps. *)

(* If all elements are left out, nothing is left.                          *)
LEMMA EmptySelection ==
  ASSUME NEW T, NEW s \in Seq(T), NEW S, s = <<>> \/ \A x \in Elements(s) : x \in S
  PROVE  Without(s, S) = <<>>
<1>1. Without(s, S) \in Seq(T) /\ Elements(Without(s, S)) = Elements(s) \ S
  BY WithoutSelects, SelectionFacts
<1>2. PICK t \in Seq(T) : t = Without(s, S)
  BY <1>1
<1>3. \A x \in Elements(s) : x \in S
  BY DEF Elements
<1>4. Elements(t) = {}
  BY <1>1, <1>2, <1>3
<1>5. Len(t) \in Nat /\ ~(Len(t) >= 1)
  <2>1. Len(t) \in Nat
    BY LenProperties
  <2>2. ASSUME Len(t) >= 1 PROVE FALSE
    <3>1. 1 \in 1 .. Len(t)
      BY <2>1, <2>2
    <3> QED
      BY <1>4, <3>1 DEF Elements
  <2> QED
    BY <2>1, <2>2
<1>6. t = <<>>
  BY <1>5, EmptySeq
<1> QED
  BY <1>2, <1>6

(* A removal that changes which deferred package is the first ends the     *)
(* wait.                                                                   *)
LEMMA RemoveAllSleeps ==
  ASSUME ListTypes, WorkerTypes, NeverOversleeps, NEW S, RemoveAll(S),
         UNCHANGED <<terminate, waitsFor>>
  PROVE  NeverOversleeps'
<1> SUFFICES ASSUME Waiting'
             PROVE  /\ queue' = <<>> /\ ~terminate'
                    /\ deferred' # <<>> => worker' = "timedWaiting" /\ waitsFor' = Head(deferred')
  BY DEF NeverOversleeps
<1>1. Waiting /\ worker' = worker /\ ~(deferred # <<>> /\ deferred' # <<>> /\ Head(deferred) \in S)
  BY SignalStep DEF RemoveAll, WorkerTypes
<1>2. /\ queue = <<>> /\ ~terminate
      /\ deferred # <<>> => worker = "timedWaiting" /\ waitsFor = Head(deferred)
  BY <1>1 DEF NeverOversleeps
<1>3. queue' = <<>>
  BY <1>2, EmptySelection DEF RemoveAll, ListTypes
<1>4. ASSUME deferred' # <<>> PROVE worker' = "timedWaiting" /\ waitsFor' = Head(deferred')
  <2>1. deferred # <<>> /\ Head(deferred) \notin S
    BY <1>1, <1>4, EmptySelection DEF RemoveAll, ListTypes
  <2>2. Head(deferred') = Head(deferred)
    BY <2>1, WithoutSelects, SelectionFacts DEF RemoveAll, ListTypes
  <2> QED
    BY <1>1, <1>2, <2>1, <2>2
<1> QED
  BY <1>2, <1>3, <1>4

(* Each step keeps NeverOversleeps: who changes what comes first signals.  *)
LEMMA SleepStep ==
  ASSUME ListTypes, WorkerTypes, NeverOversleeps, Next
  PROVE  NeverOversleeps'
<1>1. ASSUME NEW p, Add(p) PROVE NeverOversleeps'
  BY <1>1, SignalStep DEF Add, NeverOversleeps, WorkerTypes
<1>2. ASSUME NEW p \in Deferred, NEW t \in Times, AddDeferred(p, t) PROVE NeverOversleeps'
  <2> SUFFICES ASSUME Waiting'
               PROVE  /\ queue' = <<>> /\ ~terminate'
                      /\ worker' = "timedWaiting" /\ waitsFor' = Head(deferred')
    BY DEF NeverOversleeps
  <2>1. /\ Waiting /\ worker' = worker /\ LastNotLater(t) # 0
        /\ UNCHANGED <<queue, terminate, waitsFor>>
    BY <1>2, SignalStep DEF AddDeferred, SignalIfFirst, WorkerTypes
  <2>2. deferred # <<>> /\ Head(deferred') = Head(deferred)
    <3> DEFINE k == LastNotLater(t)
    <3>1. /\ k \in 0 .. Len(deferred) /\ deferred' \in Seq(Deferred)
          /\ Inserted(deferred', deferred, k, p)
      BY <1>2, AddDeferredTypes
    <3>2. k # 0 /\ deferred \in Seq(Deferred)
      BY <2>1 DEF ListTypes
    <3> HIDE DEF k
    <3>3. k > 0
      BY <3>1, <3>2
    <3> QED
      BY <3>1, <3>2, <3>3, InsertionFacts
  <2> QED
    BY <2>1, <2>2 DEF NeverOversleeps
<1>3. ASSUME NEW p, AddRefused(p) PROVE NeverOversleeps'
  BY <1>3, SignalStep DEF AddRefused, SignalIfFirst, NeverOversleeps, WorkerTypes
<1>4. ASSUME NEW S, RemoveAll(S), UNCHANGED <<terminate, waitsFor>> PROVE NeverOversleeps'
  BY <1>4, RemoveAllSleeps
<1>5. ASSUME NEW p \in UserPackages, Remove(p) \/ RemoveOwned(OwnerOf[p], SameID(p))
      PROVE  NeverOversleeps'
  BY <1>4, <1>5 DEF Remove, RemoveOwned
<1>6. ASSUME NEW c \in Clients, RemoveOwned(c, OwnedBy(c)) \/ RemoveOwn(c) PROVE NeverOversleeps'
  BY <1>4, <1>6 DEF RemoveOwned, RemoveOwn
<1>7. CASE RequestTermination \/ Destroy
  BY <1>7 DEF RequestTermination, Signal, Destroy, NeverOversleeps, Waiting
<1>8. CASE EnterWork \/ WakeUp \/ TimedOut \/ NextPackage
  <2>1. PICK s : Decides(s)
    BY <1>8, WorkDecides
  <2>2. CASE WaitForWork(FALSE, s)
    BY <2>2 DEF WaitForWork, NeverOversleeps
  <2>3. CASE StopWorking(s) \/ FetchDeferred(TRUE, s) \/ FetchNormal(FALSE, s)
    BY <2>3 DEF StopWorking, FetchDeferred, FetchNormal, Fetch, NeverOversleeps, Waiting
  <2> QED
    BY <2>1, <2>2, <2>3 DEF Decides
<1>9. CASE \/ LeaveWithException \/ Timeout \/ StartFunctor \/ FunctorReturns \/ Post
           \/ FunctorThrows \/ SpuriousWorkerWakeup
  BY <1>9 DEF LeaveWithException, Timeout, StartFunctor, FunctorReturns, Post, FunctorThrows,
              SpuriousWorkerWakeup, WorkerMoves, NeverOversleeps, Waiting
<1>10. ASSUME UNCHANGED <<queue, deferred, worker, terminate, waitsFor>> PROVE NeverOversleeps'
  BY <1>10 DEF NeverOversleeps, Waiting
<1>11. ASSUME NEW p, NEW t, SetTimePoint(p, t) PROVE NeverOversleeps'
  BY <1>10, <1>11 DEF SetTimePoint
<1>12. CASE Tick
  BY <1>10, <1>12 DEF Tick
<1>13. ASSUME NEW c \in Clients, Flush(c) PROVE NeverOversleeps'
  BY <1>13, SignalStep DEF Flush, NeverOversleeps, WorkerTypes
<1>14. ASSUME NEW c \in Clients,
              \/ FlushWakes(c) \/ FlushReturns(c) \/ WaitForOwnerChange(c) \/ OwnerNotExecuted(c)
              \/ EndShutdown(c) \/ BeginShutdown(c) \/ SpuriousWakeup(c)
       PROVE  NeverOversleeps'
  BY <1>10, <1>14 DEF FlushWakes, FlushReturns, WaitForOwnerChange, OwnerNotExecuted, EndShutdown,
                      BeginShutdown, SpuriousWakeup, ClientMoves
<1> QED
  BY <1>1, <1>2, <1>3, <1>5, <1>6, <1>7, <1>8, <1>9, <1>11, <1>12, <1>13, <1>14
     DEF Next, WorkerStep, ClientStep

-----------------------------------------------------------------------------
(* The lists and the states of the packages *)

(* Nothing begins or ends to be executed, the queue is not destroyed. *)
QuietWorker ==
  /\ UNCHANGED <<current, currentOwner>>
  /\ HasPackage' <=> HasPackage
  /\ worker' = "destroyed" <=> worker = "destroyed"

(* A signal begins and ends no execution.                                  *)
LEMMA SignalIsQuiet ==
  ASSUME NEW b, SignalIf(b), worker \in WorkerStates, UNCHANGED <<current, currentOwner>>
  PROVE  QuietWorker
BY SignalStep DEF QuietWorker

(* Nor do the steps of the thread between its decisions.                   *)
LEMMA MovesAreQuiet ==
  ASSUME \/ Timeout \/ StartFunctor \/ FunctorReturns \/ Post \/ FunctorThrows
         \/ SpuriousWorkerWakeup
  PROVE  QuietWorker
BY DEF QuietWorker, Timeout, StartFunctor, FunctorReturns, Post, FunctorThrows,
       SpuriousWorkerWakeup, WorkerMoves, HasPackage

(* Nor do steps that leave the thread alone.                               *)
LEMMA SameIsQuiet ==
  ASSUME UNCHANGED <<worker, current, currentOwner>>
  PROVE  QuietWorker
BY DEF QuietWorker, HasPackage

(* What is executed remains the same.                                      *)
LEMMA QuietKeepsExecuting ==
  ASSUME Executing, QuietWorker
  PROVE  Executing'
BY DEF Executing, QuietWorker, Owner

(* So do the places of the packages if the lists remain.                   *)
LEMMA QuietKeepsListInv ==
  ASSUME ListInv, QuietWorker, UNCHANGED <<queue, deferred, arrivals, tp, state>>
  PROVE  ListInv'
<1>1. \A p : (Enqueued(p)' <=> Enqueued(p)) /\ (Executed(p)' <=> Executed(p))
  BY DEF Enqueued, Executed, QuietWorker
<1>2. Places'
  BY <1>1 DEF ListInv, Places, QuietWorker, Enqueued
<1>3. Matching'
  BY <1>1 DEF ListInv, Matching, Right
<1> QED
  BY <1>2, <1>3 DEF ListInv

(* A package that is accepted is in no list, and afterwards its state says *)
(* that it is in one.                                                      *)
LEMMA AcceptedIsNotEnqueued ==
  ASSUME ListTypes, WorkerTypes, Executing, Matching, NEW p \in Packages, Accepts(p)
  PROVE  ~Enqueued(p) /\ (Executed(p) => p \in Static)
BY PackageKinds DEF Matching, Accepts, Right, Executed, Executing

(* A package that is accepted has the state of one in a list, and one that *)
(* is executed at the same time is static.                                 *)
LEMMA EnqueueMatches ==
  ASSUME ListTypes, WorkerTypes, Executing, Matching, Places, NEW p \in Packages, Accepts(p),
         state' = SetToInQ(p), QuietWorker, \A x : Enqueued(x)' <=> Enqueued(x) \/ x = p
  PROVE  /\ Matching'
         /\ (HasPackage /\ Enqueued(current) => current \in Static)'
<1>1. ~Enqueued(p) /\ (Executed(p) => p \in Static)
  BY AcceptedIsNotEnqueued
<1>2. \A x : Executed(x)' <=> Executed(x)
  BY DEF Executed, QuietWorker
<1>3. ASSUME NEW x \in Packages PROVE state'[x] = Right(x, Enqueued(x)', Executed(x)')
  <2>1. CASE x = p
    <3>1. p \in Static => (current = p <=> Executed(p))
      BY PackageKinds DEF Executed, Executing
    <3> QED
      BY <1>1, <1>2, <2>1, <3>1 DEF SetToInQ, Right, ListTypes
  <2>2. CASE x # p
    BY <1>2, <2>2 DEF SetToInQ, Right, ListTypes, Matching
  <2> QED
    BY <2>1, <2>2
<1>4. Matching'
  BY <1>3 DEF Matching
<1>5. (HasPackage /\ Enqueued(current) => current \in Static)'
  BY <1>1 DEF QuietWorker, Places, Executed
<1> QED
  BY <1>4, <1>5

(* Release() takes the state of a package that leaves its list, Finish()   *)
(* the one of a package that is no longer executed.                        *)
LEMMA ReleasedRight ==
  /\ \A p, x : (x => p \in Static) => Released(Right(p, TRUE, x)) = Right(p, FALSE, x)
  /\ \A p, e : (e => p \in Static) => Finished(Right(p, e, TRUE)) = Right(p, e, FALSE)
BY DEF Released, Finished, Right

(* The packages that are removed, and no others, leave the lists.          *)
LEMMA RemoveAllStep ==
  ASSUME ListTypes, ListInv, NEW S, RemoveAll(S), UNCHANGED tp, QuietWorker
  PROVE  /\ ListInv'
         /\ \A x : Enqueued(x)' <=> Enqueued(x) /\ x \notin S
<1>1. /\ queue' \in Seq(Packages \ Deferred) /\ Selected(queue', queue, S)
      /\ deferred' \in Seq(Deferred) /\ Selected(deferred', deferred, S)
      /\ arrivals' \in Seq(Deferred) /\ Selected(arrivals', arrivals, S)
  BY WithoutSelects DEF RemoveAll, ListTypes
<1>2. /\ Elements(queue') = Elements(queue) \ S /\ Distinct(queue')
      /\ Elements(deferred') = Elements(deferred) \ S /\ Distinct(deferred')
      /\ Elements(arrivals') = Elements(arrivals) \ S /\ Distinct(arrivals')
  <2>1. Elements(queue') = Elements(queue) \ S /\ Distinct(queue')
    BY <1>1, SelectionFacts DEF ListTypes, ListInv, Places
  <2>2. Elements(deferred') = Elements(deferred) \ S /\ Distinct(deferred')
    BY <1>1, SelectionFacts DEF ListTypes, ListInv, Places
  <2>3. Elements(arrivals') = Elements(arrivals) \ S /\ Distinct(arrivals')
    BY <1>1, SelectionFacts DEF ListTypes, ListInv, Places
  <2> QED
    BY <2>1, <2>2, <2>3
<1>3. \A x : Enqueued(x)' <=> Enqueued(x) /\ x \notin S
  BY <1>2 DEF Enqueued
<1>4. Sorted(deferred, arrivals, tp)'
  BY <1>1, SelectionSorted DEF ListTypes, ListInv
<1>5. \A x : Executed(x)' <=> Executed(x)
  BY DEF Executed, QuietWorker
<1>6. Matching'
  <2> SUFFICES ASSUME NEW x \in Packages PROVE state'[x] = Right(x, Enqueued(x)', Executed(x)')
    BY DEF Matching
  <2>1. state[x] = Right(x, Enqueued(x), Executed(x))
    BY DEF ListInv, Matching
  <2>2. state'[x] = IF x \in S /\ Enqueued(x) THEN Released(state[x]) ELSE state[x]
    BY DEF RemoveAll, Enqueued
  <2>3. CASE x \in S /\ Enqueued(x)
    <3>1. Executed(x) => x \in Static
      BY <2>3 DEF ListInv, Places, Executed
    <3>2. state[x] = Right(x, TRUE, Executed(x))
      BY <2>1, <2>3 DEF Right
    <3>3. state'[x] = Right(x, FALSE, Executed(x))
      BY <2>2, <2>3, <3>1, <3>2, ReleasedRight
    <3> QED
      BY <1>3, <1>5, <2>3, <3>3 DEF Right
  <2>4. CASE ~(x \in S /\ Enqueued(x))
    BY <1>3, <1>5, <2>1, <2>2, <2>4 DEF Right
  <2> QED
    BY <2>3, <2>4
<1>7. (worker = "destroyed" => queue = <<>> /\ deferred = <<>>)'
  BY EmptySelection DEF QuietWorker, ListInv, Places, RemoveAll, ListTypes
<1>8. Places'
  BY <1>2, <1>3, <1>7 DEF ListInv, Places, QuietWorker
<1> QED
  BY <1>3, <1>4, <1>6, <1>8 DEF ListInv

(* The destructor empties the lists and releases what was in them.         *)
LEMMA DestroyStep ==
  ASSUME ListTypes, ListInv, Destroy
  PROVE  ListInv' /\ \A x : ~Enqueued(x)' /\ ~Executed(x)'
<1>1. Len(<<>>) = 0
  OBVIOUS
<1>2. Elements(<<>>) = {} /\ Distinct(<<>>)
  BY <1>1 DEF Elements, Distinct
<1>3. \A x : ~Enqueued(x)' /\ ~Executed(x)' /\ ~Executed(x)
  BY <1>2 DEF Destroy, Enqueued, Executed, HasPackage
<1>4. Sorted(deferred, arrivals, tp)'
  BY <1>1 DEF Destroy, Sorted
<1>5. Matching'
  <2> SUFFICES ASSUME NEW x \in Packages PROVE state'[x] = Right(x, Enqueued(x)', Executed(x)')
    BY DEF Matching
  <2>1. state[x] = Right(x, Enqueued(x), FALSE)
    BY <1>3 DEF ListInv, Matching, Right
  <2>2. state'[x] = IF Enqueued(x) THEN Released(state[x]) ELSE state[x]
    BY DEF Destroy, Enqueued
  <2>3. state'[x] = Right(x, FALSE, FALSE)
    <3>1. CASE Enqueued(x)
      <4>1. state[x] = Right(x, TRUE, FALSE)
        BY <2>1, <3>1 DEF Right
      <4> QED
        BY <2>2, <3>1, <4>1, ReleasedRight
    <3>2. CASE ~Enqueued(x)
      BY <2>1, <2>2, <3>2 DEF Right
    <3> QED
      BY <3>1, <3>2
  <2> QED
    BY <1>3, <2>3 DEF Right
<1>6. Places'
  BY <1>2, <1>3 DEF Places, Destroy, HasPackage
<1> QED
  BY <1>3, <1>4, <1>5, <1>6 DEF ListInv

(* Adding a normal package, or the package of a flush                      *)
LEMMA EnqueueStep ==
  ASSUME ListTypes, WorkerTypes, Executing, ListInv, NEW p \in Packages \ Deferred, Accepts(p),
         queue' \in {Append(queue, p), <<p>> \o queue}, state' = SetToInQ(p),
         UNCHANGED <<deferred, arrivals, tp>>, QuietWorker, MutexFree
  PROVE  ListInv' /\ \A x : Enqueued(x)' <=> Enqueued(x) \/ x = p
<1>1. /\ queue' \in Seq(Packages \ Deferred)
      /\ \E k \in 0 .. Len(queue) : Inserted(queue', queue, k, p)
  BY AddTypes
<1>2. ~Enqueued(p)
  BY AcceptedIsNotEnqueued DEF ListInv
<1>3. Elements(queue') = Elements(queue) \cup {p} /\ Distinct(queue')
  BY <1>1, <1>2, InsertionFacts DEF ListTypes, ListInv, Places, Enqueued
<1>4. \A x : Enqueued(x)' <=> Enqueued(x) \/ x = p
  BY <1>3 DEF Enqueued
<1>5. Matching' /\ (HasPackage /\ Enqueued(current) => current \in Static)'
  BY <1>4, EnqueueMatches DEF ListInv
<1>6. Places'
  BY <1>3, <1>5 DEF ListInv, Places, QuietWorker, MutexFree
<1> QED
  BY <1>4, <1>5, <1>6 DEF ListInv

(* Adding a deferred package                                               *)
LEMMA AddDeferredStep ==
  ASSUME ListTypes, WorkerTypes, Executing, ListInv, NEW p \in Deferred, NEW t \in Times,
         AddDeferred(p, t), QuietWorker
  PROVE  ListInv' /\ \A x : Enqueued(x)' <=> Enqueued(x) \/ x = p
<1> DEFINE k == LastNotLater(t)
<1>0. p \in Packages
  BY PackageKinds
<1>1. /\ k \in 0 .. Len(deferred)
      /\ deferred' \in Seq(Deferred) /\ Inserted(deferred', deferred, k, p)
      /\ arrivals' \in Seq(Deferred) /\ Inserted(arrivals', arrivals, Len(arrivals), p)
      /\ Len(arrivals) \in 0 .. Len(arrivals)
  BY AddDeferredTypes
<1>2. ~Enqueued(p)
  BY <1>0, AcceptedIsNotEnqueued DEF ListInv, AddDeferred
<1>3. Elements(deferred') = Elements(deferred) \cup {p} /\ Distinct(deferred')
  BY <1>1, <1>2, InsertionFacts DEF ListTypes, ListInv, Places, Enqueued
<1>4. Elements(arrivals') = Elements(arrivals) \cup {p} /\ Distinct(arrivals')
  BY <1>1, <1>2, InsertionFacts DEF ListTypes, ListInv, Places, Enqueued
<1>5. \A x : Enqueued(x)' <=> Enqueued(x) \/ x = p
  BY <1>3 DEF Enqueued, AddDeferred
<1>6. Matching' /\ (HasPackage /\ Enqueued(current) => current \in Static)'
  BY <1>0, <1>5, EnqueueMatches DEF ListInv, AddDeferred
<1>7. Places'
  BY <1>3, <1>4, <1>6 DEF ListInv, Places, QuietWorker, AddDeferred, MayAdd, MutexFree
<1>8. Sorted(deferred, arrivals, tp)'
  <2>1. Fits(deferred, tp, t, k)
    BY LastNotLaterFits DEF ListTypes
  <2>2. Times \subseteq Int
    BY ConstantsAssumption DEF Times
  <2>3. tp \in [Deferred -> Int] /\ t \in Int
    BY <2>2 DEF ListTypes
  <2>4. p \notin Elements(deferred) /\ Elements(arrivals) = Elements(deferred)
    BY <1>2 DEF ListInv, Places, Enqueued
  <2>5. arrivals' = Append(arrivals, p) /\ tp' = [tp EXCEPT ![p] = t]
    BY DEF AddDeferred
  <2> HIDE DEF k
  <2>6. Sorted(deferred', Append(arrivals, p), [tp EXCEPT ![p] = t])
    BY <1>1, <2>1, <2>3, <2>4, InsertionSorted DEF ListTypes, ListInv
  <2> QED
    BY <2>5, <2>6
<1> QED
  BY <1>5, <1>6, <1>7, <1>8 DEF ListInv

(* A time is set only while the package is in no list, so the order        *)
(* remains.                                                                *)
LEMMA SetTimePointStep ==
  ASSUME ListTypes, WorkerTypes, ListInv, NEW p \in Deferred, NEW t \in Times, SetTimePoint(p, t)
  PROVE  ListInv' /\ \A x : Enqueued(x)' <=> Enqueued(x)
<1>0. p \in Packages
  BY PackageKinds
<1>1. ~Enqueued(p)
  BY <1>0 DEF SetTimePoint, ListInv, Matching, Right
<1>2. UNCHANGED <<queue, deferred, arrivals, state, worker, current>> /\ tp' = [tp EXCEPT ![p] = t]
  BY DEF SetTimePoint
<1>3. \A x : (Enqueued(x)' <=> Enqueued(x)) /\ (Executed(x)' <=> Executed(x))
  BY <1>2 DEF Enqueued, Executed, HasPackage
<1>4. \A i \in 1 .. Len(deferred) : tp'[deferred[i]] = tp[deferred[i]]
  <2> SUFFICES ASSUME NEW i \in 1 .. Len(deferred) PROVE tp'[deferred[i]] = tp[deferred[i]]
    OBVIOUS
  <2>1. deferred[i] # p
    BY <1>1 DEF Enqueued, Elements
  <2>2. deferred[i] \in Deferred
    BY ElementOfSeq DEF ListTypes
  <2> QED
    BY <1>2, <2>1, <2>2 DEF ListTypes
<1>5. Sorted(deferred, arrivals, tp)'
  BY <1>2, <1>4 DEF ListInv, Sorted
<1>6. Matching'
  BY <1>2, <1>3 DEF ListInv, Matching, Right
<1>7. Places'
  BY <1>2, <1>3 DEF ListInv, Places, HasPackage, Enqueued
<1> QED
  BY <1>3, <1>5, <1>6, <1>7 DEF ListInv

(* Work() after the package it has executed, and when it fetches another   *)
LEMMA FinishedState ==
  ASSUME ListTypes, WorkerTypes, Executing, ListInv, HasPackage
  PROVE  \A x \in Packages : StateAfterFinish[x] = Right(x, Enqueued(x), FALSE)
<1>1. current \in Packages
  BY DEF Executing, WorkerTypes
<1>2. \A x \in Packages : state[x] = Right(x, Enqueued(x), Executed(x))
  BY DEF ListInv, Matching
<1>3. Executed(current) /\ (Enqueued(current) => current \in Static)
  BY DEF Executed, ListInv, Places
<1>4. \A x \in Packages : StateAfterFinish[x] = IF x = current THEN Finished(state[x]) ELSE state[x]
  BY DEF StateAfterFinish, ListTypes
<1>5. StateAfterFinish[current] = Right(current, Enqueued(current), FALSE)
  <2>1. state[current] = Right(current, Enqueued(current), TRUE)
    BY <1>1, <1>2, <1>3 DEF Right
  <2> QED
    BY <1>1, <1>3, <1>4, <2>1, ReleasedRight
<1>6. ASSUME NEW x \in Packages, x # current
      PROVE  StateAfterFinish[x] = Right(x, Enqueued(x), FALSE)
  BY <1>2, <1>4, <1>6 DEF Executed, Right
<1> QED
  BY <1>5, <1>6

(* When Work() decides, no package is executed any more.                   *)
LEMMA ResumedState ==
  ASSUME ListTypes, WorkerTypes, Executing, ListInv, NEW s, Resumes(s)
  PROVE  \A x \in Packages : s[x] = Right(x, Enqueued(x), FALSE)
<1>1. CASE worker = "executed" /\ s = StateAfterFinish
  BY <1>1, FinishedState DEF HasPackage
<1>2. CASE worker \in {"out", "woken", "timedOut"} /\ s = state
  BY <1>2 DEF ListInv, Matching, Executed, HasPackage, Right
<1> QED
  BY <1>1, <1>2 DEF Resumes

(* The decisions that fetch nothing                                        *)
LEMMA NothingExecuted ==
  ASSUME ListInv, NEW s, \A x \in Packages : s[x] = Right(x, Enqueued(x), FALSE), state' = s,
         UNCHANGED <<queue, deferred, arrivals, tp>>, current' = None,
         worker' \in {"out", "waiting", "timedWaiting"}
  PROVE  /\ Executing' /\ ListInv'
         /\ \A x : (Enqueued(x)' <=> Enqueued(x)) /\ ~Executed(x)'
<1>1. ~HasPackage' /\ worker' # "destroyed"
  BY DEF HasPackage
<1>2. \A x : (Enqueued(x)' <=> Enqueued(x)) /\ ~Executed(x)'
  BY <1>1 DEF Enqueued, Executed
<1>3. Executing'
  BY <1>1 DEF Executing
<1>4. Matching'
  BY <1>2 DEF Matching, Right
<1>5. Places'
  BY <1>1, <1>2 DEF ListInv, Places
<1>6. Sorted(deferred, arrivals, tp)'
  BY DEF ListInv, Sorted
<1> QED
  BY <1>2, <1>3, <1>4, <1>5, <1>6 DEF ListInv

(* The package that is fetched has the state of one that is executed.      *)
LEMMA FetchMatches ==
  ASSUME ListTypes, NEW s \in [Packages -> States],
         \A x \in Packages : s[x] = Right(x, Enqueued(x), FALSE),
         NEW p \in Packages, Fetch(p, s), Enqueued(p), \A x : Enqueued(x)' <=> Enqueued(x) /\ x # p
  PROVE  /\ Executing' /\ Matching'
         /\ (HasPackage /\ Enqueued(current) => current \in Static)'
         /\ \A x : Executed(x)' <=> x = p
<1>1. HasPackage' /\ current' = p /\ p # None
  BY PackageKinds DEF Fetch, HasPackage
<1>2. \A x : Executed(x)' <=> x = p
  BY <1>1 DEF Executed
<1>3. Executing'
  BY <1>1 DEF Executing, Fetch, Owner
<1>4. \A x \in Packages :
        state'[x] = IF x = p /\ s[x] = "staticInQ" THEN "staticExec" ELSE s[x]
  BY DEF Fetch
<1>5. Matching'
  BY <1>2, <1>4 DEF Matching, Right
<1> QED
  BY <1>1, <1>2, <1>3, <1>5

(* Fetching the first normal package                                       *)
LEMMA FetchNormalStep ==
  ASSUME ListTypes, WorkerTypes, Executing, ListInv, NEW s, Resumes(s), FetchNormal(FALSE, s),
         UNCHANGED tp
  PROVE  /\ Executing' /\ ListInv'
         /\ \A x : Enqueued(x)' <=> Enqueued(x) /\ x # Head(queue)
         /\ \A x : Executed(x)' <=> x = Head(queue)
<1> DEFINE p == Head(queue)
<1>1. queue # <<>> /\ Fetch(p, s) /\ queue' = Tail(queue) /\ UNCHANGED <<deferred, arrivals>>
  BY DEF FetchNormal
<1>2. p \in Elements(queue) /\ p \in Packages /\ p \notin Deferred
  BY <1>1, ListElements
<1>3. queue' \in Seq(Packages \ Deferred) /\ Selected(queue', queue, {p})
  BY <1>1, TailSelects DEF ListTypes, ListInv, Places
<1>4. Elements(queue') = Elements(queue) \ {p} /\ Distinct(queue')
  BY <1>3, SelectionFacts DEF ListTypes, ListInv, Places
<1>5. p \notin Elements(deferred)
  BY <1>2, ListElements
<1> HIDE DEF p
<1>6. Enqueued(p) /\ \A x : Enqueued(x)' <=> Enqueued(x) /\ x # p
  BY <1>1, <1>2, <1>4, <1>5 DEF Enqueued
<1>7. /\ Executing' /\ Matching'
      /\ (HasPackage /\ Enqueued(current) => current \in Static)'
      /\ \A x : Executed(x)' <=> x = p
  BY <1>1, <1>2, <1>6, FetchMatches, ResumedState, ResumedType
<1>8. worker' # "destroyed"
  BY <1>1 DEF Fetch
<1>9. Places'
  BY <1>1, <1>4, <1>7, <1>8 DEF ListInv, Places
<1>10. Sorted(deferred, arrivals, tp)'
  BY <1>1 DEF ListInv, Sorted
<1> QED
  BY <1>6, <1>7, <1>9, <1>10 DEF ListInv, p

(* Fetching the first deferred package                                     *)
LEMMA FetchDeferredStep ==
  ASSUME ListTypes, WorkerTypes, Executing, ListInv, NEW s, Resumes(s), FetchDeferred(TRUE, s),
         UNCHANGED tp
  PROVE  /\ Executing' /\ ListInv'
         /\ \A x : Enqueued(x)' <=> Enqueued(x) /\ x # Head(deferred)
         /\ \A x : Executed(x)' <=> x = Head(deferred)
<1> DEFINE p == Head(deferred)
<1>1. /\ deferred # <<>> /\ Fetch(p, s) /\ deferred' = Tail(deferred) /\ UNCHANGED queue
      /\ arrivals' = Without(arrivals, {p})
  BY DEF FetchDeferred
<1>2. p \in Elements(deferred) /\ p \in Packages /\ p \in Deferred
  BY <1>1, ListElements
<1>3. deferred' \in Seq(Deferred) /\ Selected(deferred', deferred, {p})
  BY <1>1, TailSelects DEF ListTypes, ListInv, Places
<1>4. arrivals' \in Seq(Deferred) /\ Selected(arrivals', arrivals, {p})
  BY <1>1, WithoutSelects DEF ListTypes
<1>5. Elements(deferred') = Elements(deferred) \ {p} /\ Distinct(deferred')
  BY <1>3, SelectionFacts DEF ListTypes, ListInv, Places
<1>6. Elements(arrivals') = Elements(arrivals) \ {p} /\ Distinct(arrivals')
  BY <1>4, SelectionFacts DEF ListTypes, ListInv, Places
<1>7. p \notin Elements(queue)
  BY <1>2, ListElements
<1> HIDE DEF p
<1>8. Enqueued(p) /\ \A x : Enqueued(x)' <=> Enqueued(x) /\ x # p
  BY <1>1, <1>2, <1>5, <1>7 DEF Enqueued
<1>9. /\ Executing' /\ Matching'
      /\ (HasPackage /\ Enqueued(current) => current \in Static)'
      /\ \A x : Executed(x)' <=> x = p
  BY <1>1, <1>2, <1>8, FetchMatches, ResumedState, ResumedType
<1>10. worker' # "destroyed"
  BY <1>1 DEF Fetch
<1>11. Places'
  BY <1>1, <1>5, <1>6, <1>9, <1>10 DEF ListInv, Places
<1>12. Sorted(deferred, arrivals, tp)'
  BY <1>3, <1>4, SelectionSorted DEF ListTypes, ListInv
<1> QED
  BY <1>8, <1>9, <1>11, <1>12 DEF ListInv, p

-----------------------------------------------------------------------------
(* Each step keeps the lists, the states of the packages and the package   *)
(* that is executed.  Packages come into the lists only by Add() and by a  *)
(* flush, and only what was in a list is executed.                         *)

Kinds ==
  /\ Executing' /\ ListInv'
  /\ \A x : Executed(x)' => Executed(x) \/ Enqueued(x)
  /\ \A x : Enqueued(x)' => \/ Enqueued(x) \/ x \in Clients
                            \/ x \in UserPackages /\ ~Closing(OwnerOf[x]) /\ UNCHANGED pc

(* Steps that add nothing                                                  *)
LEMMA NoNews ==
  ASSUME Executing', ListInv', \A x : Executed(x)' => Executed(x) \/ Enqueued(x),
         \A x : Enqueued(x)' => Enqueued(x)
  PROVE  Kinds
BY DEF Kinds

(* Steps that add nothing and leave the execution alone                    *)
LEMMA QuietIsNoNews ==
  ASSUME Executing, QuietWorker, ListInv', \A x : Enqueued(x)' => Enqueued(x)
  PROVE  Kinds
<1>1. \A x : Executed(x)' => Executed(x)
  BY DEF QuietWorker, Executed
<1> QED
  BY <1>1, QuietKeepsExecuting, NoNews

(* Steps that leave the lists and the execution alone                      *)
LEMMA UnchangedLists ==
  ASSUME Executing, QuietWorker, ListInv, UNCHANGED <<queue, deferred, arrivals, tp, state>>
  PROVE  Kinds
<1>1. \A x : Enqueued(x)' => Enqueued(x)
  BY DEF Enqueued
<1> QED
  BY <1>1, QuietKeepsListInv, QuietIsNoNews

(* Each step is of this kind.                                              *)
LEMMA KindsStep ==
  ASSUME ListTypes, WorkerTypes, Executing, ListInv, Next
  PROVE  Kinds
<1>1. ASSUME NEW p \in Normal, Add(p) PROVE Kinds
  <2>1. QuietWorker
    BY <1>1, SignalIsQuiet DEF Add, WorkerTypes
  <2>2. p \in Packages \ Deferred /\ p \in UserPackages
    BY PackageKinds DEF UserPackages
  <2>3. ListInv' /\ \A x : Enqueued(x)' <=> Enqueued(x) \/ x = p
    BY <1>1, <2>1, <2>2, EnqueueStep DEF Add, MayAdd
  <2>4. ~Closing(OwnerOf[p]) /\ UNCHANGED pc
    BY <1>1 DEF Add, MayAdd, clientVars
  <2> QED
    BY <2>1, <2>2, <2>3, <2>4, QuietKeepsExecuting DEF Kinds, QuietWorker, Executed
<1>2. ASSUME NEW p \in Deferred, NEW t \in Times, AddDeferred(p, t) PROVE Kinds
  <2>1. QuietWorker
    BY <1>2, SignalIsQuiet DEF AddDeferred, SignalIfFirst, WorkerTypes
  <2>2. p \in UserPackages
    BY DEF UserPackages
  <2>3. ListInv' /\ \A x : Enqueued(x)' <=> Enqueued(x) \/ x = p
    BY <1>2, <2>1, AddDeferredStep
  <2>4. ~Closing(OwnerOf[p]) /\ UNCHANGED pc
    BY <1>2 DEF AddDeferred, MayAdd, clientVars
  <2> QED
    BY <2>1, <2>2, <2>3, <2>4, QuietKeepsExecuting DEF Kinds, QuietWorker, Executed
<1>3. ASSUME NEW p \in Deferred, NEW t \in Times, SetTimePoint(p, t) PROVE Kinds
  <2>1. QuietWorker
    BY <1>3, SameIsQuiet DEF SetTimePoint
  <2> QED
    BY <1>3, <2>1, SetTimePointStep, QuietIsNoNews
<1>4. ASSUME NEW p, AddRefused(p) PROVE Kinds
  <2>1. QuietWorker
    BY <1>4, SignalIsQuiet DEF AddRefused, SignalIfFirst, WorkerTypes
  <2> QED
    BY <1>4, <2>1, UnchangedLists DEF AddRefused
<1>5. ASSUME NEW S, RemoveAll(S), UNCHANGED <<tp, current, currentOwner>> PROVE Kinds
  <2>1. QuietWorker
    BY <1>5, SignalIsQuiet DEF RemoveAll, WorkerTypes
  <2> QED
    BY <1>5, <2>1, RemoveAllStep, QuietIsNoNews
<1>6. ASSUME NEW p \in UserPackages, Remove(p) \/ RemoveOwned(OwnerOf[p], SameID(p)) PROVE Kinds
  BY <1>5, <1>6 DEF Remove, RemoveOwned
<1>7. ASSUME NEW c \in Clients, RemoveOwned(c, OwnedBy(c)) \/ RemoveOwn(c) PROVE Kinds
  BY <1>5, <1>7 DEF RemoveOwned, RemoveOwn
<1>8. CASE RequestTermination
  <2>1. QuietWorker
    BY <1>8, SignalIsQuiet DEF RequestTermination, SignalIf, WorkerTypes
  <2> QED
    BY <1>8, <2>1, UnchangedLists DEF RequestTermination
<1>9. CASE Destroy
  <2>1. ListInv' /\ \A x : ~Enqueued(x)' /\ ~Executed(x)'
    BY <1>9, DestroyStep
  <2>2. Executing'
    BY <1>9 DEF Destroy, Executing, HasPackage
  <2> QED
    BY <2>1, <2>2, NoNews
<1>10. ASSUME NEW s, Decides(s) PROVE Kinds
  <2>1. Resumes(s) /\ UNCHANGED tp /\ \A x \in Packages : s[x] = Right(x, Enqueued(x), FALSE)
    BY <1>10, ResumedState DEF Decides
  <2>2. CASE StopWorking(s) \/ WaitForWork(FALSE, s)
    <3>1. /\ state' = s /\ UNCHANGED <<queue, deferred, arrivals, tp>> /\ current' = None
          /\ worker' \in {"out", "waiting", "timedWaiting"}
      BY <2>1, <2>2 DEF StopWorking, WaitForWork
    <3> QED
      BY <2>1, <3>1, NothingExecuted, NoNews
  <2>3. CASE FetchDeferred(TRUE, s)
    <3>1. Enqueued(Head(deferred))
      BY <2>3, ListElements DEF FetchDeferred, Enqueued
    <3>2. /\ Executing' /\ ListInv'
          /\ \A x : Enqueued(x)' <=> Enqueued(x) /\ x # Head(deferred)
          /\ \A x : Executed(x)' <=> x = Head(deferred)
      BY <2>1, <2>3, FetchDeferredStep
    <3> QED
      BY <3>1, <3>2, NoNews
  <2>4. CASE FetchNormal(FALSE, s)
    <3>1. Enqueued(Head(queue))
      BY <2>4, ListElements DEF FetchNormal, Enqueued
    <3>2. /\ Executing' /\ ListInv'
          /\ \A x : Enqueued(x)' <=> Enqueued(x) /\ x # Head(queue)
          /\ \A x : Executed(x)' <=> x = Head(queue)
      BY <2>1, <2>4, FetchNormalStep
    <3> QED
      BY <3>1, <3>2, NoNews
  <2> QED
    BY <1>10, <2>2, <2>3, <2>4 DEF Decides
<1>11. CASE EnterWork \/ WakeUp \/ TimedOut \/ NextPackage
  BY <1>10, <1>11, WorkDecides
<1>12. CASE LeaveWithException
  <2>1. \A x \in Packages : StateAfterFinish[x] = Right(x, Enqueued(x), FALSE)
    BY <1>12, FinishedState DEF LeaveWithException, HasPackage
  <2>2. /\ state' = StateAfterFinish /\ UNCHANGED <<queue, deferred, arrivals, tp>>
        /\ current' = None /\ worker' = "out"
    BY <1>12 DEF LeaveWithException
  <2> QED
    BY <2>1, <2>2, NothingExecuted, NoNews
<1>13. CASE \/ Timeout \/ StartFunctor \/ FunctorReturns \/ Post \/ FunctorThrows
            \/ SpuriousWorkerWakeup
  <2>1. UNCHANGED <<queue, deferred, arrivals, tp, state>>
    BY <1>13 DEF Timeout, StartFunctor, FunctorReturns, Post, FunctorThrows, SpuriousWorkerWakeup,
                 WorkerMoves
  <2> QED
    BY <1>13, <2>1, MovesAreQuiet, UnchangedLists
<1>14. ASSUME UNCHANGED <<queue, deferred, arrivals, tp, state, worker, current, currentOwner>>
       PROVE  Kinds
  BY <1>14, SameIsQuiet, UnchangedLists
<1>15. CASE Tick
  BY <1>14, <1>15 DEF Tick
<1>16. ASSUME NEW c \in Clients,
              \/ FlushWakes(c) \/ FlushReturns(c) \/ WaitForOwnerChange(c) \/ OwnerNotExecuted(c)
              \/ EndShutdown(c) \/ BeginShutdown(c) \/ SpuriousWakeup(c)
       PROVE  Kinds
  BY <1>14, <1>16 DEF FlushWakes, FlushReturns, WaitForOwnerChange, OwnerNotExecuted, EndShutdown,
                      BeginShutdown, SpuriousWakeup, ClientMoves
<1>17. ASSUME NEW c \in Clients, Flush(c) PROVE Kinds
  <2>1. QuietWorker
    BY <1>17, SignalIsQuiet DEF Flush, WorkerTypes
  <2>2. c \in Packages \ Deferred
    BY PackageKinds
  <2>3. ListInv' /\ \A x : Enqueued(x)' <=> Enqueued(x) \/ x = c
    BY <1>17, <2>1, <2>2, EnqueueStep DEF Flush
  <2> QED
    BY <2>1, <2>3, QuietKeepsExecuting DEF Kinds, QuietWorker, Executed
<1> QED
  BY <1>1, <1>2, <1>3, <1>4, <1>6, <1>7, <1>8, <1>9, <1>11, <1>12, <1>13, <1>15, <1>16, <1>17
     DEF Next, WorkerStep, ClientStep

-----------------------------------------------------------------------------
(* An owner that shuts itself down *)

(* Nothing new of the owners that are further than the removal, and the    *)
(* owners stay where they are or get on by a broadcast.                    *)
LEMMA CleanKept ==
  ASSUME Kinds, ListInv, CleanAll, NEW c \in Clients, Removed(c)' => Removed(c),
         Flushed(c)' => Flushed(c)
  PROVE  Clean(c)'
<1>1. \A p \in OwnedBy(c) : p \in Packages /\ p \notin Clients /\ OwnerOf[p] = c
  BY PackageKinds DEF OwnedBy
<1>2. ASSUME Removed(c)', NEW p \in OwnedBy(c) PROVE ~Enqueued(p)'
  <2>1. ~Enqueued(p) /\ Closing(c)
    BY <1>2 DEF CleanAll, Clean, Removed, Closing
  <2> QED
    BY <1>1, <2>1 DEF Kinds
<1>3. ASSUME Flushed(c)', NEW p \in OwnedBy(c) PROVE ~Executed(p)'
  <2>1. ~Executed(p) /\ ~Enqueued(p)
    BY <1>3 DEF CleanAll, Clean, Removed, Flushed
  <2> QED
    BY <2>1 DEF Kinds
<1> QED
  BY <1>2, <1>3 DEF Clean, OwnedBy, Removed, Flushed

(* What the client a, or the functor of its flush, does concerns no other. *)
LEMMA CleanOthers ==
  ASSUME Kinds, ListInv, CleanAll, NEW a, Clean(a)',
         \A c \in Clients \ {a} : pc'[c] = pc[c] /\ sem'[c] = sem[c]
  PROVE  CleanAll'
<1> SUFFICES ASSUME NEW c \in Clients \ {a} PROVE Clean(c)'
  BY DEF CleanAll
<1>1. (Removed(c)' => Removed(c)) /\ (Flushed(c)' => Flushed(c))
  BY DEF Removed, Flushed
<1> QED
  BY <1>1, CleanKept

(* Each step keeps what is known about owners that shut themselves down.   *)
LEMMA CleanStep ==
  ASSUME ListTypes, WorkerTypes, ClientTypes, Executing, ListInv, CleanAll, Next
  PROVE  CleanAll'
<1>0. Kinds
  BY KindsStep
<1>1. ASSUME UNCHANGED sem, pc' = pc \/ pc' = AfterBroadcast PROVE CleanAll'
  <2> SUFFICES ASSUME NEW c \in Clients PROVE Clean(c)'
    BY DEF CleanAll
  <2>1. (Removed(c)' => Removed(c)) /\ (Flushed(c)' => Flushed(c))
    BY <1>1 DEF Removed, Flushed, AfterBroadcast
  <2> QED
    BY <1>0, <2>1, CleanKept
<1>2. ASSUME NEW p \in UserPackages,
             \/ Add(p) \/ AddRefused(p) \/ Remove(p) \/ RemoveOwned(OwnerOf[p], SameID(p))
             \/ \E t \in Times : AddDeferred(p, t) \/ SetTimePoint(p, t)
      PROVE  CleanAll'
  BY <1>1, <1>2 DEF Add, AddRefused, Remove, RemoveOwned, AddDeferred, SetTimePoint, clientVars
<1>3. ASSUME NEW c \in Clients, RemoveOwned(c, OwnedBy(c)) PROVE CleanAll'
  BY <1>1, <1>3 DEF RemoveOwned, clientVars
<1>4. CASE RequestTermination \/ Destroy \/ Tick
  BY <1>1, <1>4 DEF RequestTermination, Destroy, Tick, clientVars
<1>5. CASE EnterWork \/ WakeUp \/ TimedOut \/ NextPackage
  <2>1. PICK s : Decides(s)
    BY <1>5, WorkDecides
  <2>2. pc' = pc \/ pc' = AfterBroadcast
    BY <2>1 DEF Decides, StopWorking, WaitForWork, FetchDeferred, FetchNormal, Fetch
  <2> QED
    BY <1>1, <2>1, <2>2 DEF Decides
<1>6. CASE LeaveWithException
  BY <1>1, <1>6 DEF LeaveWithException
<1>7. CASE Timeout \/ StartFunctor \/ FunctorReturns \/ FunctorThrows \/ SpuriousWorkerWakeup
  BY <1>1, <1>7 DEF Timeout, StartFunctor, FunctorReturns, FunctorThrows, SpuriousWorkerWakeup,
                    WorkerMoves
<1>8. CASE Post
  <2>1. current \in Clients /\ UNCHANGED <<queue, deferred, pc, current>>
    BY <1>8 DEF Post, WorkerMoves
  <2>2. \A c \in Clients \ {current} : pc'[c] = pc[c] /\ sem'[c] = sem[c]
    BY <1>8, <2>1 DEF Post, ClientTypes
  <2>3. \A p \in OwnedBy(current) : ~Executed(p)'
    BY <2>1, PackageKinds DEF Executed
  <2>5. PICK a \in Clients : a = current
    BY <2>1
  <2>6. Clean(a)'
    <3>1. current' = a
      BY <2>1, <2>5
    <3>2. \A p \in OwnedBy(a) : ~Executed(p)'
      BY <2>3, <2>5
    <3>3. Removed(a)' => \A p \in OwnedBy(a) : ~Enqueued(p)'
      BY <2>1 DEF CleanAll, Clean, Removed, Enqueued
    <3> QED
      BY <3>2, <3>3 DEF Clean, OwnedBy
  <2> QED
    BY <1>0, <2>2, <2>5, <2>6, CleanOthers
<1>9. ASSUME NEW c \in Clients, Flush(c) PROVE CleanAll'
  <2>1. /\ Removed(c)' => Removed(c)
        /\ ~Flushed(c)'
        /\ \A d \in Clients \ {c} : pc'[d] = pc[d] /\ sem'[d] = sem[d]
    BY <1>9 DEF Flush, Removed, Flushed, ClientTypes
  <2>2. Clean(c)'
    BY <1>0, <2>1, CleanKept
  <2> QED
    BY <1>0, <2>1, <2>2, CleanOthers
<1>10. ASSUME NEW c \in Clients, RemoveOwn(c) PROVE CleanAll'
  <2>1. QuietWorker
    BY <1>10, SignalIsQuiet DEF RemoveOwn, RemoveAll, WorkerTypes
  <2>2. \A x : Enqueued(x)' <=> Enqueued(x) /\ x \notin OwnedBy(c)
    BY <1>10, <2>1, RemoveAllStep DEF RemoveOwn
  <2>3. ~Flushed(c)' /\ \A d \in Clients \ {c} : pc'[d] = pc[d] /\ sem'[d] = sem[d]
    BY <1>10 DEF RemoveOwn, Flushed, ClientTypes
  <2>4. Clean(c)'
    BY <2>2, <2>3 DEF Clean, OwnedBy
  <2> QED
    BY <1>0, <2>3, <2>4, CleanOthers
<1>11. ASSUME NEW c \in Clients,
              \/ FlushWakes(c) \/ FlushReturns(c) \/ WaitForOwnerChange(c) \/ BeginShutdown(c)
              \/ SpuriousWakeup(c)
       PROVE  CleanAll'
  <2>1. /\ (Removed(c)' => Removed(c)) /\ (Flushed(c)' => Flushed(c))
        /\ \A d \in Clients \ {c} : pc'[d] = pc[d] /\ sem'[d] = sem[d]
    <3>1. CASE FlushWakes(c)
      BY <3>1 DEF FlushWakes, ClientMoves, Removed, Flushed, ClientTypes
    <3>2. CASE FlushReturns(c) \/ WaitForOwnerChange(c) \/ BeginShutdown(c) \/ SpuriousWakeup(c)
      BY <3>2 DEF FlushReturns, WaitForOwnerChange, BeginShutdown, SpuriousWakeup, ClientMoves,
                  Removed, Flushed, ClientTypes
    <3> QED
      BY <1>11, <3>1, <3>2
  <2>2. Clean(c)'
    BY <1>0, <2>1, CleanKept
  <2> QED
    BY <1>0, <2>1, <2>2, CleanOthers
<1>12. ASSUME NEW c \in Clients, OwnerNotExecuted(c) \/ EndShutdown(c) PROVE CleanAll'
  <2>1. /\ UNCHANGED <<queue, deferred, worker, current>>
        /\ \A d \in Clients \ {c} : pc'[d] = pc[d] /\ sem'[d] = sem[d]
    BY <1>12 DEF OwnerNotExecuted, EndShutdown, ClientMoves, ClientTypes
  <2>2. \A x : (Enqueued(x)' <=> Enqueued(x)) /\ (Executed(x)' <=> Executed(x))
    BY <2>1 DEF Enqueued, Executed, HasPackage
  <2>3. CASE OwnerNotExecuted(c)
    <3>1. Removed(c) /\ currentOwner # c
      BY <2>3 DEF OwnerNotExecuted, ClientMoves, Removed
    <3>2. \A p \in OwnedBy(c) : ~Enqueued(p) /\ ~Executed(p)
      BY <3>1, PackageKinds DEF CleanAll, Clean, Executing, Executed
    <3>3. Clean(c)'
      BY <2>2, <3>2 DEF Clean, OwnedBy
    <3> QED
      BY <1>0, <2>1, <3>3, CleanOthers
  <2>4. CASE EndShutdown(c)
    <3>1. worker = "destroyed" /\ queue = <<>> /\ deferred = <<>>
      BY <2>4 DEF EndShutdown, ListInv, Places
    <3>2. Elements(<<>>) = {}
      <4>1. Len(<<>>) = 0
        OBVIOUS
      <4> QED
        BY <4>1 DEF Elements
    <3>3. \A p \in OwnedBy(c) : ~Enqueued(p) /\ ~Executed(p)
      BY <3>1, <3>2 DEF Enqueued, Executed, HasPackage
    <3>4. Clean(c)'
      BY <2>2, <3>3 DEF Clean, OwnedBy
    <3> QED
      BY <1>0, <2>1, <3>4, CleanOthers
  <2> QED
    BY <1>12, <2>3, <2>4
<1> QED
  BY <1>2, <1>3, <1>4, <1>5, <1>6, <1>7, <1>8, <1>9, <1>10, <1>11, <1>12
     DEF Next, WorkerStep, ClientStep, UserPackages

-----------------------------------------------------------------------------
(* The invariant holds in the beginning.                                   *)
LEMMA InitInv == Init => IInv
<1> SUFFICES ASSUME Init PROVE IInv
  OBVIOUS
<1>1. Len(<<>>) = 0 /\ <<>> \in Seq(Packages \ Deferred) /\ <<>> \in Seq(Deferred)
  OBVIOUS
<1>2. Elements(<<>>) = {} /\ Distinct(<<>>) /\ Sorted(<<>>, arrivals, tp)
  BY <1>1 DEF Elements, Distinct, Sorted
<1>3. \A x : ~Enqueued(x) /\ ~Executed(x)
  BY <1>2 DEF Init, Enqueued, Executed, HasPackage
<1>4. 0 \in Times
  BY ConstantsAssumption DEF Times
<1>5. ListTypes
  BY <1>1, <1>4 DEF Init, ListTypes, States
<1>6. WorkerTypes
  BY DEF Init, WorkerTypes, WorkerStates
<1>7. ClientTypes
  BY <1>4 DEF Init, ClientTypes, ClientStates
<1>8. Executing /\ NeverOversleeps
  BY DEF Init, Executing, HasPackage, NeverOversleeps, Waiting
<1>9. Matching
  BY <1>3 DEF Init, Matching, Right
<1>10. Places
  BY <1>2, <1>3 DEF Init, Places, HasPackage
<1>11. CleanAll
  BY <1>3 DEF CleanAll, Clean
<1> QED
  BY <1>2, <1>5, <1>6, <1>7, <1>8, <1>9, <1>10, <1>11, Types DEF IInv, ListInv, Init

(* Each step keeps the invariant.                                          *)
LEMMA NextInv == IInv /\ [Next]_vars => IInv'
<1> SUFFICES ASSUME IInv, [Next]_vars PROVE IInv'
  OBVIOUS
<1>1. ListTypes /\ WorkerTypes /\ ClientTypes
  BY Types DEF IInv
<1>2. CASE Next
  <2>1. TypeOK'
    BY <1>1, <1>2, TypesStep, TypesPrimed
  <2>2. NeverOversleeps'
    BY <1>1, <1>2, SleepStep DEF IInv
  <2>3. Executing' /\ ListInv'
    BY <1>1, <1>2, KindsStep DEF IInv, Kinds
  <2>4. CleanAll'
    BY <1>1, <1>2, CleanStep DEF IInv
  <2> QED
    BY <2>1, <2>2, <2>3, <2>4 DEF IInv
<1>3. CASE UNCHANGED vars
  <2>1. UNCHANGED <<queue, deferred, tp, state, currentOwner, current, terminate, worker, waitsFor,
                    pc, sem, now, calls, arrivals>>
    BY <1>3 DEF vars, clientVars
  <2>2. TypeOK'
    BY <2>1 DEF IInv, TypeOK
  <2>3. NeverOversleeps' /\ Executing'
    BY <2>1 DEF IInv, NeverOversleeps, Executing, Waiting, HasPackage
  <2>4. ListInv'
    BY <2>1, SameIsQuiet, QuietKeepsListInv DEF IInv
  <2>5. CleanAll'
    BY <2>1 DEF IInv, CleanAll, Clean, Removed, Flushed, Enqueued, Executed, HasPackage
  <2> QED
    BY <2>2, <2>3, <2>4, <2>5 DEF IInv
<1> QED
  BY <1>2, <1>3

(* What the other theorems rest on: the lists, the states of the packages  *)
(* and what a client has done already always fit together.                 *)
THEOREM Invariance == Spec => []IInv
<1>1. Init => IInv
  BY InitInv
<1>2. IInv /\ [Next]_vars => IInv'
  BY NextInv
<1> QED
  BY <1>1, <1>2, PTL DEF Spec

(* Every variable keeps its type, and no package gets a state that the     *)
(* code does not know, for any packages, owners, times and calls.          *)
THEOREM TypeCorrect == Spec => []TypeOK
<1>1. IInv => TypeOK
  BY DEF IInv
<1> QED
  BY <1>1, Invariance, PTL

(* The thread of the queue never sleeps while there is a normal package or *)
(* a request to terminate, and never longer than until the time of the     *)
(* first deferred package, whatever is added and removed meanwhile.        *)
THEOREM NobodyOversleeps == Spec => []NeverOversleeps
<1>1. IInv => NeverOversleeps
  BY DEF IInv
<1> QED
  BY <1>1, Invariance, PTL

(* An owner that has removed its packages and waited for the current one,  *)
(* or flushed the queue, can be destroyed: no package refers to it.        *)
THEOREM ShutdownLeavesNothing == Spec => []DestroyedClientIsClean
<1>1. ASSUME IInv PROVE DestroyedClientIsClean
  <2> SUFFICES ASSUME NEW c \in Clients, pc[c] = "destroyed"
               PROVE  \A p \in OwnedBy(c) : ~Enqueued(p) /\ ~Executed(p)
    BY DEF DestroyedClientIsClean, Enqueued, Executed
  <2> QED
    BY <1>1 DEF IInv, CleanAll, Clean, Removed, Flushed
<1> QED
  BY <1>1, Invariance, PTL

-----------------------------------------------------------------------------
(* The queue implements DeferredExecutor. *)

Running == IF worker \in {"fetched", "executing", "inPost"} THEN current ELSE None

(* DeferredExecutor uses the same functions of sequences.                  *)
LEMMA SameElements ==
  \A s, S : Executor!Elements(s) = Elements(s) /\ Executor!Without(s, S) = Without(s, S)
<1> SUFFICES ASSUME NEW s, NEW S
             PROVE  Executor!Elements(s) = Elements(s) /\ Executor!Without(s, S) = Without(s, S)
  OBVIOUS
<1>1. Executor!Elements(s) = Elements(s)
  BY DEF Executor!Elements, Elements
<1>2. Executor!Kept(s, S) = Kept(s, S)
  BY DEF Executor!Kept, Kept
<1>3. Executor!Without(s, S) = Without(s, S)
  BY <1>2 DEF Executor!Without, Without, Executor!Cardinality, Cardinality
<1> QED
  BY <1>1, <1>3

(* The first package of the sorted list is the oldest of those that are    *)
(* most far in the past.                                                   *)
LEMMA FirstIsOldest ==
  ASSUME ListTypes, ListInv, deferred # <<>>
  PROVE  \E i \in 1 .. Len(arrivals) :
           /\ arrivals[i] = Head(deferred)
           /\ \A j \in 1 .. i - 1 : tp[arrivals[j]] > tp[arrivals[i]]
           /\ \A j \in i + 1 .. Len(arrivals) : tp[arrivals[j]] >= tp[arrivals[i]]
<1>1. /\ Len(deferred) \in Nat \ {0} /\ Len(arrivals) \in Nat /\ 1 \in 1 .. Len(deferred)
      /\ Head(deferred) = deferred[1]
  BY EmptySeq, LenProperties DEF ListTypes
<1>2. Distinct(arrivals) /\ Elements(arrivals) = Elements(deferred)
  BY DEF ListInv, Places
<1>3. PICK i \in 1 .. Len(arrivals) : arrivals[i] = deferred[1]
  BY <1>1, <1>2 DEF Elements
<1>4. \A j \in 1 .. Len(arrivals) : tp[arrivals[j]] \in Int
  <2>1. Times \subseteq Int /\ \A j \in 1 .. Len(arrivals) : arrivals[j] \in Deferred
    BY ConstantsAssumption, ElementOfSeq DEF Times, ListTypes
  <2> QED
    BY <2>1 DEF ListTypes
<1>5. ASSUME NEW j \in 1 .. Len(arrivals), j # i
      PROVE  \/ tp[arrivals[i]] < tp[arrivals[j]]
             \/ tp[arrivals[i]] = tp[arrivals[j]] /\ i < j
  <2>1. PICK l \in 1 .. Len(deferred) : deferred[l] = arrivals[j]
    BY <1>2 DEF Elements
  <2>2. l # 1
    BY <1>2, <1>3, <1>5, <2>1 DEF Distinct
  <2>3. 1 < l
    BY <1>1, <2>2
  <2>4. \/ tp[arrivals[i]] < tp[arrivals[j]]
        \/ tp[arrivals[i]] = tp[arrivals[j]] /\ Before(arrivals[i], arrivals[j], arrivals)
    BY <1>1, <1>3, <2>1, <2>3 DEF ListInv, Sorted
  <2>5. Before(arrivals[i], arrivals[j], arrivals) => i < j
    BY <1>2 DEF Before, Distinct
  <2> QED
    BY <2>4, <2>5
<1>6. ASSUME NEW j \in 1 .. i - 1 PROVE tp[arrivals[j]] > tp[arrivals[i]]
  <2>1. j \in 1 .. Len(arrivals) /\ j # i /\ ~(i < j)
    BY <1>1
  <2> QED
    BY <1>4, <1>5, <2>1
<1>7. ASSUME NEW j \in i + 1 .. Len(arrivals) PROVE tp[arrivals[j]] >= tp[arrivals[i]]
  <2>1. j \in 1 .. Len(arrivals) /\ j # i
    BY <1>1
  <2> QED
    BY <1>4, <1>5, <2>1
<1> QED
  BY <1>1, <1>3, <1>6, <1>7

(* Each step is one step of DeferredExecutor, or is not seen there. *)
ExecutorStep == Executor!Next \/ UNCHANGED <<queue, arrivals, tp, Running, now>>

(* A removal withdraws the packages.                                       *)
LEMMA Withdraws ==
  ASSUME ListTypes, WorkerTypes, NEW S \in SUBSET UserPackages, RemoveAll(S),
         UNCHANGED <<tp, current, now>>
  PROVE  ExecutorStep
<1>1. queue' = Executor!Without(queue, S) /\ arrivals' = Executor!Without(arrivals, S)
  BY SameElements DEF RemoveAll
<1>2. Running' = Running
  BY SignalStep DEF RemoveAll, Running, WorkerTypes
<1>3. Executor!Withdraw(S)
  BY <1>1, <1>2 DEF Executor!Withdraw, Running
<1>4. S \in SUBSET ((Normal \cup Clients) \cup Deferred)
  BY DEF UserPackages
<1> QED
  BY <1>3, <1>4 DEF ExecutorStep, Executor!Next

(* Each step is one of DeferredExecutor, or a stutter there.               *)
LEMMA StepRefines ==
  ASSUME IInv, Next
  PROVE  ExecutorStep
<1>0. ListTypes /\ WorkerTypes /\ Executing /\ ListInv
  BY Types DEF IInv
<1>1. ASSUME NEW p \in Normal \cup Clients, Accepts(p),
             queue' \in {Append(queue, p), <<p>> \o queue},
             SignalIf(queue = <<>>), UNCHANGED <<arrivals, tp, current, now>>
      PROVE  ExecutorStep
  <2>1. p \in Packages
    BY PackageKinds
  <2>2. p \notin Executor!Elements(queue)
    BY <1>0, <1>1, <2>1, AcceptedIsNotEnqueued, SameElements DEF ListInv, Enqueued
  <2>3. Running' = Running
    BY <1>0, <1>1, SignalStep DEF Running, WorkerTypes
  <2>4. Executor!Accept(p)
    BY <1>1, <2>2, <2>3 DEF Executor!Accept, Running
  <2> QED
    BY <2>4 DEF ExecutorStep, Executor!Next
<1>2. ASSUME NEW p \in Normal, Add(p) PROVE ExecutorStep
  BY <1>1, <1>2 DEF Add, MayAdd
<1>3. ASSUME NEW c \in Clients, Flush(c) PROVE ExecutorStep
  BY <1>1, <1>3 DEF Flush
<1>4. ASSUME NEW p \in Deferred, NEW t \in Times, AddDeferred(p, t) PROVE ExecutorStep
  <2>1. p \in Packages
    BY PackageKinds
  <2>2. p \notin Executor!Elements(arrivals)
    BY <1>0, <1>4, <2>1, AcceptedIsNotEnqueued, SameElements
    DEF AddDeferred, ListInv, Places, Enqueued
  <2>3. Running' = Running
    BY <1>0, <1>4, SignalStep DEF AddDeferred, SignalIfFirst, Running, WorkerTypes
  <2>4. Executor!AcceptDeferred(p, t)
    BY <1>4, <2>2, <2>3 DEF AddDeferred, Executor!AcceptDeferred, Running
  <2> QED
    BY <2>4 DEF ExecutorStep, Executor!Next
<1>5. ASSUME NEW p \in Deferred, NEW t \in Times, SetTimePoint(p, t) PROVE ExecutorStep
  <2>1. p \in Packages
    BY PackageKinds
  <2>2. p \notin Executor!Elements(arrivals)
    BY <1>0, <1>5, <2>1, SameElements DEF SetTimePoint, ListInv, Places, Matching, Right, Enqueued
  <2>3. Executor!SetDue(p, t)
    BY <1>5, <2>2 DEF SetTimePoint, Executor!SetDue
  <2> QED
    BY <2>3 DEF ExecutorStep, Executor!Next
<1>6. ASSUME NEW p, AddRefused(p) PROVE ExecutorStep
  BY <1>0, <1>6, SignalStep DEF AddRefused, SignalIfFirst, ExecutorStep, Running, WorkerTypes
<1>7. ASSUME NEW p \in UserPackages, Remove(p) PROVE ExecutorStep
  BY <1>0, <1>7, Withdraws DEF Remove
<1>8. ASSUME NEW c, NEW S \in SUBSET UserPackages, RemoveOwned(c, S) PROVE ExecutorStep
  BY <1>0, <1>8, Withdraws DEF RemoveOwned
<1>9. \A c : OwnedBy(c) \in SUBSET UserPackages /\ \A p : SameID(p) \in SUBSET UserPackages
  BY DEF OwnedBy, SameID
<1>10. ASSUME NEW c \in Clients, RemoveOwn(c) PROVE ExecutorStep
  BY <1>0, <1>9, <1>10, Withdraws DEF RemoveOwn
<1>11. CASE RequestTermination
  BY <1>11 DEF RequestTermination, Signal, Waiting, ExecutorStep, Running
<1>12. CASE Destroy
  <2> DEFINE S == UserPackages \cup Clients
  <2>1. Without(queue, S) = <<>>
    <3>1. \A x \in Elements(queue) : x \in S
      BY <1>0, ListElements DEF Packages
    <3> QED
      BY <1>0, <3>1, EmptySelection DEF ListTypes
  <2>2. Without(arrivals, S) = <<>>
    <3>1. \A x \in Elements(arrivals) : x \in S
      BY <1>0, ListElements DEF Packages, ListInv, Places
    <3> QED
      BY <1>0, <3>1, EmptySelection DEF ListTypes
  <2>3. Executor!Withdraw(S)
    BY <1>12, <2>1, <2>2, SameElements DEF Destroy, Executor!Withdraw
  <2>4. S \in SUBSET ((Normal \cup Clients) \cup Deferred)
    BY DEF UserPackages
  <2> QED
    BY <2>3, <2>4 DEF ExecutorStep, Executor!Next
<1>13. CASE Tick
  <2>1. now' \in Times /\ now' > now
    BY <1>13, ConstantsAssumption DEF Tick, Times, IInv, TypeOK
  <2>2. Executor!Tick
    BY <1>13, <2>1 DEF Tick, Executor!Tick
  <2> QED
    BY <2>2 DEF ExecutorStep, Executor!Next
<1>14. ASSUME NEW s, Decides(s) PROVE ExecutorStep
  <2>1. Running = None /\ UNCHANGED <<tp, now>>
    BY <1>14 DEF Decides, Resumes, Running
  <2>2. CASE StopWorking(s) \/ WaitForWork(FALSE, s)
    BY <2>1, <2>2 DEF StopWorking, WaitForWork, ExecutorStep, Running
  <2>3. CASE FirstIsDue /\ FetchDeferred(TRUE, s)
    <3>1. PICK i \in 1 .. Len(arrivals) :
            /\ arrivals[i] = Head(deferred)
            /\ \A j \in 1 .. i - 1 : tp[arrivals[j]] > tp[arrivals[i]]
            /\ \A j \in i + 1 .. Len(arrivals) : tp[arrivals[j]] >= tp[arrivals[i]]
      BY <1>0, <2>3, FirstIsOldest DEF FetchDeferred
    <3>2. tp[arrivals[i]] <= now
      BY <2>3, <3>1 DEF FirstIsDue
    <3>3. /\ Running' = arrivals[i] /\ queue' = queue
          /\ arrivals' = Executor!Without(arrivals, {arrivals[i]})
      BY <2>3, <3>1, SameElements DEF FetchDeferred, Fetch, Running
    <3>4. Executor!StartDeferred(i)
      BY <2>1, <3>1, <3>2, <3>3 DEF Executor!StartDeferred, Running
    <3> QED
      BY <3>4 DEF ExecutorStep, Executor!Next
  <2>4. CASE FetchNormal(FALSE, s)
    <3>1. queue # <<>> /\ Running' = Head(queue) /\ queue' = Tail(queue) /\ arrivals' = arrivals
      BY <2>4 DEF FetchNormal, Fetch, Running
    <3>2. Executor!Start
      BY <2>1, <3>1 DEF Executor!Start, Running
    <3> QED
      BY <3>2 DEF ExecutorStep, Executor!Next
  <2> QED
    BY <1>14, <2>2, <2>3, <2>4 DEF Decides
<1>15. CASE EnterWork \/ WakeUp \/ TimedOut \/ NextPackage
  BY <1>14, <1>15, WorkDecides
<1>16. CASE LeaveWithException
  BY <1>16 DEF LeaveWithException, ExecutorStep, Running
<1>17. CASE Timeout \/ StartFunctor \/ Post \/ SpuriousWorkerWakeup
  BY <1>17 DEF Timeout, StartFunctor, Post, SpuriousWorkerWakeup, WorkerMoves, ExecutorStep, Running
<1>18. CASE FunctorReturns \/ FunctorThrows
  <2>1. current # None /\ worker \in {"executing", "inPost"}
    BY <1>0, <1>18 DEF FunctorReturns, FunctorThrows, WorkerMoves, Executing, HasPackage
  <2>2. Running # None /\ Running' = None /\ UNCHANGED <<queue, arrivals, tp, now>>
    BY <1>18, <2>1 DEF FunctorReturns, FunctorThrows, WorkerMoves, Running
  <2>3. Executor!End
    BY <2>2 DEF Executor!End, Running
  <2> QED
    BY <2>3 DEF ExecutorStep, Executor!Next
<1>19. ASSUME NEW c \in Clients,
              \/ FlushWakes(c) \/ FlushReturns(c) \/ WaitForOwnerChange(c) \/ OwnerNotExecuted(c)
              \/ EndShutdown(c) \/ BeginShutdown(c) \/ SpuriousWakeup(c)
       PROVE  ExecutorStep
  BY <1>19 DEF FlushWakes, FlushReturns, WaitForOwnerChange, OwnerNotExecuted, EndShutdown,
               BeginShutdown, SpuriousWakeup, ClientMoves, ExecutorStep, Running
<1> QED
  BY <1>2, <1>3, <1>4, <1>5, <1>6, <1>7, <1>8, <1>9, <1>10, <1>11, <1>12, <1>13, <1>15, <1>16,
     <1>17, <1>18, <1>19 DEF Next, WorkerStep, ClientStep

(* The queue keeps the promises of DeferredWorkQueue.hpp, priority         *)
(* excepted: one package at a time, normal ones in order, a deferred one   *)
(* not before its time, the one most far in the past first, and those with *)
(* equal times in the order in which they were added.                      *)
THEOREM Refinement == Spec => ImplementsExecutor
<1>1. Init => Executor!Init
  <2>1. 0 \in Times
    BY ConstantsAssumption DEF Times
  <2> QED
    BY <2>1 DEF Init, Executor!Init
<1>2. IInv /\ [Next]_vars => [Executor!Next]_(Executor!executorVars)
  <2>1. ASSUME IInv, Next PROVE [Executor!Next]_(Executor!executorVars)
    BY <2>1, StepRefines DEF ExecutorStep, Executor!executorVars, Running
  <2>2. ASSUME UNCHANGED vars PROVE UNCHANGED Executor!executorVars
    BY <2>2 DEF vars, Executor!executorVars
  <2> QED
    BY <2>1, <2>2
<1> QED
  BY <1>1, <1>2, Invariance, PTL DEF Spec, ImplementsExecutor, Executor!Spec
-----------------------------------------------------------------------------
(* The second half of this module is about SuspendableDWQ, the thread that *)
(* executes such a queue, for any number of stray terminations: no package *)
(* runs while the queue is suspended, the status is settled between calls, *)
(* and neither side of the shared condition variable sleeps when it is its *)
(* turn.                                                                   *)
(*                                                                         *)
(* None of the three is inductive.  The invariant behind them, Phases,     *)
(* says for each call how far the dialogue of caller and thread has come.  *)

Runs == thread \in InsideWork \cup {"locking"}
Rests == thread \in {"waiting", "woken"}

(* No call: the status is settled. *)
Settled ==
  /\ call = "none" /\ callState = "none"
  /\ \/ ctrlStat = "noThread" /\ thread = "none"
     \/ ctrlStat = "suspended" /\ Rests
     \/ ctrlStat = "running" /\ Runs

(* A request has been made, or it has been answered and the caller is on    *)
(* its way.  The termination flag plays no part.                            *)
Suspending ==
  /\ call \in {"Start", "Suspend"}
  /\ \/ ctrlStat = "suspendReq" /\ Runs /\ callState \in {"waiting", "woken"}
     \/ ctrlStat = "suspended" /\ Rests /\ callState = "woken"

Resuming ==
  /\ call = "Resume"
  /\ \/ ctrlStat = "startReq" /\ thread = "woken" /\ callState \in {"waiting", "woken"}
     \/ ctrlStat = "running" /\ Runs /\ callState = "woken"

Stopping ==
  /\ call = "Stop" /\ callState = "none"
  /\ \/ ctrlStat = "terminateReq" /\ (Runs \/ thread = "woken")
     \/ ctrlStat = "noThread" /\ thread = "ended"

Phases == Settled \/ Suspending \/ Resuming \/ Stopping

SuspendableInv == SuspendableTypeOK /\ Phases

(* The initial state is settled. *)
LEMMA InitEstablishesSuspendableInv == SuspendableInit => SuspendableInv
<1> SUFFICES ASSUME SuspendableInit PROVE SuspendableInv
  OBVIOUS
<1>1. SuspendableTypeOK
  <2>1. stray \in 0 .. MaxStray
    BY MaxStrayAssumption DEF SuspendableInit
  <2>2. terminateDWQ \in BOOLEAN
    BY DEF SuspendableInit
  <2> QED
    BY <2>1, <2>2 DEF SuspendableInit, SuspendableTypeOK, InsideWork
<1>2. Settled
  BY DEF SuspendableInit, Settled
<1> QED
  BY <1>1, <1>2 DEF SuspendableInv, Phases

(* Each action of a caller, of the thread and of the queue preserves SuspendableInv.  *)
LEMMA SuspendableInvStep == SuspendableInv /\ [SuspendableNext]_suspendableVars => SuspendableInv'
<1> SUFFICES ASSUME SuspendableInv, [SuspendableNext]_suspendableVars PROVE SuspendableInv'
  OBVIOUS
<1> USE MaxStrayAssumption DEF SuspendableInv, SuspendableTypeOK, Phases, Settled, Suspending,
                               Resuming, Stopping, Runs, Rests, InsideWork, Requests
<1>1. CASE Start
  BY <1>1 DEF Start
<1>2. CASE Suspend
  BY <1>2 DEF Suspend, SignalThread
<1>3. CASE Resume
  BY <1>3 DEF Resume, SignalThread
<1>4. CASE Stop
  BY <1>4 DEF Stop, SignalThread
<1>5. CASE CallWakes
  BY <1>5 DEF CallWakes, Awaited
<1>6. CASE StopReturns
  BY <1>6 DEF StopReturns
<1>7. CASE StrayTermination
  BY <1>7 DEF StrayTermination
<1>8. CASE KeepRunning
  BY <1>8 DEF KeepRunning
<1>9. CASE ObeyStart
  BY <1>9 DEF ObeyStart, HasMutex, Answer
<1>10. CASE ObeySuspend
  BY <1>10 DEF ObeySuspend, HasMutex, Answer
<1>11. CASE ObeyTerminate
  BY <1>11 DEF ObeyTerminate, HasMutex, Answer
<1>12. CASE WaitAgain
  BY <1>12 DEF WaitAgain, HasMutex
<1>13. CASE EnterDWQWork \/ EndPackage \/ WorkReturns \/ StartPackage
  BY <1>13 DEF EnterDWQWork, EndPackage, WorkReturns, StartPackage, ThreadMoves
<1>14. CASE WaitEndsSpuriously
  BY <1>14 DEF WaitEndsSpuriously, ThreadMoves
<1>15. CASE UNCHANGED suspendableVars
  BY <1>15 DEF suspendableVars
<1> QED
  BY <1>1, <1>2, <1>3, <1>4, <1>5, <1>6, <1>7, <1>8, <1>9, <1>10, <1>11, <1>12, <1>13,
     <1>14, <1>15 DEF SuspendableNext, CallStep, ThreadStep

(* The dialogue is always in one of its phases. *)
THEOREM SuspendableInvariance == SuspendableSpec => []SuspendableInv
  BY InitEstablishesSuspendableInv, SuspendableInvStep, PTL DEF SuspendableSpec

(* No package is executed while the status says suspended or stopped. *)
THEOREM Quiet == SuspendableSpec => []SuspendedIsQuiet
<1>1. SuspendableInv => SuspendedIsQuiet
  BY DEF SuspendableInv, Phases, Settled, Suspending, Resuming, Stopping, Runs, Rests,
         SuspendedIsQuiet, InsideWork
<1> QED
  BY <1>1, SuspendableInvariance, PTL

(* Between two calls the status agrees with the thread. *)
THEOREM SettledCorrect == SuspendableSpec => []SettledBetweenCalls
<1>1. SuspendableInv => SettledBetweenCalls
  BY DEF SuspendableInv, Phases, Settled, Suspending, Resuming, Stopping, Runs, Rests,
         SettledBetweenCalls, InsideWork, Requests
<1> QED
  BY <1>1, SuspendableInvariance, PTL

(* A wait for a request or an answer ends when it has come. *)
THEOREM NeitherSideOversleeps == SuspendableSpec => []NoLostWakeup
<1>1. SuspendableInv => NoLostWakeup
  BY DEF SuspendableInv, Phases, Settled, Suspending, Resuming, Stopping, Runs, Rests,
         NoLostWakeup, Awaited, InsideWork, Requests
<1> QED
  BY <1>1, SuspendableInvariance, PTL
=============================================================================
