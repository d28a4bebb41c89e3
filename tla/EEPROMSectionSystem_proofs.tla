---------------------- MODULE EEPROMSectionSystem_proofs ----------------------
(***************************************************************************)
(* Proofs about EEPROMSectionSystem for a storage of any size, any names,  *)
(* contents, hashes, number of versions and chunk sizes, any number of     *)
(* readers and writers, with power failures and failed writes at every     *)
(* block.                                                                  *)
(*                                                                         *)
(* A mounted section system has a layout: the blocks are partitioned into  *)
(* the list of free blocks, one chain per section and one per writer       *)
(* (IsLayout).  Each call decides at its begin what it writes; the lemmas  *)
(* ...Keeps say that these writes, all made, lead to a layout again        *)
(* (IsCall).  What a power failure leaves of them need not have a layout,  *)
(* but its heads come in rival pairs of different versions at most         *)
(* (Compatible), and from that alone Repair makes a layout (RepairKeeps).  *)
(* Both together are the invariant, StorageInv.                            *)
(*                                                                         *)
(* Algorithms that walk along the blocks are defined by recursive          *)
(* functions; what they compute is proved by induction over a set of       *)
(* numbers (SetInduction).                                                 *)
(***************************************************************************)
EXTENDS EEPROMSectionSystem, SequenceTheorems, FiniteSetTheorems, WellFoundedInduction, TLAPS

(* Induction, stated with a set instead of a predicate.                    *)
LEMMA LessThanWellFounded ==
  \E R : IsWellFoundedOn(R, Nat) /\ \A x, y \in Nat : y < x => <<y, x>> \in R
<1> DEFINE R == OpToRel(<, Nat)
<1>1. IsWellFoundedOn(R, Nat)
  BY NatLessThanWellFounded
<1>2. \A x, y \in Nat : y < x => <<y, x>> \in R
  BY DEF OpToRel
<1> HIDE DEF R
<1> QED
  BY <1>1, <1>2

LEMMA LeastElement ==
  ASSUME NEW T \in SUBSET Nat, T # {}
  PROVE  \E x \in T : \A y \in T : x <= y
<1>1. PICK R : IsWellFoundedOn(R, Nat) /\ \A x, y \in Nat : y < x => <<y, x>> \in R
  BY LessThanWellFounded
<1>2. PICK x \in T : \A y \in T : ~ (<<y, x>> \in R)
  BY WFMin, <1>1
<1>3. ASSUME NEW y \in T PROVE x <= y
  <2>1. x \in Nat /\ y \in Nat
    OBVIOUS
  <2>2. ~ (y < x)
    BY <1>1, <1>2, <2>1
  <2> QED
    BY <2>1, <2>2
<1> QED
  BY <1>3

LEMMA SetInduction ==
  ASSUME NEW S, 0 \in S, \A n \in Nat : n \in S => n + 1 \in S
  PROVE  \A n \in Nat : n \in S
<1> DEFINE T == {n \in Nat : n \notin S}
<1>1. SUFFICES ASSUME T # {} PROVE FALSE
  OBVIOUS
<1>2. PICK x \in T : \A y \in T : x <= y
  BY LeastElement, <1>1
<1>3. x # 0 /\ x - 1 \in Nat /\ x - 1 \notin T
  BY <1>2
<1> QED
  BY <1>3, <1>2

(* A finite interval of steps from m on. *)
LEMMA IntervalInduction ==
  ASSUME NEW m \in Nat, NEW n \in Nat, NEW S,
         m \in S, \A k \in Nat : m < k /\ k <= n /\ k - 1 \in S => k \in S
  PROVE  \A k \in m..n : k \in S
<1> DEFINE T == {j \in Nat : m + j <= n => m + j \in S}
<1>1. 0 \in T
  OBVIOUS
<1>2. ASSUME NEW j \in Nat, j \in T PROVE j + 1 \in T
  <2>1. m + (j + 1) \in Nat /\ m < m + (j + 1) /\ (m + (j + 1)) - 1 = m + j /\ m + (j + 1) = (m + j) + 1
    OBVIOUS
  <2>2. CASE m + (j + 1) <= n
    <3>1. m + j <= n
      BY <2>2, <2>1
    <3>2. m + j \in S
      BY <1>2, <3>1
    <3> QED
      BY <3>2, <2>1, <2>2
  <2> QED
    BY <2>2
<1> HIDE DEF T
<1>3. \A j \in Nat : j \in T
  BY <1>1, <1>2, SetInduction
<1>4. ASSUME NEW k \in m..n PROVE k \in S
  <2>1. k - m \in Nat /\ m + (k - m) = k /\ k <= n
    OBVIOUS
  <2>2. k - m \in T
    BY <2>1, <1>3
  <2> QED
    BY <2>1, <2>2 DEF T
<1> QED
  BY <1>4

(* The largest element of a set of indices. *)
LEMMA LargestElement ==
  ASSUME NEW n \in Nat, NEW S \in SUBSET (1..n), S # {}
  PROVE  \E x \in S : \A y \in S : y <= x
<1> DEFINE T == {z \in Nat : \E y \in S : z = n - y}
<1>1. T \in SUBSET Nat /\ T # {}
  <2>1. PICK y \in S : TRUE
    OBVIOUS
  <2>2. n - y \in T
    OBVIOUS
  <2> QED
    BY <2>2
<1>2. PICK z \in T : \A y \in T : z <= y
  BY <1>1, LeastElement
<1>3. PICK x \in S : z = n - x
  OBVIOUS
<1>4. ASSUME NEW y \in S PROVE y <= x
  <2>1. n - y \in T
    OBVIOUS
  <2>2. n - x <= n - y
    BY <2>1, <1>2, <1>3
  <2> QED
    BY <2>2
<1> QED
  BY <1>4

(* The recursion of Follow is well-founded. *)
LEMMA FollowSteps ==
  ASSUME StorageAssumption, NEW st, NEW start
  PROVE  /\ Follow(st, start)[1] = start
         /\ \A k \in 1..(NBlocks - 1) :
              Follow(st, start)[k + 1] =
                IF Follow(st, start)[k] = NoBlock THEN NoBlock
                ELSE st[Follow(st, start)[k]].next
<1> DEFINE step(b) == IF b = NoBlock THEN NoBlock ELSE st[b].next
           IsRun(g, n) == g = [k \in 1..n |-> IF k = 1 THEN start ELSE step(g[k - 1])]
           T == {n \in Nat : \E g : IsRun(g, n)}
<1>1. 0 \in T
  <2>1. IsRun([k \in 1..0 |-> start], 0)
    OBVIOUS
  <2> QED
    BY <2>1
<1>2. ASSUME NEW n \in Nat, n \in T PROVE n + 1 \in T
  <2>1. PICK g : IsRun(g, n)
    BY <1>2
  <2> DEFINE h == [k \in 1..(n + 1) |-> IF k = 1 THEN start ELSE step(g[k - 1])]
  <2>0. \A k \in 1..n : g[k] = IF k = 1 THEN start ELSE step(g[k - 1])
    BY <2>1
  <2>2. ASSUME NEW k \in 1..n PROVE h[k] = g[k]
    BY <2>0
  <2>3. ASSUME NEW k \in 1..(n + 1)
        PROVE  h[k] = IF k = 1 THEN start ELSE step(h[k - 1])
    <3>1. CASE k = 1
      BY <3>1
    <3>2. CASE k # 1
      <4>1. k - 1 \in 1..n
        BY <3>2
      <4>2. h[k - 1] = g[k - 1]
        BY <4>1, <2>2
      <4> QED
        BY <3>2, <4>2
    <3> QED
      BY <3>1, <3>2
  <2>4. IsRun(h, n + 1)
    BY <2>3
  <2> HIDE DEF h, IsRun
  <2> QED
    BY <2>4
<1> HIDE DEF T
<1>3. \A n \in Nat : n \in T
  BY <1>1, <1>2, SetInduction
<1>4. NBlocks \in Nat /\ NBlocks >= 3
  BY DEF StorageAssumption
<1>5. \E g : IsRun(g, NBlocks)
  BY <1>3, <1>4 DEF T
<1>6. Follow(st, start) = CHOOSE g : IsRun(g, NBlocks)
  BY ZenonT(30) DEF Follow
<1>7. IsRun(Follow(st, start), NBlocks)
  BY <1>5, <1>6
<1> QED
  BY <1>7, <1>4

LEMMA Sizes ==
  ASSUME StorageAssumption
  PROVE  /\ NBlocks \in Nat /\ NBlocks >= 3 /\ NBlocks - 1 \in Nat
         /\ NoBlock \notin Block /\ Unreadable \notin Block /\ Ambiguous \notin Block
         /\ Unreadable # NoBlock /\ Ambiguous # NoBlock /\ Ambiguous # Unreadable
         /\ NoBlock \in Nat /\ Block \subseteq Nat
BY DEF StorageAssumption, Block, NoBlock, Unreadable, Ambiguous

LEMMA IsSequence ==
  ASSUME NEW S, NEW n \in Nat, NEW c \in [1..n -> S]
  PROVE  c \in Seq(S) /\ Len(c) = n
<1>1. c \in UNION {[1..m -> S] : m \in Nat}
  OBVIOUS
<1>2. c \in Seq(S)
  BY <1>1, SeqDef, Zenon
<1>3. DOMAIN c = 1..Len(c) /\ Len(c) \in Nat
  BY <1>2, LenProperties
<1>4. DOMAIN c = 1..n
  OBVIOUS
<1>5. \A k \in Nat : k \in 1..Len(c) <=> k \in 1..n
  BY <1>3, <1>4
<1>6. ~ (Len(c) < n) /\ ~ (n < Len(c))
  BY <1>3, <1>5
<1> QED
  BY <1>2, <1>3, <1>6

LEMMA RunLengthStops ==
  ASSUME StorageAssumption, NEW S, S \subseteq 1..(NBlocks - 1)
  PROVE  /\ RunLength(S) \in 1..NBlocks
         /\ RunLength(S) \notin S
         /\ \A j \in 1..(RunLength(S) - 1) : j \in S
<1> DEFINE T == {k \in Nat : 1 <= k /\ k \notin S}
<1>1. NBlocks \in T
  BY Sizes
<1> HIDE DEF T
<1>2. PICK k \in T : \A j \in T : k <= j
  <2>1. T \in SUBSET Nat
    BY DEF T
  <2> QED
    BY <1>1, <2>1, LeastElement
<1>3. k \in 1..NBlocks /\ k \notin S
  BY <1>1, <1>2, Sizes DEF T
<1>4. \A j \in 1..(k - 1) : j \in S
  BY <1>2, <1>3, Sizes DEF T
<1> QED
  BY <1>3, <1>4 DEF RunLength

(* ... nowhere else. *)
LEMMA RunLengthIs ==
  ASSUME StorageAssumption, NEW S, S \subseteq 1..(NBlocks - 1),
         NEW n \in 1..NBlocks, n \notin S, \A j \in 1..(n - 1) : j \in S
  PROVE  RunLength(S) = n
<1>1. /\ RunLength(S) \in 1..NBlocks
      /\ RunLength(S) \notin S
      /\ \A j \in 1..(RunLength(S) - 1) : j \in S
  BY RunLengthStops
<1>2. ~ (RunLength(S) < n)
  BY <1>1
<1>3. ~ (n < RunLength(S))
  BY <1>1, Sizes
<1> QED
  BY <1>1, <1>2, <1>3, Sizes

(* The next block of every block is a block or nothing. *)
Linked(st) == \A b \in Block : st[b].next \in Block \cup {NoBlock}

IsDistinct(c) == \A j, k \in 1..Len(c) : c[j] = c[k] => j = k
IsLinked(st, c) == \A k \in 1..(Len(c) - 1) : st[c[k]].next = c[k + 1]

LEMMA FollowType ==
  ASSUME StorageAssumption, NEW st, Linked(st), NEW start \in Block
  PROVE  \A k \in 1..NBlocks : Follow(st, start)[k] \in Block \cup {NoBlock}
<1> DEFINE nth == Follow(st, start)
           S == {k \in Nat : nth[k] \in Block \cup {NoBlock}}
<1>1. 1 \in S
  BY FollowSteps
<1>2. ASSUME NEW k \in Nat, 1 < k, k <= NBlocks, k - 1 \in S PROVE k \in S
  <2>1. k - 1 \in 1..(NBlocks - 1) /\ (k - 1) + 1 = k
    BY <1>2, Sizes
  <2>2. nth[k] = IF nth[k - 1] = NoBlock THEN NoBlock ELSE st[nth[k - 1]].next
    BY <2>1, FollowSteps
  <2> QED
    BY <2>2, <1>2 DEF Linked
<1> HIDE DEF S
<1>3. \A k \in 1..NBlocks : k \in S
  BY <1>1, <1>2, IntervalInduction, Sizes
<1> QED
  BY <1>3 DEF S

(* Different blocks: there are not more of them than the storage has. *)
LEMMA DistinctBlocks ==
  ASSUME StorageAssumption, NEW n \in Nat, NEW c \in [1..n -> Block],
         \A j, k \in 1..n : c[j] = c[k] => j = k
  PROVE  n <= NBlocks - 1
<1>0. 1 \in Int /\ NBlocks - 1 \in Int /\ ~ (1 > NBlocks - 1) /\ (NBlocks - 1) - 1 + 1 = NBlocks - 1
  BY Sizes
<1>1. IsFiniteSet(1..(NBlocks - 1)) /\ Cardinality(1..(NBlocks - 1)) = NBlocks - 1
  BY FS_Interval, <1>0
<1>2. IsFiniteSet(1..n) /\ Cardinality(1..n) = n
  BY FS_Interval
<1>3. CASE n > NBlocks - 1
  <2>1. Cardinality(1..(NBlocks - 1)) < Cardinality(1..n)
    BY <1>1, <1>2, <1>3
  <2>3. c \in [1..n -> 1..(NBlocks - 1)]
    BY DEF Block
  <2>2. \E x, y \in 1..n : x # y /\ c[x] = c[y]
    BY <1>1, <1>2, <2>1, <2>3, FS_PigeonHole
  <2> QED
    BY <2>2
<1> QED
  BY <1>3, Sizes

GoesOn(st, start, S) ==
  /\ S \subseteq 1..(NBlocks - 1)
  /\ \A k \in S : /\ Follow(st, start)[k + 1] # NoBlock
                  /\ \A j \in 1..k : Follow(st, start)[j] # Follow(st, start)[k + 1]

IsRunOf(c, st, start, S) == c = [k \in 1..RunLength(S) |-> Follow(st, start)[k]]
Shaped(st, start, S, c) ==
  /\ c \in Seq(Block) /\ c # <<>> /\ Len(c) \in 1..(NBlocks - 1) /\ c[1] = start
  /\ IsDistinct(c) /\ IsLinked(st, c)
  /\ \A k \in 1..(Len(c) - 1) : k \in S
  /\ Len(c) \notin S

LEMMA ChainShape ==
  ASSUME StorageAssumption, NEW st, Linked(st), NEW start \in Block, NEW S, GoesOn(st, start, S),
         NEW c, IsRunOf(c, st, start, S)
  PROVE  Shaped(st, start, S, c)
<1>0. c = [k \in 1..RunLength(S) |-> Follow(st, start)[k]]
  BY DEF IsRunOf
<1> DEFINE nth == Follow(st, start)
           n == RunLength(S)
<1>1. /\ n \in 1..NBlocks /\ n \notin S /\ \A j \in 1..(n - 1) : j \in S
  BY RunLengthStops DEF GoesOn
<1>2. \A k \in 1..n : nth[k] \in Block
  <2> TAKE k \in 1..n
  <2>1. nth[k] \in Block \cup {NoBlock}
    BY <1>1, FollowType, Sizes
  <2>2. CASE k = 1
    BY <2>2, FollowSteps
  <2>3. CASE k # 1
    <3>1. k - 1 \in S /\ (k - 1) + 1 = k
      BY <1>1, <2>3, Sizes
    <3> QED
      BY <3>1, <2>1 DEF GoesOn
  <2> QED
    BY <2>2, <2>3
<1>3. \A k \in 1..(n - 1) : nth[k + 1] = st[nth[k]].next
  <2> TAKE k \in 1..(n - 1)
  <2>1. k \in 1..(NBlocks - 1) /\ k \in 1..n
    BY <1>1, Sizes
  <2> QED
    BY <2>1, <1>2, FollowSteps, Sizes
<1>4. \A j, k \in 1..n : j < k => nth[j] # nth[k]
  <2> TAKE j, k \in 1..n
  <2> HAVE j < k
  <2>1. k - 1 \in S /\ (k - 1) + 1 = k /\ j \in 1..(k - 1)
    BY <1>1, Sizes
  <2> QED
    BY <2>1 DEF GoesOn
<1> HIDE DEF nth, n
<1>5. c \in [1..n -> Block] /\ n \in Nat /\ DOMAIN c = 1..n
  BY <1>0, <1>1, <1>2, Sizes DEF nth, n
<1>6. c \in Seq(Block) /\ Len(c) = n
  BY <1>5, IsSequence
<1>7. \A j, k \in 1..n : c[j] = c[k] => j = k
  BY <1>0, <1>4, <1>1, Sizes DEF nth, n
<1>8. n <= NBlocks - 1
  BY <1>5, <1>7, DistinctBlocks
<1>9. c[1] = start
  BY <1>0, <1>1, FollowSteps DEF nth, n
<1>10. IsDistinct(c) /\ IsLinked(st, c)
  <2>1. IsDistinct(c)
    BY <1>6, <1>7 DEF IsDistinct
  <2>2. IsLinked(st, c)
    BY <1>0, <1>6, <1>3, <1>1 DEF IsLinked, nth, n
  <2> QED
    BY <2>1, <2>2
<1>11. c # <<>> /\ Len(c) \in 1..(NBlocks - 1)
  BY <1>1, <1>6, <1>8, Sizes DEF n
<1>12. (\A k \in 1..(Len(c) - 1) : k \in S) /\ Len(c) \notin S
  BY <1>1, <1>6 DEF n
<1> QED
  BY <1>6, <1>9, <1>10, <1>11, <1>12 DEF Shaped

(* What Follow does along a chain that is known. *)
LEMMA FollowAlong ==
  ASSUME StorageAssumption, NEW st, NEW c \in Seq(Block), c # <<>>, IsLinked(st, c),
         Len(c) <= NBlocks
  PROVE  /\ \A k \in 1..Len(c) : Follow(st, c[1])[k] = c[k]
         /\ Len(c) < NBlocks => Follow(st, c[1])[Len(c) + 1] = st[c[Len(c)]].next
<1> DEFINE nth == Follow(st, c[1])
           S == {k \in Nat : k \in 1..Len(c) => nth[k] = c[k]}
<1>0. Len(c) \in Nat /\ Len(c) >= 1
  OBVIOUS
<1>1. 1 \in S
  BY FollowSteps
<1>2. ASSUME NEW k \in Nat, 1 < k, k <= Len(c), k - 1 \in S PROVE k \in S
  <2>1. k - 1 \in 1..(NBlocks - 1) /\ (k - 1) + 1 = k /\ k - 1 \in 1..(Len(c) - 1) /\ k - 1 \in 1..Len(c)
    BY <1>2, <1>0, Sizes
  <2>2. nth[k] = IF nth[k - 1] = NoBlock THEN NoBlock ELSE st[nth[k - 1]].next
    BY <2>1, FollowSteps
  <2>3. nth[k - 1] = c[k - 1] /\ c[k - 1] \in Block
    BY <2>1, <1>2
  <2>4. st[c[k - 1]].next = c[k]
    BY <2>1 DEF IsLinked
  <2> QED
    BY <2>2, <2>3, <2>4, Sizes
<1> HIDE DEF S
<1>3. \A k \in 1..Len(c) : k \in S
  BY <1>0, <1>1, <1>2, IntervalInduction
<1>4. \A k \in 1..Len(c) : nth[k] = c[k]
  BY <1>3 DEF S
<1>5. ASSUME Len(c) < NBlocks PROVE nth[Len(c) + 1] = st[c[Len(c)]].next
  <2>1. Len(c) \in 1..(NBlocks - 1) /\ c[Len(c)] \in Block /\ Len(c) \in 1..Len(c)
    BY <1>5, <1>0, Sizes
  <2>2. nth[Len(c)] = c[Len(c)] /\ c[Len(c)] # NoBlock
    BY <2>1, <1>4, Sizes
  <2>3. nth[Len(c) + 1] = IF nth[Len(c)] = NoBlock THEN NoBlock ELSE st[nth[Len(c)]].next
    BY <2>1, FollowSteps
  <2> QED
    BY <2>2, <2>3
<1> QED
  BY <1>4, <1>5

(* A chain that is linked, in which every block may follow, and that       *)
(* cannot be continued, is the one that is found.                          *)
LEMMA ChainIs ==
  ASSUME StorageAssumption, NEW st, NEW c \in Seq(Block), c # <<>>, IsLinked(st, c),
         IsDistinct(c), NEW S, S \subseteq 1..(NBlocks - 1),
         \A k \in 1..(Len(c) - 1) : k \in S, Len(c) \notin S
  PROVE  [k \in 1..RunLength(S) |-> Follow(st, c[1])[k]] = c
<1>1. Len(c) \in Nat /\ Len(c) >= 1 /\ c \in [1..Len(c) -> Block]
  OBVIOUS
<1>2. Len(c) <= NBlocks - 1
  BY <1>1, DistinctBlocks DEF IsDistinct
<1>5. Len(c) \in 1..NBlocks /\ Len(c) <= NBlocks
  BY <1>1, <1>2, Sizes
<1>3. RunLength(S) = Len(c)
  BY <1>5, RunLengthIs
<1>4. \A k \in 1..Len(c) : Follow(st, c[1])[k] = c[k]
  BY <1>5, FollowAlong
<1> QED
  BY <1>1, <1>3, <1>4

IsFunction(st) == st = [b \in DOMAIN st |-> st[b]]
IsLastWrite(ws, k, b) == /\ k \in 1..Len(ws) /\ ws[k][1] = b
                         /\ \A j \in 1..Len(ws) : ws[j][1] = b => j <= k
NotWritten(ws, b) == \A k \in 1..Len(ws) : ws[k][1] # b

LEMMA AfterValue ==
  ASSUME NEW st, NEW T, NEW ws \in Seq(T), NEW b \in DOMAIN st
  PROVE  /\ NotWritten(ws, b) => After(st, ws)[b] = st[b]
         /\ \A k : IsLastWrite(ws, k, b) => After(st, ws)[b] = ws[k][2]
         /\ NotWritten(ws, b) \/ \E k \in 1..Len(ws) : IsLastWrite(ws, k, b)
<1> DEFINE ks == {k \in DOMAIN ws : ws[k][1] = b}
<1>1. DOMAIN ws = 1..Len(ws) /\ Len(ws) \in Nat
  OBVIOUS
<1>2. After(st, ws)[b] = IF ks = {} THEN st[b]
                         ELSE ws[CHOOSE k \in ks : \A j \in ks : j <= k][2]
  BY DEF After
<1>3. NotWritten(ws, b) <=> ks = {}
  BY <1>1 DEF NotWritten
<1>4. \A k : IsLastWrite(ws, k, b) <=> k \in ks /\ \A j \in ks : j <= k
  BY <1>1 DEF IsLastWrite
<1>5. ks # {} => \E k \in ks : \A j \in ks : j <= k
  BY <1>1, LargestElement
<1>6. ks \in SUBSET Nat
  BY <1>1
<1> HIDE DEF ks
<1>7. ASSUME NEW k, k \in ks, \A j \in ks : j <= k
      PROVE  (CHOOSE i \in ks : \A j \in ks : j <= i) = k
  <2> DEFINE m == CHOOSE i \in ks : \A j \in ks : j <= i
  <2>1. m \in ks /\ \A j \in ks : j <= m
    BY <1>7
  <2>2. m <= k /\ k <= m /\ m \in Nat /\ k \in Nat
    BY <1>6, <1>7, <2>1
  <2> QED
    BY <2>2
<1>8. \A k : IsLastWrite(ws, k, b) => After(st, ws)[b] = ws[k][2]
  BY <1>2, <1>4, <1>7
<1>9. NotWritten(ws, b) \/ \E k \in 1..Len(ws) : IsLastWrite(ws, k, b)
  BY <1>3, <1>4, <1>5 DEF IsLastWrite
<1> QED
  BY <1>2, <1>3, <1>8, <1>9

LEMMA AfterDomain ==
  ASSUME NEW st, NEW ws
  PROVE  DOMAIN After(st, ws) = DOMAIN st /\ IsFunction(After(st, ws))
BY DEF After, IsFunction

LEMMA AfterNothing ==
  ASSUME NEW st, IsFunction(st)
  PROVE  After(st, <<>>) = st
<1>1. \A b \in DOMAIN st : After(st, <<>>)[b] = st[b]
  BY DEF After
<1> QED
  BY <1>1, AfterDomain DEF IsFunction

LEMMA AfterOne ==
  ASSUME NEW st, IsFunction(st), NEW b, NEW x
  PROVE  After(st, <<<<b, x>>>>) = [st EXCEPT ![b] = x]
<1> DEFINE ws == <<<<b, x>>>>
<1>1. ws \in Seq({<<b, x>>}) /\ Len(ws) = 1 /\ ws[1][1] = b /\ ws[1][2] = x
  OBVIOUS
<1> HIDE DEF ws
<1>2. ASSUME NEW c \in DOMAIN st PROVE After(st, ws)[c] = IF c = b THEN x ELSE st[c]
  <2>1. c = b => IsLastWrite(ws, 1, c)
    BY <1>1 DEF IsLastWrite
  <2>2. c # b => NotWritten(ws, c)
    BY <1>1 DEF NotWritten
  <2> QED
    BY <1>1, <2>1, <2>2, AfterValue
<1>3. After(st, ws) = [c \in DOMAIN st |-> After(st, ws)[c]]
  BY AfterDomain DEF IsFunction
<1>4. [st EXCEPT ![b] = x] = [c \in DOMAIN st |-> IF c = b THEN x ELSE st[c]]
  OBVIOUS
<1> QED
  BY <1>2, <1>3, <1>4 DEF ws

LEMMA AfterBoth ==
  ASSUME NEW st, NEW T, NEW ws \in Seq(T), NEW vs \in Seq(T)
  PROVE  After(After(st, ws), vs) = After(st, ws \o vs)
<1> DEFINE us == ws \o vs
<1>1. /\ us \in Seq(T) /\ Len(us) = Len(ws) + Len(vs) /\ Len(ws) \in Nat /\ Len(vs) \in Nat
      /\ \A i \in 1..Len(ws) : us[i] = ws[i]
      /\ \A i \in 1..Len(vs) : us[Len(ws) + i] = vs[i]
      /\ \A i \in 1..Len(us) : i \notin 1..Len(ws) => i - Len(ws) \in 1..Len(vs) /\ us[i] = vs[i - Len(ws)]
  BY ConcatProperties
<1> HIDE DEF us
<1>2. ASSUME NEW b \in DOMAIN st PROVE After(After(st, ws), vs)[b] = After(st, us)[b]
  <2>0. b \in DOMAIN After(st, ws)
    BY AfterDomain
  <2>1. CASE NotWritten(vs, b) /\ NotWritten(ws, b)
    <3>1. NotWritten(us, b)
      BY <1>1, <2>1 DEF NotWritten
    <3> QED
      BY <2>0, <2>1, <3>1, <1>1, AfterValue
  <2>2. CASE NotWritten(vs, b) /\ ~NotWritten(ws, b)
    <3>1. PICK k \in 1..Len(ws) : IsLastWrite(ws, k, b)
      BY <2>2, AfterValue
    <3>2. IsLastWrite(us, k, b)
      <4>1. k \in 1..Len(us) /\ us[k][1] = b
        BY <1>1, <3>1 DEF IsLastWrite
      <4>2. ASSUME NEW j \in 1..Len(us), us[j][1] = b PROVE j <= k
        <5>1. CASE j \in 1..Len(ws)
          BY <5>1, <1>1, <3>1, <4>2 DEF IsLastWrite
        <5>2. CASE j \notin 1..Len(ws)
          <6>1. j - Len(ws) \in 1..Len(vs) /\ vs[j - Len(ws)][1] = b
            BY <5>2, <1>1, <4>2
          <6> QED
            BY <6>1, <2>2 DEF NotWritten
        <5> QED
          BY <5>1, <5>2
      <4> QED
        BY <4>1, <4>2 DEF IsLastWrite
    <3>3. us[k] = ws[k]
      BY <1>1
    <3>4. After(st, us)[b] = us[k][2]
      BY <3>2, <1>1, AfterValue
    <3>5. After(After(st, ws), vs)[b] = After(st, ws)[b]
      BY <2>0, <2>2, AfterValue
    <3>6. After(st, ws)[b] = ws[k][2]
      BY <3>1, AfterValue
    <3> QED
      BY <3>3, <3>4, <3>5, <3>6
  <2>3. CASE ~NotWritten(vs, b)
    <3>1. PICK k \in 1..Len(vs) : IsLastWrite(vs, k, b)
      BY <2>0, <2>3, AfterValue
    <3>2. IsLastWrite(us, Len(ws) + k, b)
      <4>1. Len(ws) + k \in 1..Len(us) /\ us[Len(ws) + k][1] = b
        BY <1>1, <3>1 DEF IsLastWrite
      <4>2. ASSUME NEW j \in 1..Len(us), us[j][1] = b PROVE j <= Len(ws) + k
        <5>1. CASE j \in 1..Len(ws)
          BY <5>1, <1>1
        <5>2. CASE j \notin 1..Len(ws)
          <6>1. j - Len(ws) \in 1..Len(vs) /\ vs[j - Len(ws)][1] = b
            BY <5>2, <1>1, <4>2
          <6>2. j - Len(ws) <= k
            BY <6>1, <3>1 DEF IsLastWrite
          <6> QED
            BY <6>2, <1>1
        <5> QED
          BY <5>1, <5>2
      <4> QED
        BY <4>1, <4>2 DEF IsLastWrite
    <3>3. us[Len(ws) + k] = vs[k]
      BY <1>1
    <3>4. After(st, us)[b] = us[Len(ws) + k][2]
      BY <3>2, <1>1, AfterValue
    <3>5. After(After(st, ws), vs)[b] = vs[k][2]
      BY <2>0, <3>1, AfterValue
    <3> QED
      BY <3>3, <3>4, <3>5
  <2> QED
    BY <2>1, <2>2, <2>3
<1>3. After(After(st, ws), vs) = [b \in DOMAIN st |-> After(After(st, ws), vs)[b]]
  BY AfterDomain DEF IsFunction
<1>4. After(st, us) = [b \in DOMAIN st |-> After(st, us)[b]]
  BY AfterDomain DEF IsFunction
<1> QED
  BY <1>2, <1>3, <1>4 DEF us

(* One write, then the others *)
LEMMA AfterHead ==
  ASSUME NEW st, IsFunction(st), NEW T, NEW ws \in Seq(T), ws # <<>>,
         Head(ws) = <<Head(ws)[1], Head(ws)[2]>>
  PROVE  After([st EXCEPT ![Head(ws)[1]] = Head(ws)[2]], Tail(ws)) = After(st, ws)
<1>1. /\ Head(ws) \in T /\ Tail(ws) \in Seq(T) /\ <<Head(ws)>> \in Seq(T)
      /\ ws = <<Head(ws)>> \o Tail(ws)
  OBVIOUS
<1>2. After(st, <<Head(ws)>>) = [st EXCEPT ![Head(ws)[1]] = Head(ws)[2]]
  BY AfterOne
<1>3. After(After(st, <<Head(ws)>>), Tail(ws)) = After(st, <<Head(ws)>> \o Tail(ws))
  <2> DEFINE h == <<Head(ws)>>
             t == Tail(ws)
  <2>1. h \in Seq(T) /\ t \in Seq(T)
    BY <1>1
  <2> HIDE DEF h, t
  <2>2. After(After(st, h), t) = After(st, h \o t)
    BY <2>1, AfterBoth
  <2> QED
    BY <2>2 DEF h, t
<1> QED
  BY <1>1, <1>2, <1>3

(* A part of a sequence. *)
LEMMA Slice ==
  ASSUME NEW S, NEW s \in Seq(S), NEW m \in Nat, NEW n \in Nat, 1 <= m, m <= n + 1, n <= Len(s)
  PROVE  /\ SubSeq(s, m, n) \in Seq(S)
         /\ Len(SubSeq(s, m, n)) = n - m + 1
         /\ n - m + 1 \in Nat
         /\ \A i \in 1..(n - m + 1) : SubSeq(s, m, n)[i] = s[m + i - 1]
<1>1. \A i \in m..n : s[i] \in S
  <2> TAKE i \in m..n
  <2>1. i \in 1..Len(s)
    OBVIOUS
  <2> QED
    BY <2>1
<1>2. m \in Int /\ n \in Int
  OBVIOUS
<1>3. /\ SubSeq(s, m, n) \in Seq(S)
      /\ Len(SubSeq(s, m, n)) = IF m <= n THEN n - m + 1 ELSE 0
      /\ \A i \in 1..(n - m + 1) : SubSeq(s, m, n)[i] = s[m + i - 1]
  BY <1>1, <1>2, SubSeqProperties
<1> QED
  BY <1>3

LEMMA FirstPart ==
  ASSUME NEW S, NEW s \in Seq(S), NEW n \in 0..Len(s)
  PROVE  /\ SubSeq(s, 1, n) \in Seq(S) /\ Len(SubSeq(s, 1, n)) = n
         /\ \A i \in 1..n : SubSeq(s, 1, n)[i] = s[i]
<1>1. n \in Nat /\ 1 \in Nat /\ 1 <= 1 /\ 1 <= n + 1 /\ n <= Len(s) /\ n - 1 + 1 = n
  OBVIOUS
<1>2. /\ SubSeq(s, 1, n) \in Seq(S)
      /\ Len(SubSeq(s, 1, n)) = n - 1 + 1
      /\ \A i \in 1..(n - 1 + 1) : SubSeq(s, 1, n)[i] = s[1 + i - 1]
  BY <1>1, Slice, SMTT(20)
<1>3. \A i \in 1..n : 1 + i - 1 = i
  OBVIOUS
<1> QED
  BY <1>1, <1>2, <1>3

LEMMA LastPart ==
  ASSUME NEW S, NEW s \in Seq(S), NEW n \in 0..Len(s)
  PROVE  /\ SubSeq(s, n + 1, Len(s)) \in Seq(S)
         /\ Len(SubSeq(s, n + 1, Len(s))) = Len(s) - n /\ Len(s) - n \in Nat
         /\ \A i \in 1..(Len(s) - n) : SubSeq(s, n + 1, Len(s))[i] = s[n + i]
<1> DEFINE m == n + 1
<1>1. /\ m \in Nat /\ Len(s) \in Nat /\ 1 <= m /\ m <= Len(s) + 1 /\ Len(s) <= Len(s)
      /\ Len(s) - m + 1 = Len(s) - n
  OBVIOUS
<1>3. \A i \in 1..(Len(s) - n) : m + i - 1 = n + i
  OBVIOUS
<1> HIDE DEF m
<1>2. /\ SubSeq(s, m, Len(s)) \in Seq(S)
      /\ Len(SubSeq(s, m, Len(s))) = Len(s) - m + 1
      /\ Len(s) - m + 1 \in Nat
      /\ \A i \in 1..(Len(s) - m + 1) : SubSeq(s, m, Len(s))[i] = s[m + i - 1]
  BY <1>1, Slice, SMTT(20)
<1>4. \A i \in 1..(Len(s) - n) : SubSeq(s, m, Len(s))[i] = s[n + i]
  BY <1>1, <1>2, <1>3
<1> QED
  BY <1>1, <1>2, <1>4 DEF m

(* The chain that is found when the k-th block may be followed for k in Q. *)
Goes(st, start, Q) ==
  {k \in 1..(NBlocks - 1) : /\ Follow(st, start)[k + 1] # NoBlock
                            /\ \A j \in 1..k : Follow(st, start)[j] # Follow(st, start)[k + 1]
                            /\ k \in Q}

LEMMA ChainFound ==
  ASSUME StorageAssumption, NEW st, NEW c \in Seq(Block), c # <<>>, IsLinked(st, c),
         IsDistinct(c), NEW Q, \A k \in 1..(Len(c) - 1) : k \in Q,
         \/ Len(c) \notin Q
         \/ st[c[Len(c)]].next = NoBlock
         \/ \E k \in 1..Len(c) : st[c[Len(c)]].next = c[k]
  PROVE  [k \in 1..RunLength(Goes(st, c[1], Q)) |-> Follow(st, c[1])[k]] = c
<1> DEFINE nth == Follow(st, c[1])
           S == Goes(st, c[1], Q)
<1>1. Len(c) \in Nat /\ Len(c) >= 1 /\ c \in [1..Len(c) -> Block]
  OBVIOUS
<1>2. Len(c) <= NBlocks - 1
  BY <1>1, DistinctBlocks DEF IsDistinct
<1>3. Len(c) \in 1..NBlocks /\ Len(c) <= NBlocks /\ Len(c) < NBlocks /\ Len(c) \in 1..(NBlocks - 1)
  BY <1>1, <1>2, Sizes
<1>4. /\ \A k \in 1..Len(c) : nth[k] = c[k]
      /\ nth[Len(c) + 1] = st[c[Len(c)]].next
  BY <1>3, FollowAlong
<1> HIDE DEF nth
<1>5. ASSUME NEW k \in 1..(Len(c) - 1) PROVE k \in S
  <2>1. k \in 1..(NBlocks - 1) /\ k \in 1..Len(c) /\ k + 1 \in 1..Len(c)
    BY <1>1, <1>3, Sizes
  <2>2. nth[k + 1] = c[k + 1] /\ c[k + 1] \in Block
    BY <2>1, <1>4, <1>1
  <2>3. \A j \in 1..k : nth[j] # nth[k + 1]
    <3> TAKE j \in 1..k
    <3>1. j \in 1..Len(c) /\ j # k + 1
      BY <2>1
    <3> QED
      BY <3>1, <2>1, <1>4 DEF IsDistinct
  <2> QED
    BY <2>1, <2>2, <2>3, Sizes DEF Goes, nth
<1>6. Len(c) \notin S
  <2>1. CASE Len(c) \notin Q
    BY <2>1 DEF Goes
  <2>2. CASE st[c[Len(c)]].next = NoBlock
    BY <2>2, <1>4 DEF Goes, nth
  <2>3. CASE \E k \in 1..Len(c) : st[c[Len(c)]].next = c[k]
    BY <2>3, <1>4 DEF Goes, nth
  <2> QED
    BY <2>1, <2>2, <2>3
<1>7. S \subseteq 1..(NBlocks - 1)
  BY Zenon DEF Goes
<1> HIDE DEF S
<1>8. [k \in 1..RunLength(S) |-> Follow(st, c[1])[k]] = c
  BY <1>5, <1>6, <1>7, ChainIs
<1> QED
  BY <1>8 DEF S

-----------------------------------------------------------------------------
(* The list of free blocks: F are its blocks in order.                     *)
IsFreeList(st, l, F) ==
  /\ F \in Seq(Block) /\ IsDistinct(F)
  /\ l.n = Len(F)
  /\ F = <<>> => l = EmptyList
  /\ F # <<>> => l = [n |-> Len(F), head |-> F[1], end |-> F[Len(F)]]
  /\ \A i \in 1..Len(F) : st[F[i]] = FreeBlock(IF i < Len(F) THEN F[i + 1] ELSE NoBlock)

LEMMA FreeFields ==
  ASSUME NEW x
  PROVE  /\ FreeBlock(x).type = "free" /\ FreeBlock(x).next = x /\ FreeBlock(x).ok = TRUE
         /\ IsReadable(FreeBlock(x), "free")
BY DEF FreeBlock, IsReadable

(* GetBlocksFromListOfFreeBlocks takes the first n blocks.                 *)
LEMMA TakeBlocksTakes ==
  ASSUME StorageAssumption, NEW st, NEW l, NEW F, IsFreeList(st, l, F), NEW n \in 1..Len(F)
  PROVE  LET taken == TakeBlocks(st, l, n)
         IN  /\ taken.ok
             /\ taken.blocks = SubSeq(F, 1, n)
             /\ IsFreeList(st, taken.list, SubSeq(F, n + 1, Len(F)))
<1> DEFINE c == SubSeq(F, 1, n)
           d == SubSeq(F, n + 1, Len(F))
           nth == Follow(st, F[1])
           Q == {k \in 1..(NBlocks - 1) : k < n /\ IsReadable(st[nth[k + 1]], "free")}
<1>1. /\ Len(F) \in Nat /\ F \in [1..Len(F) -> Block] /\ F # <<>> /\ F \in Seq(Block)
      /\ n \in Nat /\ n >= 1 /\ n <= Len(F) /\ IsDistinct(F)
  BY DEF IsFreeList
<1>0. Len(F) \in Nat /\ n \in Nat /\ n >= 1 /\ n <= Len(F) /\ n \in 0..Len(F)
  BY <1>1
<1>2. /\ c \in Seq(Block) /\ Len(c) = n /\ c # <<>>
      /\ \A i \in 1..n : c[i] = F[i]
  BY <1>1
<1>3. /\ d \in Seq(Block) /\ Len(d) = Len(F) - n
      /\ \A i \in 1..(Len(F) - n) : d[i] = F[n + i]
  BY <1>0, <1>1, LastPart
<1>4. Len(F) <= NBlocks - 1
  BY <1>1, DistinctBlocks DEF IsDistinct
<1>5. \A i \in 1..(Len(F) - 1) : st[F[i]] = FreeBlock(F[i + 1])
  BY <1>1 DEF IsFreeList
<1>6. st[F[Len(F)]] = FreeBlock(NoBlock)
  BY <1>1 DEF IsFreeList
<1> HIDE DEF c, d
<1>7. IsDistinct(c) /\ IsDistinct(d)
  BY <1>1, <1>2, <1>3 DEF IsDistinct
<1>8. IsLinked(st, F) /\ IsLinked(st, c)
  <2>1. \A i \in 1..(Len(F) - 1) : st[F[i]].next = F[i + 1]
    BY <1>5, FreeFields
  <2>2. IsLinked(st, F)
    BY <2>1 DEF IsLinked
  <2>3. ASSUME NEW i \in 1..(n - 1) PROVE st[c[i]].next = c[i + 1]
    <3>1. i \in 1..(Len(F) - 1) /\ i \in 1..n /\ i + 1 \in 1..n
      BY <1>1
    <3> QED
      BY <3>1, <2>1, <1>2
  <2> QED
    BY <2>2, <2>3, <1>2 DEF IsLinked
<1>9. \A k \in 1..Len(F) : nth[k] = F[k]
  BY <1>1, <1>4, <1>8, FollowAlong, Sizes
<1>10. \A k \in 1..(n - 1) : k \in Q
  <2> TAKE k \in 1..(n - 1)
  <2>1. k + 1 \in 1..Len(F) /\ k \in 1..(NBlocks - 1)
    BY <1>1, <1>4, Sizes
  <2>2. st[nth[k + 1]] = FreeBlock(IF k + 1 < Len(F) THEN F[(k + 1) + 1] ELSE NoBlock)
    BY <2>1, <1>9 DEF IsFreeList
  <2>3. k < n
    BY <1>1
  <2> QED
    BY <2>1, <2>2, <2>3, FreeFields
<1>11. n \notin Q
  BY <1>1
<1>12. c[1] = F[1] /\ l.head = F[1] /\ l.end = F[Len(F)]
       /\ l.n = Len(F) /\ l.n - n = Len(F) - n
  BY <1>1, <1>2 DEF IsFreeList
<1>13. ChainFrom(st, l.head, LAMBDA k, b, e : k < n /\ IsReadable(st[e], "free")) = c
  <2> HIDE DEF Q
  <2>1. [k \in 1..RunLength(Goes(st, F[1], Q)) |-> nth[k]] = c
    BY <1>2, <1>7, <1>8, <1>10, <1>11, <1>12, ChainFound
  <2>2. Goes(st, F[1], Q) =
          {k \in 1..(NBlocks - 1) : /\ nth[k + 1] # NoBlock
                                    /\ \A j \in 1..k : nth[j] # nth[k + 1]
                                    /\ k < n /\ IsReadable(st[nth[k + 1]], "free")}
    BY DEF Goes, Q
  <2> QED
    BY <2>1, <2>2, <1>12 DEF ChainFrom
<1> DEFINE taken == TakeBlocks(st, l, n)
<1>14. Last(c) = c[n] /\ c[n] = F[n] /\ st[F[n]].next = (IF n < Len(F) THEN F[n + 1] ELSE NoBlock)
  <2>1. n \in 1..Len(F)
    OBVIOUS
  <2>2. st[F[n]] = FreeBlock(IF n < Len(F) THEN F[n + 1] ELSE NoBlock)
    BY <2>1 DEF IsFreeList
  <2>3. st[F[n]].next = (IF n < Len(F) THEN F[n + 1] ELSE NoBlock)
    BY <2>2, FreeFields
  <2>4. Last(c) = c[n] /\ c[n] = F[n]
    BY <1>1, <1>2 DEF Last
  <2> QED
    BY <2>3, <2>4
<1>15. /\ taken.blocks = c
       /\ taken.list = IF l.n - n = 0 THEN EmptyList
                       ELSE [n |-> l.n - n, head |-> st[F[n]].next, end |-> l.end]
       /\ taken.ok = ( /\ IsReadable(st[l.head], "free")
                       /\ Len(c) = n
                       /\ \A i \in 1..(n - 1) : c[i] # l.end
                       /\ (l.n - n = 0) <=> (st[F[n]].next = NoBlock))
  <2>1. ChainFrom(st, l.head, LAMBDA k, b, e : k < n /\ IsReadable(st[e], "free")) = c
    BY <1>13
  <2>2. st[Last(c)].next = st[F[n]].next
    BY <1>14
  <2>3. taken = [blocks |-> c,
                 list |-> IF l.n - n = 0 THEN EmptyList
                          ELSE [n |-> l.n - n, head |-> st[F[n]].next, end |-> l.end],
                 ok |-> /\ IsReadable(st[l.head], "free")
                        /\ Len(c) = n
                        /\ \A i \in 1..(n - 1) : c[i] # l.end
                        /\ (l.n - n = 0) <=> (st[F[n]].next = NoBlock)]
    BY <2>1, <2>2, Zenon DEF TakeBlocks
  <2> HIDE DEF taken
  <2>4. /\ taken.blocks = c
        /\ taken.list = IF l.n - n = 0 THEN EmptyList
                        ELSE [n |-> l.n - n, head |-> st[F[n]].next, end |-> l.end]
    BY <2>3
  <2>5. taken.ok = ( /\ IsReadable(st[l.head], "free")
                     /\ Len(c) = n
                     /\ \A i \in 1..(n - 1) : c[i] # l.end
                     /\ (l.n - n = 0) <=> (st[F[n]].next = NoBlock))
    BY <2>3, Zenon
  <2> QED
    BY <2>4, <2>5
<1>16. taken.ok
  <2>1. IsReadable(st[l.head], "free")
    <3>1. 1 \in 1..Len(F)
      BY <1>1
    <3>2. st[F[1]] = FreeBlock(IF 1 < Len(F) THEN F[1 + 1] ELSE NoBlock)
      BY <3>1 DEF IsFreeList
    <3>3. IsReadable(st[F[1]], "free")
      BY <3>2, FreeFields
    <3> QED
      BY <3>3, <1>12
  <2>2. \A i \in 1..(n - 1) : c[i] # l.end
    BY <1>1, <1>2, <1>12 DEF IsDistinct
  <2>3. (l.n - n = 0) <=> (st[F[n]].next = NoBlock)
    <3>1. CASE n < Len(F)
      <4>1. F[n + 1] \in Block
        BY <1>1, <3>1
      <4>2. l.n - n # 0
        <5>1. Len(F) \in Nat /\ n \in Nat
          BY <1>1
        <5>2. Len(F) - n # 0
          BY <3>1, <5>1
        <5> QED
          BY <1>12, <5>2
      <4>3. st[F[n]].next = F[n + 1] /\ F[n + 1] # NoBlock
        BY <1>14, <3>1, <4>1, Sizes
      <4> QED
        BY <4>2, <4>3
    <3>2. CASE ~ (n < Len(F))
      <4>1. Len(F) \in Nat /\ n \in Nat /\ n <= Len(F)
        BY <1>1
      <4>2. Len(F) - n = 0
        BY <3>2, <4>1
      <4>3. l.n - n = 0
        BY <1>12, <4>2
      <4>4. st[F[n]].next = NoBlock
        BY <1>14, <3>2
      <4> QED
        BY <4>3, <4>4
    <3> QED
      BY <3>1, <3>2
  <2> HIDE DEF taken
  <2> QED
    BY <1>15, <2>1, <2>2, <2>3, <1>2
<1> HIDE DEF taken
<1>17. IsFreeList(st, taken.list, d)
  <2>1. taken.list.n = Len(d) /\ (d = <<>> => taken.list = EmptyList)
    <3>1. CASE n = Len(F)
      BY <3>1, <1>1, <1>3, <1>12, <1>15 DEF EmptyList
    <3>2. CASE n # Len(F)
      <4>0. Len(F) - n # 0
        BY <3>2, <1>0
      <4>1. l.n - n # 0
        BY <4>0, <1>12
      <4> QED
        BY <3>2, <4>1, <1>1, <1>3, <1>12, <1>15
    <3> QED
      BY <3>1, <3>2
  <2>2. ASSUME d # <<>> PROVE taken.list = [n |-> Len(d), head |-> d[1], end |-> d[Len(d)]]
    <3>1. Len(d) >= 1 /\ n < Len(F) /\ l.n - n # 0
      BY <2>2, <1>1, <1>3, <1>12
    <3>2. d[1] = F[n + 1] /\ d[Len(d)] = F[Len(F)]
      <4>1. 1 \in 1..(Len(F) - n) /\ Len(F) - n \in 1..(Len(F) - n) /\ n + (Len(F) - n) = Len(F)
        BY <3>1, <1>1
      <4> QED
        BY <4>1, <1>3
    <3> QED
      BY <3>1, <3>2, <1>3, <1>12, <1>14, <1>15
  <2>3. ASSUME NEW i \in 1..Len(d)
        PROVE  st[d[i]] = FreeBlock(IF i < Len(d) THEN d[i + 1] ELSE NoBlock)
    <3>1. n + i \in 1..Len(F) /\ d[i] = F[n + i] /\ (n + i < Len(F) <=> i < Len(d))
      BY <1>1, <1>3
    <3>2. st[F[n + i]] = FreeBlock(IF n + i < Len(F) THEN F[(n + i) + 1] ELSE NoBlock)
      BY <3>1 DEF IsFreeList
    <3>3. i < Len(d) => d[i + 1] = F[(n + i) + 1]
      <4>1. ASSUME i < Len(d) PROVE d[i + 1] = F[n + (i + 1)]
        BY <4>1, <1>1, <1>3
      <4>2. n + (i + 1) = (n + i) + 1
        BY <1>1
      <4> QED
        BY <4>1, <4>2
    <3> QED
      BY <3>1, <3>2, <3>3
  <2> QED
    BY <1>3, <1>7, <2>1, <2>2, <2>3 DEF IsFreeList
<1> QED
  BY <1>15, <1>16, <1>17 DEF c, d, taken

LEMMA SetOf ==
  ASSUME NEW S, NEW s \in Seq(S)
  PROVE  /\ ToSet(s) = {s[i] : i \in 1..Len(s)}
         /\ \A i \in 1..Len(s) : s[i] \in ToSet(s)
         /\ \A x \in ToSet(s) : x \in S /\ \E i \in 1..Len(s) : s[i] = x
BY DEF ToSet

LEMMA Concat ==
  ASSUME NEW S, NEW s \in Seq(S), NEW t \in Seq(S), NEW u, u = s \o t
  PROVE  /\ u \in Seq(S) /\ Len(u) = Len(s) + Len(t) /\ Len(s) \in Nat /\ Len(t) \in Nat
         /\ \A i \in 1..Len(s) : u[i] = s[i]
         /\ \A i \in 1..Len(t) : u[Len(s) + i] = t[i]
         /\ \A i \in 1..Len(u) : i \notin 1..Len(s) => i - Len(s) \in 1..Len(t) /\ u[i] = t[i - Len(s)]
BY ConcatProperties

LEMMA SetOfBoth ==
  ASSUME NEW S, NEW s \in Seq(S), NEW t \in Seq(S)
  PROVE  ToSet(s \o t) = ToSet(s) \cup ToSet(t)
<1> DEFINE u == s \o t
<1>1. /\ u \in Seq(S) /\ Len(u) = Len(s) + Len(t) /\ Len(s) \in Nat /\ Len(t) \in Nat
      /\ \A i \in 1..Len(s) : u[i] = s[i]
      /\ \A i \in 1..Len(t) : u[Len(s) + i] = t[i]
      /\ \A i \in 1..Len(u) : i \notin 1..Len(s) => i - Len(s) \in 1..Len(t) /\ u[i] = t[i - Len(s)]
  BY ConcatProperties
<1> HIDE DEF u
<1>2. ASSUME NEW x \in ToSet(u) PROVE x \in ToSet(s) \cup ToSet(t)
  <2>1. PICK i \in 1..Len(u) : u[i] = x
    BY <1>1, SetOf
  <2>2. CASE i \in 1..Len(s)
    BY <2>1, <2>2, <1>1, SetOf
  <2>3. CASE i \notin 1..Len(s)
    BY <2>1, <2>3, <1>1, SetOf
  <2> QED
    BY <2>2, <2>3
<1>3. ASSUME NEW x \in ToSet(s) PROVE x \in ToSet(u)
  <2>1. PICK i \in 1..Len(s) : s[i] = x
    BY SetOf
  <2>2. i \in 1..Len(u)
    BY <1>1
  <2> QED
    BY <2>1, <2>2, <1>1, SetOf
<1>4. ASSUME NEW x \in ToSet(t) PROVE x \in ToSet(u)
  <2>1. PICK i \in 1..Len(t) : t[i] = x
    BY SetOf
  <2>2. Len(s) + i \in 1..Len(u)
    BY <1>1
  <2> QED
    BY <2>1, <2>2, <1>1, SetOf
<1> QED
  BY <1>2, <1>3, <1>4 DEF u

LEMMA DistinctBoth ==
  ASSUME NEW S, NEW s \in Seq(S), NEW t \in Seq(S)
  PROVE  IsDistinct(s \o t) <=>
           IsDistinct(s) /\ IsDistinct(t) /\ ToSet(s) \cap ToSet(t) = {}
<1> DEFINE u == s \o t
<1>1. /\ u \in Seq(S) /\ Len(u) = Len(s) + Len(t) /\ Len(s) \in Nat /\ Len(t) \in Nat
      /\ \A i \in 1..Len(s) : u[i] = s[i]
      /\ \A i \in 1..Len(t) : u[Len(s) + i] = t[i]
      /\ \A i \in 1..Len(u) : i \notin 1..Len(s) => i - Len(s) \in 1..Len(t) /\ u[i] = t[i - Len(s)]
  BY ConcatProperties
<1> HIDE DEF u
<1>2. ASSUME IsDistinct(s), IsDistinct(t), ToSet(s) \cap ToSet(t) = {} PROVE IsDistinct(u)
  <2>1. SUFFICES ASSUME NEW j \in 1..Len(u), NEW k \in 1..Len(u), u[j] = u[k] PROVE j = k
    BY DEF IsDistinct
  <2>2. CASE j \in 1..Len(s) /\ k \in 1..Len(s)
    BY <1>1, <1>2, <2>1, <2>2 DEF IsDistinct
  <2>3. CASE j \notin 1..Len(s) /\ k \notin 1..Len(s)
    <3>1. j - Len(s) = k - Len(s)
      BY <1>1, <1>2, <2>1, <2>3 DEF IsDistinct
    <3> QED
      BY <3>1, <1>1
  <2>4. CASE j \in 1..Len(s) /\ k \notin 1..Len(s)
    <3>1. u[j] \in ToSet(s) /\ u[k] \in ToSet(t)
      BY <1>1, <2>4, SetOf
    <3> QED
      BY <3>1, <1>2, <2>1
  <2>5. CASE j \notin 1..Len(s) /\ k \in 1..Len(s)
    <3>1. u[j] \in ToSet(t) /\ u[k] \in ToSet(s)
      BY <1>1, <2>5, SetOf
    <3> QED
      BY <3>1, <1>2, <2>1
  <2> QED
    BY <2>2, <2>3, <2>4, <2>5
<1>3. ASSUME IsDistinct(u) PROVE IsDistinct(s)
  <2>1. \A i \in 1..Len(s) : i \in 1..Len(u)
    BY <1>1
  <2> QED
    BY <2>1, <1>1, <1>3 DEF IsDistinct
<1>4. ASSUME IsDistinct(u) PROVE IsDistinct(t)
  <2>1. SUFFICES ASSUME NEW j \in 1..Len(t), NEW k \in 1..Len(t), t[j] = t[k] PROVE j = k
    BY DEF IsDistinct
  <2>2. Len(s) + j \in 1..Len(u) /\ Len(s) + k \in 1..Len(u)
    BY <1>1
  <2>3. u[Len(s) + j] = u[Len(s) + k]
    BY <1>1, <2>1
  <2>4. Len(s) + j = Len(s) + k
    BY <1>4, <2>2, <2>3 DEF IsDistinct
  <2> QED
    BY <2>4, <1>1
<1>5. ASSUME IsDistinct(u), NEW x \in ToSet(s), x \in ToSet(t) PROVE FALSE
  <2>1. PICK i \in 1..Len(s) : s[i] = x
    BY SetOf
  <2>2. PICK k \in 1..Len(t) : t[k] = x
    BY <1>5, SetOf
  <2>3. i \in 1..Len(u) /\ Len(s) + k \in 1..Len(u) /\ u[i] = u[Len(s) + k] /\ i # Len(s) + k
    BY <1>1, <2>1, <2>2
  <2> QED
    BY <1>5, <2>3 DEF IsDistinct
<1> QED
  BY <1>2, <1>3, <1>4, <1>5 DEF u

-----------------------------------------------------------------------------
(* What is written, and what a storage consists of.                        *)
Link == Block \cup {NoBlock}
FreeBlocks == {FreeBlock(x) : x \in Link}
HeadBlocks == {HeadBlock(n, v, x) : n \in Names, v \in 0..MaxVersion, x \in Block}
DataBlocks == {DataBlock(s, t, x) : s \in Nat, t \in Tags, x \in Link}
Content == FreeBlocks \cup HeadBlocks \cup DataBlocks
Damaged == [type : {"free", "head", "data"}, hash : Nat, next : Link, body : {<<>>}, ok : {FALSE}]
Writes == {<<b, x>> : b \in Block, x \in Content} \cup {<<0, InfoBlock>>}
IsStorage(st) ==
  /\ DOMAIN st = 0..(NBlocks - 1) /\ IsFunction(st)
  /\ \A b \in Block : st[b] \in Content \cup Damaged

LEMMA ContentFields ==
  ASSUME NEW x \in Content
  PROVE  /\ x.ok = TRUE /\ x.next \in Link
         /\ x.type \in {"free", "head", "data"}
         /\ x.type = "free" => x = FreeBlock(x.next) /\ x.hash = 0
         /\ x.type = "head" => /\ NameOf(x) \in Names /\ VersionOf(x) \in 0..MaxVersion
                               /\ x.next \in Block /\ x.hash = Hash[NameOf(x)]
                               /\ x = HeadBlock(NameOf(x), VersionOf(x), x.next)
         /\ x.type = "data" => /\ SeqNbOf(x) \in Nat /\ TagOf(x) \in Tags /\ x.hash = 0
                               /\ x = DataBlock(SeqNbOf(x), TagOf(x), x.next)
<1>1. CASE x \in FreeBlocks
  <2>1. PICK y \in Link : x = FreeBlock(y)
    BY <1>1 DEF FreeBlocks
  <2>2. x.next = y /\ x.type = "free" /\ x.ok = TRUE /\ x.hash = 0
    BY <2>1 DEF FreeBlock
  <2> QED
    BY <2>1, <2>2
<1>2. CASE x \in HeadBlocks
  <2>1. PICK n \in Names, v \in 0..MaxVersion, y \in Block : x = HeadBlock(n, v, y)
    BY <1>2 DEF HeadBlocks
  <2>2. NameOf(x) = n /\ VersionOf(x) = v /\ x.next = y /\ x.type = "head" /\ x.ok = TRUE
        /\ x.hash = Hash[n]
    BY <2>1 DEF HeadBlock, NameOf, VersionOf
  <2> QED
    BY <2>1, <2>2 DEF Link
<1>3. CASE x \in DataBlocks
  <2>1. PICK s \in Nat, t \in Tags, y \in Link : x = DataBlock(s, t, y)
    BY <1>3 DEF DataBlocks
  <2>2. SeqNbOf(x) = s /\ TagOf(x) = t /\ x.next = y /\ x.type = "data" /\ x.ok = TRUE
        /\ x.hash = 0
    BY <2>1 DEF DataBlock, SeqNbOf, TagOf
  <2> QED
    BY <2>1, <2>2
<1> QED
  BY <1>1, <1>2, <1>3 DEF Content

LEMMA StorageFields ==
  ASSUME NEW st, IsStorage(st), NEW b \in Block
  PROVE  /\ st[b].ok \in BOOLEAN /\ st[b].next \in Link
         /\ st[b].type \in {"free", "head", "data"}
         /\ st[b].ok => st[b] \in Content
<1>1. CASE st[b] \in Content
  BY <1>1, ContentFields
<1>2. CASE st[b] \in Damaged
  BY <1>2 DEF Damaged
<1> QED
  BY <1>1, <1>2 DEF IsStorage

LEMMA StorageLinked ==
  ASSUME NEW st, IsStorage(st)
  PROVE  Linked(st)
BY StorageFields DEF Linked, Link

LEMMA FreeContent ==
  ASSUME NEW x \in Link
  PROVE  FreeBlock(x) \in Content
BY DEF Content, FreeBlocks

LEMMA WriteFields ==
  ASSUME StorageAssumption, NEW w \in Writes
  PROVE  /\ w = <<w[1], w[2]>>
         /\ w[1] \in 0..(NBlocks - 1)
         /\ w[1] \in Block => w[2] \in Content
         /\ w[1] \notin Block => w[1] = 0 /\ w[2] = InfoBlock
<1>1. 0 \notin Block /\ 0 \in 0..(NBlocks - 1) /\ Block \subseteq 0..(NBlocks - 1)
  BY Sizes DEF Block
<1> QED
  BY <1>1 DEF Writes

LEMMA AfterStorage ==
  ASSUME StorageAssumption, NEW st, IsStorage(st), NEW ws \in Seq(Writes)
  PROVE  IsStorage(After(st, ws))
<1>1. ASSUME NEW b \in Block PROVE After(st, ws)[b] \in Content \cup Damaged
  <2>0. b \in DOMAIN st /\ b # 0
    BY Sizes DEF IsStorage, Block
  <2>1. CASE NotWritten(ws, b)
    BY <2>0, <2>1, AfterValue DEF IsStorage
  <2>2. CASE ~NotWritten(ws, b)
    <3>1. PICK k \in 1..Len(ws) : IsLastWrite(ws, k, b)
      BY <2>0, <2>2, AfterValue
    <3>2. After(st, ws)[b] = ws[k][2]
      BY <2>0, <3>1, AfterValue
    <3>3. ws[k] \in Writes /\ ws[k][1] = b
      BY <3>1 DEF IsLastWrite
    <3> QED
      BY <2>0, <3>2, <3>3, WriteFields
  <2> QED
    BY <2>1, <2>2
<1> QED
  BY <1>1, AfterDomain DEF IsStorage

-----------------------------------------------------------------------------
(* An operation on the storage st0 that has gone well up to now.           *)
IsWork(st0, work) ==
  /\ work = [st |-> After(st0, work.writes), list |-> work.list,
             writes |-> work.writes, ok |-> TRUE]
  /\ work.writes \in Seq(Writes)

LEMMA BeginWork ==
  ASSUME NEW st0, IsStorage(st0), NEW l
  PROVE  IsWork(st0, Begin(st0, l)) /\ Begin(st0, l).list = l /\ Begin(st0, l).writes = <<>>
<1>1. After(st0, <<>>) = st0
  BY AfterNothing DEF IsStorage
<1>2. <<>> \in Seq(Writes)
  OBVIOUS
<1> QED
  BY <1>1, <1>2 DEF Begin, IsWork

LEMMA WorkStorage ==
  ASSUME StorageAssumption, NEW st0, IsStorage(st0), NEW work, IsWork(st0, work)
  PROVE  IsStorage(work.st) /\ work.st = After(st0, work.writes) /\ work.ok
<1>1. work.st = After(st0, work.writes) /\ work.ok /\ work.writes \in Seq(Writes)
  BY DEF IsWork
<1> QED
  BY <1>1, AfterStorage

LEMMA WorkExcept ==
  ASSUME NEW a, NEW b, NEW c, NEW d, NEW e, NEW f, NEW r,
         r = [[st |-> a, list |-> b, writes |-> c, ok |-> d] EXCEPT !.st = e, !.writes = f]
  PROVE  r = [st |-> e, list |-> b, writes |-> f, ok |-> d]
<1>1. r.st = e /\ r.list = b /\ r.writes = f /\ r.ok = d
  OBVIOUS
<1>2. r = [st |-> r.st, list |-> r.list, writes |-> r.writes, ok |-> r.ok]
  OBVIOUS
<1> QED
  BY <1>1, <1>2

LEMMA StoreAllWork ==
  ASSUME StorageAssumption, NEW st0, IsStorage(st0), NEW work, IsWork(st0, work),
         NEW vs \in Seq(Writes)
  PROVE  LET r == StoreAll(work, vs)
         IN  /\ IsWork(st0, r)
             /\ r.writes = work.writes \o vs
             /\ r.st = After(work.st, vs)
             /\ r.list = work.list
<1>1. After(After(st0, work.writes), vs) = After(st0, work.writes \o vs)
  BY AfterBoth DEF IsWork
<1>2. work.writes \o vs \in Seq(Writes)
  BY ConcatProperties DEF IsWork
<1>3. StoreAll(work, vs) = [st |-> After(st0, work.writes \o vs), list |-> work.list,
                            writes |-> work.writes \o vs, ok |-> TRUE]
  <2>1. work.st = After(st0, work.writes)
    BY DEF IsWork
  <2> QED
    <3>1. work = [st |-> After(st0, work.writes), list |-> work.list,
                  writes |-> work.writes, ok |-> TRUE]
      BY DEF IsWork
    <3>2. StoreAll(work, vs) = [work EXCEPT !.st = After(work.st, vs), !.writes = work.writes \o vs]
      BY DEF StoreAll
    <3>3. StoreAll(work, vs) =
            [[st |-> After(st0, work.writes), list |-> work.list,
              writes |-> work.writes, ok |-> TRUE]
             EXCEPT !.st = After(work.st, vs), !.writes = work.writes \o vs]
      BY <3>1, <3>2, Zenon
    <3> QED
      BY <1>1, <2>1, <3>3, WorkExcept, Zenon
<1>4. After(work.st, vs) = After(st0, work.writes \o vs)
  BY <1>1 DEF IsWork
<1> QED
  BY <1>2, <1>3, <1>4 DEF IsWork

LEMMA StoreWork ==
  ASSUME StorageAssumption, NEW st0, IsStorage(st0), NEW work, IsWork(st0, work),
         NEW b \in Block, NEW x \in Content, NEW r, r = Store(work, b, x)
  PROVE  /\ IsWork(st0, r)
         /\ r.writes = work.writes \o <<<<b, x>>>>
         /\ r.st[b] = x
         /\ \A c \in Block : c # b => r.st[c] = work.st[c]
         /\ r.list = work.list
<1> DEFINE vs == <<<<b, x>>>>
<1>1. vs \in Seq(Writes)
  BY DEF Writes
<1>2. IsFunction(work.st) /\ \A c \in Block : c \in DOMAIN work.st
  BY WorkStorage, Sizes DEF IsStorage, Block
<1>3. After(work.st, vs) = [work.st EXCEPT ![b] = x]
  BY <1>2, AfterOne
<1>4. r = StoreAll(work, vs)
  BY DEF Store
<1>5. vs = <<<<b, x>>>>
  OBVIOUS
<1> HIDE DEF vs
<1>6. LET q == StoreAll(work, vs)
      IN  /\ IsWork(st0, q)
          /\ q.writes = work.writes \o vs
          /\ q.st = After(work.st, vs)
          /\ q.list = work.list
  BY <1>1, StoreAllWork
<1>7. r.st = [work.st EXCEPT ![b] = x]
  BY <1>3, <1>4, <1>6
<1>8. r.st[b] = x /\ \A c \in Block : c # b => r.st[c] = work.st[c]
  BY <1>2, <1>7
<1> QED
  BY <1>4, <1>5, <1>6, <1>8

(* The blocks B have become free, or have been linked to others that have: *)
(* now the list is G, and nothing but free blocks was written.             *)
Freed(st0, work, r, G, B) ==
  /\ IsWork(st0, r) /\ IsFreeList(r.st, r.list, G)
  /\ \A b \in Block \ B : r.st[b] = work.st[b]
  /\ \A w \in ToSet(r.writes) : w \in ToSet(work.writes) \/ w[2].type = "free"

WithList(work, l) == [work EXCEPT !.list = l]

LEMMA SetListWork ==
  ASSUME NEW st0, NEW work, IsWork(st0, work), NEW l, NEW r, r = WithList(work, l)
  PROVE  IsWork(st0, r) /\ r.list = l /\ r.st = work.st /\ r.writes = work.writes
<1> DEFINE ws == work.writes
<1>1. work = [st |-> After(st0, ws), list |-> work.list, writes |-> ws, ok |-> TRUE]
      /\ ws \in Seq(Writes)
  BY DEF IsWork
<1> HIDE DEF ws
<1>2. r = [[st |-> After(st0, ws), list |-> work.list, writes |-> ws, ok |-> TRUE] EXCEPT !.list = l]
  BY <1>1, Zenon DEF WithList
<1>3. r.list = l /\ r.st = After(st0, ws) /\ r.writes = ws /\ r.ok = TRUE
      /\ r = [st |-> r.st, list |-> r.list, writes |-> r.writes, ok |-> r.ok]
  BY <1>2
<1>4. work.st = After(st0, ws)
  BY <1>1
<1> QED
  BY <1>1, <1>3, <1>4 DEF IsWork, ws

(* The writes that link the blocks bs to each other. *)
IsLinking(vs, bs) ==
  vs = [i \in 1..Len(bs) |->
          <<bs[i], FreeBlock(IF i < Len(bs) THEN bs[i + 1] ELSE NoBlock)>>]

LEMMA LinkBlocks ==
  ASSUME StorageAssumption, NEW st, IsStorage(st), NEW bs \in Seq(Block), IsDistinct(bs),
         NEW vs, IsLinking(vs, bs)
  PROVE  /\ vs \in Seq(Writes)
         /\ \A w \in ToSet(vs) : w[2].type = "free"
         /\ \A i \in 1..Len(bs) :
              After(st, vs)[bs[i]] = FreeBlock(IF i < Len(bs) THEN bs[i + 1] ELSE NoBlock)
         /\ \A b \in Block \ ToSet(bs) : After(st, vs)[b] = st[b]
<1> DEFINE n == Len(bs)
           new(i) == FreeBlock(IF i < n THEN bs[i + 1] ELSE NoBlock)
<1>0. vs = [i \in 1..n |-> <<bs[i], new(i)>>]
  BY DEF IsLinking
<1>1. n \in Nat /\ bs \in [1..n -> Block]
  OBVIOUS
<1>2. ASSUME NEW i \in 1..n PROVE new(i) \in Content /\ new(i).type = "free" /\ <<bs[i], new(i)>> \in Writes
  <2>1. (IF i < n THEN bs[i + 1] ELSE NoBlock) \in Link
    BY <1>1 DEF Link
  <2>2. new(i) \in Content /\ new(i).type = "free"
    BY <2>1, FreeContent, FreeFields
  <2> QED
    BY <2>2, <1>1 DEF Writes
<1> HIDE DEF new
<1>3. vs \in [1..n -> Writes]
  BY <1>0, <1>2
<1>4. vs \in Seq(Writes) /\ Len(vs) = n
  BY <1>1, <1>3, IsSequence
<1>5. \A i \in 1..n : vs[i][1] = bs[i] /\ vs[i][2] = new(i)
  BY <1>0
<1>6. \A b \in Block : b \in DOMAIN st
  BY Sizes DEF IsStorage, Block
<1>7. ASSUME NEW i \in 1..n PROVE After(st, vs)[bs[i]] = new(i)
  <2>1. IsLastWrite(vs, i, bs[i])
    BY <1>1, <1>4, <1>5 DEF IsLastWrite, IsDistinct
  <2>2. bs[i] \in DOMAIN st
    BY <1>1, <1>6
  <2> QED
    BY <2>1, <2>2, <1>4, <1>5, AfterValue
<1>8. ASSUME NEW b \in Block, b \notin ToSet(bs) PROVE After(st, vs)[b] = st[b]
  <2>1. NotWritten(vs, b)
    BY <1>1, <1>4, <1>5, <1>8, SetOf DEF NotWritten
  <2> QED
    BY <2>1, <1>4, <1>6, AfterValue
<1>9. \A w \in ToSet(vs) : w[2].type = "free"
  <2> TAKE w \in ToSet(vs)
  <2>1. PICK i \in 1..n : vs[i] = w
    BY <1>4, SetOf
  <2> QED
    BY <2>1, <1>2, <1>5
<1> QED
  BY <1>4, <1>7, <1>8, <1>9 DEF new

LEMMA AddBlocksAdds ==
  ASSUME StorageAssumption, NEW st0, IsStorage(st0), NEW work, IsWork(st0, work),
         NEW F, IsFreeList(work.st, work.list, F),
         NEW bs \in Seq(Block), IsDistinct(F \o bs)
  PROVE  Freed(st0, work, AddBlocks(work, bs), F \o bs, ToSet(F) \cup ToSet(bs))
<1> DEFINE n == Len(bs)
           G == F \o bs
           B == ToSet(F) \cup ToSet(bs)
           vs == [i \in 1..n |-> <<bs[i], FreeBlock(IF i < n THEN bs[i + 1] ELSE NoBlock)>>]
           freed == StoreAll(work, vs)
           r == AddBlocks(work, bs)
<1>1. /\ F \in Seq(Block) /\ Len(F) \in Nat /\ F \in [1..Len(F) -> Block]
      /\ n \in Nat /\ bs \in [1..n -> Block]
      /\ work.list.n = Len(F)
  BY DEF IsFreeList
<1>2. /\ G \in Seq(Block) /\ Len(G) = Len(F) + n /\ G \in [1..Len(G) -> Block]
      /\ \A i \in 1..Len(F) : G[i] = F[i]
      /\ \A i \in 1..n : G[Len(F) + i] = bs[i]
      /\ \A i \in 1..Len(G) : i \notin 1..Len(F) => i - Len(F) \in 1..n /\ G[i] = bs[i - Len(F)]
  <2> HIDE DEF G
  <2>1. G = F \o bs
    BY DEF G
  <2>2. /\ G \in Seq(Block) /\ Len(G) = Len(F) + n
        /\ \A i \in 1..Len(F) : G[i] = F[i]
        /\ \A i \in 1..n : G[Len(F) + i] = bs[i]
        /\ \A i \in 1..Len(G) : i \notin 1..Len(F) => i - Len(F) \in 1..n /\ G[i] = bs[i - Len(F)]
    BY <1>1, <2>1, Concat
  <2> QED
    BY <2>2
<1>3. /\ IsDistinct(F) /\ IsDistinct(bs) /\ ToSet(F) \cap ToSet(bs) = {} /\ IsDistinct(G)
      /\ ToSet(G) = B
  BY <1>1, DistinctBoth, SetOfBoth
<1>4. work.ok /\ IsStorage(work.st)
  BY WorkStorage
<1>5. CASE bs = <<>>
  <2>1. r = work
    BY <1>5 DEF AddBlocks
  <2>2. G = F
    BY <1>1, <1>5, ConcatEmptySeq
  <2> QED
    BY <2>1, <2>2 DEF Freed
<1>6. CASE bs # <<>>
  <2>1. n >= 1 /\ 1 \in 1..n /\ n \in 1..n
    BY <1>1, <1>6
  <2>2. /\ vs \in Seq(Writes)
        /\ \A w \in ToSet(vs) : w[2].type = "free"
        /\ \A i \in 1..n :
             After(work.st, vs)[bs[i]] = FreeBlock(IF i < n THEN bs[i + 1] ELSE NoBlock)
        /\ \A b \in Block \ ToSet(bs) : After(work.st, vs)[b] = work.st[b]
    <3>1. IsLinking(vs, bs)
      BY DEF IsLinking
    <3> HIDE DEF vs
    <3>2. /\ vs \in Seq(Writes)
          /\ \A w \in ToSet(vs) : w[2].type = "free"
          /\ \A i \in 1..Len(bs) :
               After(work.st, vs)[bs[i]] = FreeBlock(IF i < Len(bs) THEN bs[i + 1] ELSE NoBlock)
          /\ \A b \in Block \ ToSet(bs) : After(work.st, vs)[b] = work.st[b]
      BY <1>3, <1>4, <3>1, LinkBlocks
    <3> QED
      BY <3>2
  <2> HIDE DEF vs
  <2>3. /\ IsWork(st0, freed) /\ freed.writes = work.writes \o vs
        /\ freed.st = After(work.st, vs) /\ freed.list = work.list
    BY <2>2, StoreAllWork
  <2>4. work.list.n + n < NBlocks
    <3> HIDE DEF G
    <3>1. Len(G) <= NBlocks - 1
      <4>1. Len(G) \in Nat /\ G \in [1..Len(G) -> Block]
        BY <1>2
      <4> QED
        BY <4>1, <1>3, DistinctBlocks DEF IsDistinct
    <3>2. work.list.n + n = Len(G)
      BY <1>1, <1>2
    <3> QED
      BY <3>1, <3>2, <1>1, Sizes
  <2>5. ~ (work.list.n + n >= NBlocks)
    BY <2>4, <1>1, Sizes
  <2>6. \A w \in ToSet(freed.writes) : w \in ToSet(work.writes) \/ w[2].type = "free"
    BY <2>2, <2>3, SetOfBoth DEF IsWork
  <2>7. r = IF work.list.n = 0
            THEN [freed EXCEPT !.list = [n |-> n, head |-> bs[1], end |-> bs[n]]]
            ELSE IF freed.st[work.list.end] # FreeBlock(NoBlock) THEN [freed EXCEPT !.ok = FALSE]
            ELSE [Store(freed, work.list.end, FreeBlock(bs[1])) EXCEPT
                    !.list = [n |-> @.n + n, head |-> @.head, end |-> bs[n]]]
    BY <2>5, <1>4, <1>6, Zenon DEF AddBlocks, vs
  <2> HIDE DEF r, freed, G, B
  <2>8. CASE F = <<>>
    <3>1. work.list.n = 0 /\ Len(F) = 0
      BY <1>1, <2>8
    <3>2. r = [freed EXCEPT !.list = [n |-> n, head |-> bs[1], end |-> bs[n]]]
      BY <2>7, <3>1
    <3>3. /\ IsWork(st0, r) /\ r.list = [n |-> n, head |-> bs[1], end |-> bs[n]]
          /\ r.st = freed.st /\ r.writes = freed.writes
      <4> DEFINE l == [n |-> n, head |-> bs[1], end |-> bs[n]]
      <4>1. r = WithList(freed, l)
        BY <3>2 DEF WithList
      <4> HIDE DEF l
      <4>2. IsWork(st0, r) /\ r.list = l /\ r.st = freed.st /\ r.writes = freed.writes
        BY <2>3, <4>1, SetListWork
      <4> QED
        BY <4>2 DEF l
    <3>4. G = bs
      BY <2>8, ConcatEmptySeq DEF G
    <3>5. IsFreeList(r.st, r.list, G)
      BY <1>1, <1>3, <1>6, <2>2, <2>3, <3>3, <3>4 DEF IsFreeList
    <3>6. \A b \in Block \ B : r.st[b] = work.st[b]
      BY <2>2, <2>3, <3>3 DEF B
    <3> QED
      BY <2>6, <3>3, <3>5, <3>6 DEF Freed, r, G, B
  <2>9. CASE F # <<>>
    <3> DEFINE end == F[Len(F)]
               mid == Store(freed, end, FreeBlock(bs[1]))
    <3>1. Len(F) >= 1 /\ Len(F) \in 1..Len(F) /\ work.list.n # 0 /\ 1 \in 1..Len(F)
      BY <1>1, <2>9
    <3>2. work.list = [n |-> Len(F), head |-> F[1], end |-> end] /\ work.list.end = end
      BY <2>9 DEF IsFreeList
    <3>3. end \in Block /\ end \notin ToSet(bs) /\ end \in ToSet(F)
      BY <1>1, <1>3, <3>1, SetOf
    <3>4. freed.st[end] = FreeBlock(NoBlock)
      <4>1. work.st[end] = FreeBlock(NoBlock)
        BY <3>1 DEF IsFreeList
      <4> HIDE DEF end
      <4> QED
        BY <4>1, <2>2, <2>3, <3>3
    <3>5. FreeBlock(bs[1]) \in Content
      BY <1>1, <2>1, FreeContent DEF Link
    <3> HIDE DEF end
    <3>6. /\ IsWork(st0, mid) /\ mid.writes = freed.writes \o <<<<end, FreeBlock(bs[1])>>>>
          /\ mid.st[end] = FreeBlock(bs[1])
          /\ \A c \in Block : c # end => mid.st[c] = freed.st[c]
          /\ mid.list = freed.list
      <4> DEFINE x == FreeBlock(bs[1])
      <4>1. x \in Content
        BY <3>5
      <4>2. mid = Store(freed, end, x)
        BY DEF x
      <4> HIDE DEF x, mid
      <4>3. /\ IsWork(st0, mid)
            /\ mid.writes = freed.writes \o <<<<end, x>>>>
            /\ mid.st[end] = x
            /\ \A c \in Block : c # end => mid.st[c] = freed.st[c]
            /\ mid.list = freed.list
        <5>1. IsWork(st0, freed) /\ end \in Block
          BY <2>3, <3>3
        <5> QED
          BY <4>1, <4>2, <5>1, StoreWork
      <4> QED
        BY <4>3 DEF x
    <3>7. r = [mid EXCEPT !.list = [n |-> @.n + n, head |-> @.head, end |-> bs[n]]]
      BY <2>7, <3>1, <3>2, <3>4, Zenon
    <3> HIDE DEF mid
    <3>8. r = [mid EXCEPT !.list = [n |-> mid.list.n + n, head |-> mid.list.head, end |-> bs[n]]]
      BY <3>7
    <3>9. /\ IsWork(st0, r) /\ r.st = mid.st /\ r.writes = mid.writes
          /\ r.list = [n |-> mid.list.n + n, head |-> mid.list.head, end |-> bs[n]]
      <4> DEFINE l == [n |-> mid.list.n + n, head |-> mid.list.head, end |-> bs[n]]
      <4>1. r = WithList(mid, l)
        BY <3>8 DEF WithList
      <4> HIDE DEF l
      <4>2. IsWork(st0, r) /\ r.list = l /\ r.st = mid.st /\ r.writes = mid.writes
        <5>1. IsWork(st0, mid)
          BY <3>6
        <5> QED
          BY <4>1, <5>1, SetListWork
      <4> QED
        BY <4>2 DEF l
    <3>10. r.list = [n |-> Len(G), head |-> G[1], end |-> G[Len(G)]]
      <4>1. mid.list.n = Len(F) /\ mid.list.head = F[1]
        BY <2>3, <3>2, <3>6
      <4>2. G[1] = F[1] /\ G[Len(G)] = bs[n] /\ Len(G) = Len(F) + n
        BY <1>1, <1>2, <2>1, <3>1
      <4> QED
        BY <3>9, <4>1, <4>2
    <3>11. /\ \A b \in Block : b # end => r.st[b] = freed.st[b]
           /\ r.st[end] = FreeBlock(bs[1])
      BY <3>3, <3>6, <3>9
    <3>12. ASSUME NEW i \in 1..Len(G)
           PROVE  r.st[G[i]] = FreeBlock(IF i < Len(G) THEN G[i + 1] ELSE NoBlock)
      <4>0. Len(F) \in Nat /\ n \in Nat /\ n >= 1 /\ Len(G) = Len(F) + n /\ i \in Nat /\ i >= 1 /\ i <= Len(F) + n
            /\ Len(F) >= 1
        BY <1>1, <1>2, <2>1, <3>1
      <4>1. CASE i < Len(F)
        <5>1. i \in 1..Len(F) /\ i + 1 \in 1..Len(F) /\ i < Len(G) /\ i # Len(F)
          BY <4>0, <4>1
        <5>2. G[i] = F[i] /\ G[i + 1] = F[i + 1] /\ F[i] \in Block
          BY <1>1, <1>2, <5>1
        <5>3. F[i] # end /\ F[i] \notin ToSet(bs)
          BY <1>1, <1>3, <5>1, <3>1, SetOf DEF IsDistinct, end
        <5>4. work.st[F[i]] = FreeBlock(F[i + 1])
          BY <5>1, <4>1 DEF IsFreeList
        <5> QED
          BY <5>1, <5>2, <5>3, <5>4, <2>2, <2>3, <3>11
      <4>2. CASE i = Len(F)
        <5>1. G[i] = end /\ i < Len(G) /\ G[i + 1] = bs[1]
          <6>1. i \in 1..Len(F) /\ i < Len(G) /\ i + 1 = Len(F) + 1 /\ 1 \in 1..n
            BY <4>0, <4>2
          <6>2. G[Len(F) + 1] = bs[1]
            BY <6>1, <1>2
          <6> QED
            BY <6>1, <6>2, <4>2, <1>2 DEF end
        <5> QED
          BY <5>1, <3>11
      <4>3. CASE i > Len(F)
        <5> DEFINE j == i - Len(F)
        <5>1. j \in 1..n /\ G[i] = bs[j] /\ (i < Len(G) <=> j < n) /\ i + 1 = Len(F) + (j + 1)
          BY <1>1, <1>2, <4>3
        <5> HIDE DEF j
        <5>2. j < n => G[i + 1] = bs[j + 1]
          BY <1>1, <1>2, <5>1
        <5>3. bs[j] \in Block /\ bs[j] # end /\ bs[j] \in ToSet(bs)
          BY <1>1, <3>3, <5>1, SetOf
        <5>4. r.st[bs[j]] = FreeBlock(IF j < n THEN bs[j + 1] ELSE NoBlock)
          BY <5>1, <5>3, <2>2, <2>3, <3>11
        <5> QED
          BY <5>1, <5>2, <5>4
      <4> QED
        BY <4>0, <4>1, <4>2, <4>3
    <3>13. IsFreeList(r.st, r.list, G)
      <4>1. G # <<>> /\ r.list.n = Len(G)
        BY <1>1, <1>2, <3>1, <3>10
      <4> QED
        BY <4>1, <1>2, <1>3, <3>10, <3>12 DEF IsFreeList
    <3>14. \A b \in Block \ B : r.st[b] = work.st[b]
      BY <2>2, <2>3, <3>3, <3>11 DEF B
    <3>15. \A w \in ToSet(r.writes) : w \in ToSet(work.writes) \/ w[2].type = "free"
      <4> DEFINE last == <<<<end, FreeBlock(bs[1])>>>>
      <4>1. last \in Seq(Writes) /\ \A w \in ToSet(last) : w[2].type = "free"
        <5>1. <<end, FreeBlock(bs[1])>> \in Writes /\ FreeBlock(bs[1]).type = "free"
          <6> DEFINE x == FreeBlock(bs[1])
          <6>1. x \in Content /\ x.type = "free"
            BY <3>5, FreeFields
          <6> HIDE DEF x
          <6>2. <<end, x>> \in Writes
            BY <3>3, <6>1 DEF Writes
          <6> QED
            BY <6>1, <6>2 DEF x
        <5> QED
          BY <5>1 DEF ToSet
      <4> HIDE DEF last
      <4>2. r.writes = freed.writes \o last
        BY <3>6, <3>9 DEF last
      <4>3. ToSet(r.writes) = ToSet(freed.writes) \cup ToSet(last)
        <5>1. freed.writes \in Seq(Writes)
          BY <2>3 DEF IsWork
        <5> QED
          BY <4>1, <4>2, <5>1, SetOfBoth
      <4> QED
        BY <4>1, <4>3, <2>6
    <3> QED
      BY <3>9, <3>13, <3>14, <3>15 DEF Freed, r, G, B
  <2> QED
    BY <2>8, <2>9
<1> QED
  BY <1>5, <1>6

(* The recursion of AddInPieces is well-founded. *)
PiecesRun(done, work, bs, size) ==
  /\ AddInPieces(work, bs, size) = done[Len(bs)]
  /\ done[0] = work
  /\ \A k \in 1..Len(bs) : done[k] = AddBlocks(done[k - 1], Piece(bs, size, k))

LEMMA PiecesSteps ==
  ASSUME NEW work, NEW bs \in Seq(Block), NEW size
  PROVE  \E done : PiecesRun(done, work, bs, size)
<1> DEFINE step(k, x) == AddBlocks(x, Piece(bs, size, k))
           IsRun(g, n) == g = [k \in 0..n |-> IF k = 0 THEN work ELSE step(k, g[k - 1])]
           T == {n \in Nat : \E g : IsRun(g, n)}
<1> HIDE DEF step
<1>1. 0 \in T
  <2>1. IsRun([k \in 0..0 |-> work], 0)
    OBVIOUS
  <2> QED
    BY <2>1
<1>2. ASSUME NEW n \in Nat, n \in T PROVE n + 1 \in T
  <2>1. PICK g : IsRun(g, n)
    BY <1>2
  <2> DEFINE h == [k \in 0..(n + 1) |-> IF k = 0 THEN work ELSE step(k, g[k - 1])]
  <2>2. \A k \in 0..n : g[k] = IF k = 0 THEN work ELSE step(k, g[k - 1])
    BY <2>1
  <2>3. \A k \in 0..n : h[k] = g[k]
    BY <2>2
  <2>4. ASSUME NEW k \in 0..(n + 1)
        PROVE  h[k] = IF k = 0 THEN work ELSE step(k, h[k - 1])
    <3>1. CASE k = 0
      BY <3>1
    <3>2. CASE k # 0
      <4>1. k - 1 \in 0..n
        BY <3>2
      <4>2. h[k - 1] = g[k - 1]
        BY <4>1, <2>3
      <4> QED
        BY <3>2, <4>2
    <3> QED
      BY <3>1, <3>2
  <2>5. IsRun(h, n + 1)
    BY <2>4
  <2> HIDE DEF h, IsRun
  <2> QED
    BY <2>5
<1> HIDE DEF T
<1>3. \A n \in Nat : n \in T
  BY <1>1, <1>2, SetInduction
<1>4. Len(bs) \in Nat
  OBVIOUS
<1>5. \E g : IsRun(g, Len(bs))
  BY <1>3, <1>4 DEF T
<1> DEFINE done == CHOOSE g : IsRun(g, Len(bs))
<1>6. IsRun(done, Len(bs))
  BY <1>5
<1>7. AddInPieces(work, bs, size) = done[Len(bs)]
  BY Zenon DEF AddInPieces, step
<1>8. /\ done[0] = work
      /\ \A k \in 1..Len(bs) : done[k] = step(k, done[k - 1])
  <2> HIDE DEF done
  <2> QED
    BY <1>4, <1>6
<1> HIDE DEF done
<1>9. PiecesRun(done, work, bs, size)
  BY <1>7, <1>8 DEF step, PiecesRun
<1> QED
  BY <1>9

LEMMA SplitAt ==
  ASSUME NEW S, NEW s \in Seq(S), NEW k \in 0..Len(s)
  PROVE  /\ SubSeq(s, 1, k) \in Seq(S) /\ SubSeq(s, k + 1, Len(s)) \in Seq(S)
         /\ SubSeq(s, 1, k) \o SubSeq(s, k + 1, Len(s)) = s
<1>1. 1 \in 1..(Len(s) + 1) /\ k \in (1 - 1)..Len(s) /\ Len(s) \in k..Len(s)
  OBVIOUS
<1>2. SubSeq(s, 1, k) \o SubSeq(s, k + 1, Len(s)) = SubSeq(s, 1, Len(s))
  BY <1>1, ConcatAdjacentSubSeq
<1> QED
  BY <1>2, SubSeqFull, FirstPart, LastPart

(* The blocks of the first k pieces. *)
UpTo(bs, size, k) == IF k * size < Len(bs) THEN k * size ELSE Len(bs)

LEMMA Pieces ==
  ASSUME NEW bs \in Seq(Block), NEW size \in Nat \ {0}, NEW k \in Nat, k >= 1
  PROVE  /\ UpTo(bs, size, k - 1) \in 0..Len(bs) /\ UpTo(bs, size, k) \in 0..Len(bs)
         /\ Piece(bs, size, k) \in Seq(Block)
         /\ SubSeq(bs, 1, UpTo(bs, size, k - 1)) \o Piece(bs, size, k)
              = SubSeq(bs, 1, UpTo(bs, size, k))
<1> DEFINE a == (k - 1) * size
           b == k * size
           n == Len(bs)
<1>1. a \in Nat /\ b = a + size /\ n \in Nat /\ b \in Nat
  <2>1. k - 1 \in Nat /\ k = (k - 1) + 1
    OBVIOUS
  <2>2. (k - 1) * size \in Nat
    BY <2>1
  <2>3. k * size = (k - 1) * size + size
    BY <2>1
  <2> QED
    BY <2>2, <2>3
<1>2. /\ UpTo(bs, size, k - 1) = IF a < n THEN a ELSE n
      /\ UpTo(bs, size, k) = IF b < n THEN b ELSE n
      /\ Piece(bs, size, k) = SubSeq(bs, a + 1, IF b < n THEN b ELSE n)
  BY DEF UpTo, Piece
<1> HIDE DEF a, b, n
<1> DEFINE c == IF a < n THEN a ELSE n
           d == IF b < n THEN b ELSE n
<1>3. c \in 0..n /\ d \in c..n /\ c \in Nat /\ d \in Nat /\ d \in 0..n
  BY <1>1
<1>4. SubSeq(bs, a + 1, d) \in Seq(Block) /\ SubSeq(bs, 1, c) \o SubSeq(bs, a + 1, d) = SubSeq(bs, 1, d)
  <2>1. CASE a < n
    <3>1. c = a /\ a + 1 = c + 1
      BY <2>1
    <3> HIDE DEF c, d
    <3>2. 1 \in 1..(Len(bs) + 1) /\ c \in (1 - 1)..Len(bs) /\ d \in c..Len(bs)
      BY <1>1, <1>3 DEF n
    <3>3. SubSeq(bs, 1, c) \o SubSeq(bs, c + 1, d) = SubSeq(bs, 1, d)
      BY <3>2, ConcatAdjacentSubSeq
    <3>4. c + 1 \in Nat /\ 1 <= c + 1 /\ c + 1 <= d + 1 /\ d <= Len(bs)
      BY <1>1, <1>3 DEF n
    <3>5. SubSeq(bs, c + 1, d) \in Seq(Block)
      BY <3>4, <1>3, Slice
    <3> QED
      BY <3>1, <3>3, <3>5
  <2>2. CASE ~ (a < n)
    <3>1. c = n /\ d = n /\ d < a + 1 /\ a + 1 \in Int /\ d \in Int
      BY <2>2, <1>1
    <3> HIDE DEF c, d
    <3>2. SubSeq(bs, a + 1, d) = <<>>
      BY <3>1, SubSeqEmpty
    <3>3. SubSeq(bs, 1, c) = bs /\ SubSeq(bs, 1, d) = bs
      BY <3>1, SubSeqFull DEF n
    <3>4. bs \o <<>> = bs
      BY ConcatEmptySeq
    <3>5. <<>> \in Seq(Block)
      OBVIOUS
    <3> QED
      BY <3>2, <3>3, <3>4, <3>5, Zenon
  <2> QED
    BY <2>1, <2>2
<1> QED
  BY <1>2, <1>3, <1>4 DEF n

LEMMA FreedTwice ==
  ASSUME NEW st0, NEW work, NEW r1, NEW r2, NEW F, NEW G, NEW B, NEW C,
         Freed(st0, work, r1, F, B), Freed(st0, r1, r2, G, C), C \subseteq B
  PROVE  Freed(st0, work, r2, G, B)
BY DEF Freed

LEMMA ConcatBlocks ==
  ASSUME NEW F \in Seq(Block), NEW s \in Seq(Block), NEW t \in Seq(Block)
  PROVE  (F \o s) \o t = F \o (s \o t)
BY ConcatAssociative

LEMMA PrefixDistinct ==
  ASSUME NEW F \in Seq(Block), NEW s \in Seq(Block), NEW t \in Seq(Block),
         NEW bs, s \o t = bs, IsDistinct(F \o bs)
  PROVE  IsDistinct(F \o s) /\ ToSet(F \o s) \subseteq ToSet(F) \cup ToSet(bs)
<1>1. (F \o s) \o t = F \o (s \o t)
  BY ConcatBlocks, Zenon
<1>2. F \o s \in Seq(Block)
  OBVIOUS
<1>3. IsDistinct((F \o s) \o t)
  BY <1>1, Zenon
<1>4. IsDistinct(F \o s)
  BY <1>2, <1>3, DistinctBoth, ZenonT(60)
<1>5. ToSet(F \o s) = ToSet(F) \cup ToSet(s) /\ ToSet(s \o t) = ToSet(s) \cup ToSet(t)
  BY SetOfBoth
<1>6. ToSet(bs) = ToSet(s) \cup ToSet(t)
  BY <1>5, Zenon
<1> QED
  BY <1>4, <1>5, <1>6

FirstPieces(bs, size, k) == SubSeq(bs, 1, UpTo(bs, size, k))
LEMMA EachPieceAdds ==
  ASSUME StorageAssumption, NEW st0, IsStorage(st0), NEW work, IsWork(st0, work),
         NEW F, IsFreeList(work.st, work.list, F),
         NEW bs \in Seq(Block), IsDistinct(F \o bs), NEW size \in Nat \ {0},
         NEW done, PiecesRun(done, work, bs, size)
  PROVE  \A k \in 0..Len(bs) :
           /\ Freed(st0, work, done[k], F \o FirstPieces(bs, size, k), ToSet(F) \cup ToSet(bs))
           /\ FirstPieces(bs, size, k) \in Seq(Block)
           /\ IsDistinct(F \o FirstPieces(bs, size, k))
           /\ ToSet(F \o FirstPieces(bs, size, k)) \subseteq ToSet(F) \cup ToSet(bs)
<1> DEFINE B == ToSet(F) \cup ToSet(bs)
           Upto(k) == FirstPieces(bs, size, k)
<1>0. F \in Seq(Block)
  BY DEF IsFreeList
<1>1. F \in Seq(Block) /\ Len(bs) \in Nat
  BY <1>0
<1>3. ASSUME NEW k \in Nat
      PROVE  /\ Upto(k) \in Seq(Block) /\ IsDistinct(F \o Upto(k))
             /\ ToSet(F \o Upto(k)) \subseteq B
  <2> DEFINE u == UpTo(bs, size, k)
             s == SubSeq(bs, 1, u)
             t == SubSeq(bs, u + 1, Len(bs))
  <2>1. u \in 0..Len(bs)
    <3>1. (k + 1) - 1 = k /\ k + 1 \in Nat /\ k + 1 >= 1
      OBVIOUS
    <3> QED
      BY <3>1, Pieces
  <2> HIDE DEF u
  <2>2. s \in Seq(Block) /\ t \in Seq(Block) /\ s \o t = bs
    BY <2>1, SplitAt
  <2> HIDE DEF s, t
  <2>6. s \in Seq(Block) /\ IsDistinct(F \o s) /\ ToSet(F \o s) \subseteq B
    <3>1. IsDistinct(F \o s) /\ ToSet(F \o s) \subseteq ToSet(F) \cup ToSet(bs)
      BY <1>1, <2>2, PrefixDistinct
    <3> QED
      BY <3>1, <2>2
  <2>7. Upto(k) = s
    BY DEF s, u, FirstPieces
  <2> QED
    BY <2>6, <2>7
<1> HIDE DEF Upto, B
<1> DEFINE T == {k \in Nat : Freed(st0, work, done[k], F \o Upto(k), B)}
<1>4. 0 \in T
  <2>1. Upto(0) = <<>>
    <3>1. UpTo(bs, size, 0) = 0
      BY <1>1 DEF UpTo
    <3> QED
      BY <3>1 DEF Upto, FirstPieces
  <2>2. F \o Upto(0) = F
    BY <1>1, <2>1, ConcatEmptySeq
  <2> QED
    BY <2>2 DEF Freed, PiecesRun
<1>5. ASSUME NEW k \in Nat, 0 < k, k <= Len(bs), k - 1 \in T PROVE k \in T
  <2> DEFINE p == Piece(bs, size, k)
             G == F \o Upto(k - 1)
             old == done[k - 1]
  <2>1. k \in 1..Len(bs) /\ k >= 1 /\ k - 1 \in Nat
    BY <1>1, <1>5
  <2>2. done[k] = AddBlocks(old, p)
    BY <2>1 DEF PiecesRun
  <2>3. Freed(st0, work, old, G, B)
    BY <1>5
  <2>4. p \in Seq(Block) /\ Upto(k - 1) \o p = Upto(k)
    BY <2>1, Pieces DEF Upto, FirstPieces
  <2>5. G \o p = F \o Upto(k) /\ G \in Seq(Block)
    <3>1. Upto(k - 1) \in Seq(Block)
      BY <1>3, <2>1
    <3>0. p \in Seq(Block)
      BY <2>4
    <3> DEFINE u == Upto(k - 1)
    <3>4. u \in Seq(Block)
      BY <3>1
    <3> HIDE DEF p, u
    <3>2. (F \o u) \o p = F \o (u \o p)
      BY <1>0, <3>0, <3>4, ConcatAssociative
    <3>3. F \o u \in Seq(Block)
      BY <1>0, <3>4
    <3> USE DEF u
    <3> QED
      BY <2>4, <3>2, <3>3
  <2> HIDE DEF p, G, old
  <2>6. IsWork(st0, old) /\ IsFreeList(old.st, old.list, G)
    BY <2>3 DEF Freed
  <2>7. IsDistinct(G \o p)
    BY <2>5, <2>1, <1>3
  <2>8. Freed(st0, old, AddBlocks(old, p), G \o p, ToSet(G) \cup ToSet(p))
    BY <2>4, <2>6, <2>7, AddBlocksAdds
  <2>9. ToSet(G) \cup ToSet(p) \subseteq B
    <3>1. ToSet(G \o p) = ToSet(G) \cup ToSet(p)
      <4>1. G \in Seq(Block) /\ p \in Seq(Block)
        BY <2>4, <2>5
      <4> QED
        BY <4>1, SetOfBoth
    <3>2. ToSet(G \o p) \subseteq B
      BY <2>5, <2>1, <1>3
    <3> QED
      BY <3>1, <3>2
  <2>10. Freed(st0, work, AddBlocks(old, p), G \o p, B)
    BY <2>3, <2>8, <2>9, FreedTwice
  <2> QED
    BY <2>2, <2>5, <2>10
<1> HIDE DEF T
<1>6. \A k \in 0..Len(bs) : k \in T
  BY <1>1, <1>4, <1>5, IntervalInduction
<1>7. ASSUME NEW k \in 0..Len(bs)
      PROVE  Freed(st0, work, done[k], F \o Upto(k), B)
             /\ Upto(k) \in Seq(Block) /\ IsDistinct(F \o Upto(k)) /\ ToSet(F \o Upto(k)) \subseteq B
  <2>1. k \in Nat
    BY <1>1
  <2> QED
    BY <2>1, <1>3, <1>6 DEF T
<1> QED
  BY <1>7 DEF B, Upto

LEMMA AddInPiecesAdds ==
  ASSUME StorageAssumption, NEW st0, IsStorage(st0), NEW work, IsWork(st0, work),
         NEW F, IsFreeList(work.st, work.list, F),
         NEW bs \in Seq(Block), IsDistinct(F \o bs), NEW size \in Nat \ {0}
  PROVE  Freed(st0, work, AddInPieces(work, bs, size), F \o bs, ToSet(F) \cup ToSet(bs))
<1>1. Len(bs) \in Nat /\ Len(bs) \in 0..Len(bs)
  OBVIOUS
<1>2. PICK done : PiecesRun(done, work, bs, size)
  BY PiecesSteps
<1>3. Freed(st0, work, done[Len(bs)], F \o FirstPieces(bs, size, Len(bs)), ToSet(F) \cup ToSet(bs))
  BY <1>1, <1>2, EachPieceAdds
<1>4. FirstPieces(bs, size, Len(bs)) = bs
  <2>1. Len(bs) * size >= Len(bs)
    BY <1>1
  <2>2. UpTo(bs, size, Len(bs)) = Len(bs)
    BY <1>1, <2>1 DEF UpTo
  <2> QED
    BY <2>2, SubSeqFull DEF FirstPieces
<1> QED
  BY <1>2, <1>3, <1>4 DEF PiecesRun

LEMMA StillGood ==
  ASSUME NEW st0, NEW work, IsWork(st0, work), NEW good, good = TRUE,
         NEW r, r = [work EXCEPT !.ok = @ /\ good]
  PROVE  r = work
<1> DEFINE ws == work.writes
           l == work.list
           s == After(st0, ws)
<1>1. work = [st |-> s, list |-> l, writes |-> ws, ok |-> TRUE]
  BY DEF IsWork
<1> HIDE DEF ws, l, s
<1>2. r = [[st |-> s, list |-> l, writes |-> ws, ok |-> TRUE] EXCEPT !.ok = TRUE]
  <2>1. work.ok /\ good = TRUE
    BY <1>1
  <2>2. r = [work EXCEPT !.ok = work.ok /\ good]
    OBVIOUS
  <2>3. (work.ok /\ good) = TRUE
    BY <2>1, <1>1
  <2> QED
    BY <1>1, <2>2, <2>3, Zenon
<1>3. r.st = s /\ r.list = l /\ r.writes = ws /\ r.ok = TRUE
      /\ r = [st |-> r.st, list |-> r.list, writes |-> r.writes, ok |-> r.ok]
  BY <1>2
<1> QED
  BY <1>1, <1>3

(* The k-th block of a chain may be followed by the next one. *)
Fitting(st, start, reserved, k, b, n) ==
  /\ b # reserved
  /\ st[n].ok
  /\ \/ st[n].type = "free" /\ n = reserved
     \/ st[n].type = "data" /\ SeqNbOf(st[n]) =
          k + (IF st[start].type = "data" THEN SeqNbOf(st[start]) ELSE 0)

IsChain(st, c, reserved) ==
  /\ c \in Seq(Block) /\ c # <<>> /\ IsLinked(st, c)
  /\ st[c[1]].ok /\ (st[c[1]].type = "free" => c[1] = reserved)
  /\ \A k \in 1..(Len(c) - 1) : Fitting(st, c[1], reserved, k, c[k], c[k + 1])
  /\ c[Len(c)] = reserved \/ st[c[Len(c)]].next = NoBlock

LEMMA AddChainAdds ==
  ASSUME StorageAssumption, NEW st0, IsStorage(st0), NEW work, IsWork(st0, work),
         NEW F, IsFreeList(work.st, work.list, F),
         NEW c, NEW reserved, IsChain(work.st, c, reserved), IsDistinct(F \o c)
  PROVE  /\ Freed(st0, work, AddChain(work, c[1], reserved), F \o c, ToSet(F) \cup ToSet(c))
         /\ AddChain(work, c[1], reserved) = AddInPieces(work, c, DeleteChunk)
<1> DEFINE st == work.st
           nth == Follow(st, c[1])
           Q == {k \in 1..(NBlocks - 1) : Fitting(st, c[1], reserved, k, nth[k], nth[k + 1])}
<1>1. c \in Seq(Block) /\ F \in Seq(Block) /\ c # <<>> /\ Len(c) \in Nat /\ Len(c) >= 1
      /\ c \in [1..Len(c) -> Block] /\ IsLinked(st, c)
  BY DEF IsFreeList, IsChain
<1>2. IsDistinct(c)
  BY <1>1, DistinctBoth
<1>3. Len(c) <= NBlocks - 1
  BY <1>1, <1>2, DistinctBlocks DEF IsDistinct
<1>4. \A k \in 1..Len(c) : nth[k] = c[k]
  <2>1. c \in Seq(Block) /\ c # <<>> /\ IsLinked(st, c)
    BY <1>1
  <2>2. Len(c) <= NBlocks
    BY <1>1, <1>3, Sizes
  <2> QED
    BY <2>1, <2>2, FollowAlong
<1> HIDE DEF nth
<1>5. \A k \in 1..(Len(c) - 1) : k \in Q
  <2> TAKE k \in 1..(Len(c) - 1)
  <2>1. k \in 1..(NBlocks - 1) /\ k \in 1..Len(c) /\ k + 1 \in 1..Len(c)
    BY <1>1, <1>3, Sizes
  <2>2. nth[k] = c[k] /\ nth[k + 1] = c[k + 1]
    BY <1>4, <2>1
  <2>3. Fitting(st, c[1], reserved, k, c[k], c[k + 1])
    BY DEF IsChain
  <2> QED
    BY <2>1, <2>2, <2>3
<1>6. Len(c) \notin Q \/ st[c[Len(c)]].next = NoBlock
  <2>1. CASE c[Len(c)] = reserved
    <3>1. nth[Len(c)] = reserved
      BY <1>1, <1>4, <2>1
    <3> QED
      BY <3>1 DEF Fitting
  <2> QED
    BY <2>1 DEF IsChain
<1>7. Goes(st, c[1], Q) =
        {k \in 1..(NBlocks - 1) :
           /\ nth[k + 1] # NoBlock
           /\ \A j \in 1..k : nth[j] # nth[k + 1]
           /\ Fitting(st, c[1], reserved, k, nth[k], nth[k + 1])}
  BY Zenon DEF Goes, nth
<1> HIDE DEF Q
<1>8. [k \in 1..RunLength(Goes(st, c[1], Q)) |-> nth[k]] = c
  BY <1>1, <1>2, <1>5, <1>6, ChainFound, SMTT(30) DEF nth
<1> DEFINE chain == ChainFrom(st, c[1], LAMBDA k, b, n :
             /\ b # reserved
             /\ st[n].ok
             /\ \/ st[n].type = "free" /\ n = reserved
                \/ st[n].type = "data" /\ SeqNbOf(st[n]) =
                     k + (IF st[c[1]].type = "data" THEN SeqNbOf(st[c[1]]) ELSE 0))
<1>9. chain = c
  BY <1>7, <1>8 DEF ChainFrom, Fitting, nth
<1>10. /\ st[c[1]].ok /\ (st[c[1]].type = "free" => c[1] = reserved)
       /\ Last(c) = reserved \/ st[Last(c)].next = NoBlock
  BY <1>1 DEF IsChain, Last
<1> DEFINE good == /\ st[c[1]].ok
                   /\ st[c[1]].type = "free" => c[1] = reserved
                   /\ Last(c) = reserved \/ st[Last(c)].next = NoBlock
           full == Len(c) - (Len(c) % DeleteChunk)
           freed == AddInPieces(work, IF good THEN c ELSE SubSeq(c, 1, full), DeleteChunk)
           r == AddChain(work, c[1], reserved)
<1>11. r = [freed EXCEPT !.ok = @ /\ good]
  BY <1>9, Zenon DEF AddChain
<1>12. good = TRUE
  BY <1>10
<1> HIDE DEF good
<1>13. freed = AddInPieces(work, c, DeleteChunk)
  BY <1>12
<1> HIDE DEF freed, r
<1>14. Freed(st0, work, freed, F \o c, ToSet(F) \cup ToSet(c))
  <2>1. DeleteChunk \in Nat \ {0}
    BY DEF StorageAssumption
  <2>2. c \in Seq(Block)
    BY <1>1
  <2> QED
    BY <1>13, <2>1, <2>2, AddInPiecesAdds
<1>15. IsWork(st0, freed)
  BY <1>14 DEF Freed
<1>16. r = freed
  BY <1>11, <1>12, <1>15, StillGood
<1> QED
  BY <1>13, <1>14, <1>16 DEF r

(* A section: its head, and its data blocks in order.                      *)
IsSection(st, c) ==
  /\ c \in Seq(Block) /\ Len(c) >= 2
  /\ IsReadable(st[c[1]], "head") /\ st[c[1]].next = c[2]
  /\ \A i \in 2..Len(c) : /\ IsReadable(st[c[i]], "data") /\ SeqNbOf(st[c[i]]) = i - 1
                          /\ st[c[i]].next = IF i < Len(c) THEN c[i + 1] ELSE NoBlock

(* The blocks of a section writer: that for the head and the last one are  *)
(* not written yet.                                                        *)
IsWritten(st, w, c) ==
  /\ c \in Seq(Block) /\ Len(c) >= 2 /\ w.seqNb = Len(c) - 1
  /\ w.head = c[1] /\ w.first = c[2] /\ w.next = c[Len(c)]
  /\ IsReadable(st[w.head], "free") /\ IsReadable(st[w.next], "free")
  /\ \A i \in 2..(Len(c) - 1) : /\ IsReadable(st[c[i]], "data") /\ SeqNbOf(st[c[i]]) = i - 1
                                /\ st[c[i]].next = c[i + 1] /\ TagOf(st[c[i]]) = w.tag

(* The head that a section writer will replace.                            *)
WriterFields == {"head", "first", "next", "old", "seqNb", "tag", "open", "version"}
IsReplaced(st, H, n, w) ==
  /\ DOMAIN w = WriterFields
  /\ n \in Names /\ w.version \in 0..MaxVersion /\ w.tag \in Tags
  /\ \/ /\ w.old \in H /\ NameOf(st[w.old]) = n /\ VersionOf(st[w.old]) # w.version
     \/ w.old = NoBlock /\ \A h \in H : NameOf(st[h]) # n

(* Every block is in one of the chains C, of which L are the labels.       *)
IsPartition(L, C) ==
  /\ \A a \in L : C[a] \in Seq(Block) /\ IsDistinct(C[a])
  /\ \A a, b \in L : a # b => ToSet(C[a]) \cap ToSet(C[b]) = {}
  /\ \A x \in Block : \E a \in L : x \in ToSet(C[a])

(* 0 is the label of the list of free blocks, the first block that of      *)
(* every other chain.                                                      *)
HeadsOf(ws) == {ws[n].head : n \in DOMAIN ws}
Labels(H, ws) == {0} \cup H \cup HeadsOf(ws)

DistinctNames(st, H) == \A g, h \in H : NameOf(st[g]) = NameOf(st[h]) => g = h

IsLayout(st, l, ws, H, C) ==
  /\ IsStorage(st) /\ H \subseteq Block
  /\ IsFreeList(st, l, C[0])
  /\ \A h \in H : C[h][1] = h /\ IsSection(st, C[h])
  /\ \A n \in DOMAIN ws : IsWritten(st, ws[n], C[ws[n].head]) /\ IsReplaced(st, H, n, ws[n])
  /\ \A m, n \in DOMAIN ws : ws[m].head = ws[n].head => m = n
  /\ IsPartition(Labels(H, ws), C)
  /\ DistinctNames(st, H)

LEMMA SectionBlocks ==
  ASSUME NEW st, NEW c, IsSection(st, c)
  PROVE  /\ Len(c) \in Nat /\ Len(c) >= 2 /\ c \in Seq(Block) /\ c # <<>>
         /\ c[1] \in ToSet(c) /\ c[2] \in ToSet(c) /\ c[1] \in Block /\ c[2] \in Block
         /\ \A b \in ToSet(c) : /\ b \in Block /\ st[b].ok
                                /\ st[b].type = IF b = c[1] THEN "head" ELSE "data"
<1>1. Len(c) \in Nat /\ Len(c) >= 2 /\ c \in Seq(Block) /\ c # <<>>
  BY DEF IsSection
<1>2. 1 \in 1..Len(c) /\ 2 \in 1..Len(c)
  BY <1>1
<1>3. c[1] \in ToSet(c) /\ c[2] \in ToSet(c) /\ c[1] \in Block /\ c[2] \in Block
  BY <1>1, <1>2, SetOf
<1>4. ASSUME NEW b \in ToSet(c)
      PROVE  b \in Block /\ st[b].ok /\ st[b].type = IF b = c[1] THEN "head" ELSE "data"
  <2>1. PICK i \in 1..Len(c) : c[i] = b
    BY <1>1, SetOf
  <2>2. CASE i = 1
    BY <1>3, <2>1, <2>2 DEF IsSection, IsReadable
  <2>3. CASE i # 1
    <3>1. i \in 2..Len(c)
      BY <2>3, <1>1
    <3>2. st[b].ok /\ st[b].type = "data" /\ b \in Block
      BY <2>1, <3>1, <1>1 DEF IsSection, IsReadable
    <3>3. st[c[1]].type = "head"
      BY DEF IsSection, IsReadable
    <3> QED
      BY <3>2, <3>3
  <2> QED
    BY <2>2, <2>3
<1> QED
  BY <1>1, <1>3, <1>4

LEMMA WrittenBlocks ==
  ASSUME NEW st, NEW w, NEW c, IsWritten(st, w, c)
  PROVE  /\ Len(c) \in Nat /\ Len(c) >= 2 /\ c \in Seq(Block) /\ c # <<>>
         /\ w.head \in ToSet(c) /\ w.first \in ToSet(c) /\ w.next \in ToSet(c)
         /\ \A b \in ToSet(c) : b \in Block /\ st[b].ok /\ st[b].type \in {"free", "data"}
<1>1. Len(c) \in Nat /\ Len(c) >= 2 /\ c \in Seq(Block) /\ c # <<>>
  BY DEF IsWritten
<1>2. 1 \in 1..Len(c) /\ 2 \in 1..Len(c) /\ Len(c) \in 1..Len(c)
  BY <1>1
<1>3. c[1] \in ToSet(c) /\ c[2] \in ToSet(c) /\ c[Len(c)] \in ToSet(c)
  BY <1>1, <1>2, SetOf
<1>4. ASSUME NEW b \in ToSet(c)
      PROVE  b \in Block /\ st[b].ok /\ st[b].type \in {"free", "data"}
  <2>1. PICK i \in 1..Len(c) : c[i] = b
    BY <1>1, SetOf
  <2>2. b \in Block
    BY <1>1, SetOf
  <2>3. CASE i = 1 \/ i = Len(c)
    BY <2>1, <2>2, <2>3 DEF IsWritten, IsReadable
  <2>4. CASE i # 1 /\ i # Len(c)
    <3>1. i \in 2..(Len(c) - 1)
      BY <2>4, <1>1
    <3> QED
      BY <2>1, <2>2, <3>1 DEF IsWritten, IsReadable
  <2> QED
    BY <2>3, <2>4
<1> QED
  BY <1>1, <1>3, <1>4 DEF IsWritten

LEMMA FreeListBlocks ==
  ASSUME NEW st, NEW l, NEW F, IsFreeList(st, l, F)
  PROVE  /\ Len(F) \in Nat /\ F \in Seq(Block)
         /\ \A b \in ToSet(F) : b \in Block /\ st[b].ok /\ st[b].type = "free"
<1>1. F \in Seq(Block) /\ Len(F) \in Nat
  BY DEF IsFreeList
<1>2. ASSUME NEW b \in ToSet(F) PROVE b \in Block /\ st[b].ok /\ st[b].type = "free"
  <2>1. PICK i \in 1..Len(F) : F[i] = b
    BY <1>1, SetOf
  <2>2. st[b] = FreeBlock(IF i < Len(F) THEN F[i + 1] ELSE NoBlock)
    BY <2>1 DEF IsFreeList
  <2>3. b \in Block
    BY <1>1, SetOf
  <2> QED
    BY <2>2, <2>3, FreeFields
<1> QED
  BY <1>1, <1>2

(* All blocks can be read; the heads are those of the sections.            *)
LEMMA LayoutBlocks ==
  ASSUME NEW st, NEW l, NEW ws, NEW H, NEW C, IsLayout(st, l, ws, H, C)
  PROVE  /\ \A b \in Block : st[b].ok /\ st[b] \in Content
         /\ HeadsIn(st) = H
         /\ \A h \in H : h \in ToSet(C[h])
         /\ \A n \in DOMAIN ws : ws[n].head \in ToSet(C[ws[n].head])
<1>1. ASSUME NEW b \in Block PROVE st[b].ok /\ (st[b].type = "head" => b \in H)
  <2>1. PICK a \in Labels(H, ws) : b \in ToSet(C[a])
    BY DEF IsLayout, IsPartition
  <2>2. CASE a = 0
    <3>1. IsFreeList(st, l, C[0])
      BY DEF IsLayout
    <3> QED
      BY <2>1, <2>2, <3>1, FreeListBlocks
  <2>3. CASE a \in H
    <3>1. IsSection(st, C[a]) /\ C[a][1] = a
      BY <2>3 DEF IsLayout
    <3> QED
      BY <2>1, <2>3, <3>1, SectionBlocks
  <2>4. CASE a \in HeadsOf(ws)
    <3>1. PICK n \in DOMAIN ws : a = ws[n].head
      BY <2>4 DEF HeadsOf
    <3>2. IsWritten(st, ws[n], C[a])
      BY <3>1 DEF IsLayout
    <3> QED
      BY <2>1, <3>2, WrittenBlocks
  <2> QED
    BY <2>2, <2>3, <2>4 DEF Labels
<1>2. ASSUME NEW h \in H PROVE h \in HeadsIn(st) /\ h \in ToSet(C[h])
  <2>1. IsSection(st, C[h]) /\ C[h][1] = h
    BY DEF IsLayout
  <2>2. st[h].ok /\ st[h].type = "head" /\ h \in Block /\ h \in ToSet(C[h])
    BY <2>1, SectionBlocks
  <2> QED
    BY <2>2 DEF HeadsIn, IsReadable
<1>3. ASSUME NEW h \in HeadsIn(st) PROVE h \in H
  BY <1>1 DEF HeadsIn, IsReadable
<1>4. \A n \in DOMAIN ws : ws[n].head \in ToSet(C[ws[n].head])
  <2> TAKE n \in DOMAIN ws
  <2>1. IsWritten(st, ws[n], C[ws[n].head])
    BY DEF IsLayout
  <2> QED
    BY <2>1, WrittenBlocks
<1>5. \A b \in Block : st[b].ok /\ st[b] \in Content
  BY <1>1, StorageFields DEF IsLayout
<1> QED
  BY <1>2, <1>3, <1>4, <1>5

LEMMA FindHeadFinds ==
  ASSUME StorageAssumption, NEW st, NEW l, NEW ws, NEW H, NEW C, IsLayout(st, l, ws, H, C),
         NEW n \in Names
  PROVE  \/ FindHead(st, n) \in H /\ NameOf(st[FindHead(st, n)]) = n
         \/ FindHead(st, n) = NoBlock /\ \A h \in H : NameOf(st[h]) # n
<1> DEFINE hits == {b \in Block : /\ st[b].type = "head" /\ st[b].hash = Hash[n]
                                  /\ st[b].ok => NameOf(st[b]) = n}
           first == CHOOSE b \in hits : \A c \in hits : b <= c
<1>1. FindHead(st, n) = IF hits = {} THEN NoBlock ELSE IF st[first].ok THEN first ELSE Unreadable
  BY DEF FindHead
<1>2. HeadsIn(st) = H /\ \A b \in Block : st[b].ok /\ st[b] \in Content
  BY LayoutBlocks
<1>3. \A b \in hits : b \in H /\ NameOf(st[b]) = n
  BY <1>2 DEF HeadsIn, IsReadable
<1>4. \A b \in H : NameOf(st[b]) = n => b \in hits
  <2> TAKE b \in H
  <2> HAVE NameOf(st[b]) = n
  <2>1. b \in Block /\ st[b].type = "head" /\ st[b] \in Content
    BY <1>2 DEF HeadsIn, IsReadable
  <2>2. st[b].hash = Hash[NameOf(st[b])]
    BY <2>1, ContentFields
  <2> QED
    BY <2>1, <2>2
<1>5. hits \in SUBSET Nat /\ \A b \in hits : st[b].ok
  BY Sizes, <1>2
<1> HIDE DEF hits
<1>6. hits # {} => first \in hits
  <2>1. hits # {} => \E b \in hits : \A c \in hits : b <= c
    BY <1>5, LeastElement
  <2> QED
    BY <2>1
<1> HIDE DEF first
<1> QED
  BY <1>1, <1>3, <1>4, <1>5, <1>6

LEMMA SectionFound ==
  ASSUME StorageAssumption, NEW st, NEW c, IsSection(st, c), IsDistinct(c)
  PROVE  SectionOf(st, c[1]) = c
<1> DEFINE nth == Follow(st, c[1])
           Q == {k \in 1..(NBlocks - 1) : IsReadable(st[nth[k + 1]], "data")
                                          /\ SeqNbOf(st[nth[k + 1]]) = k}
<1>1. Len(c) \in Nat /\ Len(c) >= 2 /\ c \in Seq(Block) /\ c # <<>> /\ c \in [1..Len(c) -> Block]
  BY SectionBlocks
<1>2. IsLinked(st, c)
  <2> SUFFICES ASSUME NEW k \in 1..(Len(c) - 1) PROVE st[c[k]].next = c[k + 1]
    BY DEF IsLinked
  <2>1. CASE k = 1
    BY <2>1 DEF IsSection
  <2>2. CASE k # 1
    <3>1. k \in 2..Len(c) /\ k < Len(c)
      BY <2>2, <1>1
    <3> QED
      BY <3>1 DEF IsSection
  <2> QED
    BY <2>1, <2>2
<1>3. Len(c) <= NBlocks - 1
  BY <1>1, DistinctBlocks DEF IsDistinct
<1>4. \A k \in 1..Len(c) : nth[k] = c[k]
  <2>1. c \in Seq(Block) /\ c # <<>> /\ Len(c) <= NBlocks
    BY <1>1, <1>3, Sizes
  <2> QED
    BY <2>1, <1>2, FollowAlong
<1> HIDE DEF nth
<1>5. \A k \in 1..(Len(c) - 1) : k \in Q
  <2> TAKE k \in 1..(Len(c) - 1)
  <2>1. k \in 1..(NBlocks - 1) /\ k + 1 \in 1..Len(c) /\ k + 1 \in 2..Len(c) /\ (k + 1) - 1 = k
    BY <1>1, <1>3, Sizes
  <2>2. nth[k + 1] = c[k + 1]
    BY <1>4, <2>1
  <2>3. IsReadable(st[c[k + 1]], "data") /\ SeqNbOf(st[c[k + 1]]) = k
    BY <2>1 DEF IsSection
  <2> QED
    BY <2>1, <2>2, <2>3
<1>6. st[c[Len(c)]].next = NoBlock
  <2>1. Len(c) \in 2..Len(c) /\ ~ (Len(c) < Len(c))
    BY <1>1
  <2> QED
    BY <2>1 DEF IsSection
<1>7. Goes(st, c[1], Q) =
        {k \in 1..(NBlocks - 1) :
           /\ nth[k + 1] # NoBlock
           /\ \A j \in 1..k : nth[j] # nth[k + 1]
           /\ IsReadable(st[nth[k + 1]], "data") /\ SeqNbOf(st[nth[k + 1]]) = k}
  BY Zenon DEF Goes, nth
<1> HIDE DEF Q
<1>8. [k \in 1..RunLength(Goes(st, c[1], Q)) |-> nth[k]] = c
  <2>1. c \in Seq(Block) /\ c # <<>>
    BY <1>1
  <2> QED
    BY <2>1, <1>2, <1>5, <1>6, ChainFound, ZenonT(30) DEF nth
<1> QED
  BY <1>7, <1>8 DEF SectionOf, ChainFrom, nth

LEMMA FreeChainFound ==
  ASSUME StorageAssumption, NEW F, IsFreeList(storage, list, F)
  PROVE  FreeChain = F
<1>1. F \in Seq(Block) /\ Len(F) \in Nat /\ IsDistinct(F) /\ list.n = Len(F)
  BY DEF IsFreeList
<1>2. CASE F = <<>>
  <2>0. Len(F) = 0
    BY <1>2
  <2>1. list.n = 0
    BY <1>1, <2>0
  <2> QED
    BY <2>1, <1>2 DEF FreeChain
<1>3. CASE F # <<>>
  <2> DEFINE nth == Follow(storage, F[1])
             Q == {k \in 1..(NBlocks - 1) : IsReadable(storage[nth[k + 1]], "free")}
  <2>1. Len(F) >= 1 /\ list.n # 0 /\ list.head = F[1] /\ Len(F) \in Nat /\ F \in [1..Len(F) -> Block]
    BY <1>1, <1>3 DEF IsFreeList
  <2>2. \A i \in 1..Len(F) :
          /\ IsReadable(storage[F[i]], "free")
          /\ storage[F[i]].next = IF i < Len(F) THEN F[i + 1] ELSE NoBlock
    <3> TAKE i \in 1..Len(F)
    <3>1. storage[F[i]] = FreeBlock(IF i < Len(F) THEN F[i + 1] ELSE NoBlock)
      BY DEF IsFreeList
    <3> QED
      BY <3>1, FreeFields
  <2>3. IsLinked(storage, F) /\ storage[F[Len(F)]].next = NoBlock
    BY <2>1, <2>2 DEF IsLinked
  <2>4. Len(F) <= NBlocks - 1
    BY <1>1, <2>1, DistinctBlocks DEF IsDistinct
  <2>5. \A k \in 1..Len(F) : nth[k] = F[k]
    <3>1. Len(F) <= NBlocks
      BY <2>1, <2>4, Sizes
    <3> QED
      BY <3>1, <1>1, <1>3, <2>3, FollowAlong
  <2> HIDE DEF nth
  <2>6. \A k \in 1..(Len(F) - 1) : k \in Q
    <3> TAKE k \in 1..(Len(F) - 1)
    <3>1. k \in 1..(NBlocks - 1) /\ k + 1 \in 1..Len(F)
      BY <2>1, <2>4, Sizes
    <3> QED
      BY <3>1, <2>2, <2>5
  <2>7. Goes(storage, F[1], Q) =
          {k \in 1..(NBlocks - 1) :
             /\ nth[k + 1] # NoBlock
             /\ \A j \in 1..k : nth[j] # nth[k + 1]
             /\ IsReadable(storage[nth[k + 1]], "free")}
    BY Zenon DEF Goes, nth
  <2> HIDE DEF Q
  <2>8. [k \in 1..RunLength(Goes(storage, F[1], Q)) |-> nth[k]] = F
    BY <1>1, <1>3, <2>3, <2>6, ChainFound DEF nth
  <2> QED
    <3>1. FreeChain = ChainFrom(storage, F[1], LAMBDA k, b, c : IsReadable(storage[c], "free"))
      BY <2>1 DEF FreeChain
    <3> QED
      BY <3>1, <2>7, <2>8 DEF ChainFrom, nth
<1> QED
  BY <1>2, <1>3

LEMMA WrittenFound ==
  ASSUME StorageAssumption, NEW w, NEW c, IsWritten(storage, w, c), IsDistinct(c)
  PROVE  Written(w) = Tail(c)
<1> DEFINE d == Tail(c)
           nth == Follow(storage, w.first)
           Q == {k \in 1..(NBlocks - 1) : nth[k] # w.next}
<1>1. Len(c) \in Nat /\ Len(c) >= 2 /\ c \in Seq(Block) /\ c # <<>>
  BY WrittenBlocks
<1>2. /\ d \in Seq(Block) /\ Len(d) = Len(c) - 1
      /\ \A i \in 1..Len(d) : d[i] = c[i + 1]
  BY <1>1, HeadTailProperties
<1> HIDE DEF d
<1>3. Len(d) \in Nat /\ Len(d) >= 1 /\ d # <<>> /\ d \in [1..Len(d) -> Block]
  BY <1>1, <1>2
<1>4. d[1] = w.first /\ d[Len(d)] = w.next
  <2>1. 1 \in 1..Len(d) /\ Len(d) \in 1..Len(d) /\ Len(d) + 1 = Len(c)
    BY <1>1, <1>2, <1>3
  <2> QED
    BY <2>1, <1>2 DEF IsWritten
<1>5. IsDistinct(d)
  BY <1>1, <1>2 DEF IsDistinct
<1>6. IsLinked(storage, d)
  <2> SUFFICES ASSUME NEW k \in 1..(Len(d) - 1) PROVE storage[d[k]].next = d[k + 1]
    BY DEF IsLinked
  <2>1. k + 1 \in 2..(Len(c) - 1) /\ k \in 1..Len(d) /\ k + 1 \in 1..Len(d)
    BY <1>1, <1>2
  <2>2. storage[c[k + 1]].next = c[(k + 1) + 1]
    BY <2>1 DEF IsWritten
  <2> QED
    BY <2>1, <2>2, <1>2
<1>7. Len(d) <= NBlocks - 1
  BY <1>3, <1>5, DistinctBlocks DEF IsDistinct
<1>8. \A k \in 1..Len(d) : nth[k] = d[k]
  <2>1. d \in Seq(Block) /\ d # <<>> /\ Len(d) <= NBlocks
    BY <1>2, <1>3, <1>7, Sizes
  <2> QED
    BY <2>1, <1>4, <1>6, FollowAlong
<1> HIDE DEF nth
<1>9. \A k \in 1..(Len(d) - 1) : k \in Q
  <2> TAKE k \in 1..(Len(d) - 1)
  <2>1. k \in 1..(NBlocks - 1) /\ k \in 1..Len(d) /\ Len(d) \in 1..Len(d) /\ k # Len(d)
    <3>1. Len(d) \in Nat /\ Len(d) >= 1 /\ NBlocks \in Nat /\ Len(d) <= NBlocks - 1
      BY <1>3, <1>7, Sizes
    <3> QED
      BY <3>1
  <2> QED
    BY <2>1, <1>4, <1>5, <1>8 DEF IsDistinct
<1>10. Len(d) \notin Q
  BY <1>3, <1>4, <1>8
<1>11. Goes(storage, w.first, Q) =
         {k \in 1..(NBlocks - 1) :
            /\ nth[k + 1] # NoBlock
            /\ \A j \in 1..k : nth[j] # nth[k + 1]
            /\ nth[k] # w.next}
  BY Zenon DEF Goes, nth
<1> HIDE DEF Q
<1>12. [k \in 1..RunLength(Goes(storage, w.first, Q)) |-> nth[k]] = d
  <2>1. d \in Seq(Block) /\ d # <<>>
    BY <1>2, <1>3
  <2>2. [k \in 1..RunLength(Goes(storage, d[1], Q)) |-> Follow(storage, d[1])[k]] = d
    BY <2>1, <1>5, <1>6, <1>9, <1>10, ChainFound
  <2> QED
    BY <2>2, <1>4 DEF nth
<1> QED
  BY <1>11, <1>12 DEF Written, ChainFrom, nth, d

LEMMA NoRivals ==
  ASSUME NEW st, NEW l, NEW ws, NEW H, NEW C, IsLayout(st, l, ws, H, C),
         NEW g \in H, NEW h \in H
  PROVE  ~ Rivals(st, g, h)
<1>1. SUFFICES ASSUME Rivals(st, g, h) PROVE FALSE
  OBVIOUS
<1>2. g # h /\ NameOf(st[g]) # NameOf(st[h]) /\ st[g].next = st[h].next
  BY <1>1 DEF Rivals, IsLayout, DistinctNames
<1>3. IsSection(st, C[g]) /\ C[g][1] = g /\ IsSection(st, C[h]) /\ C[h][1] = h
  BY DEF IsLayout
<1>4. st[g].next \in ToSet(C[g]) /\ st[h].next \in ToSet(C[h])
  BY <1>3, SectionBlocks DEF IsSection
<1>5. ToSet(C[g]) \cap ToSet(C[h]) = {}
  BY <1>2 DEF IsLayout, IsPartition, Labels
<1> QED
  BY <1>2, <1>4, <1>5

LEMMA LiveAreHeads ==
  ASSUME StorageAssumption, NEW st, NEW l, NEW ws, NEW H, NEW C, IsLayout(st, l, ws, H, C)
  PROVE  LiveHeads(st) = H /\ \A h \in H : SectionOf(st, h) = C[h]
<1>1. HeadsIn(st) = H
  BY LayoutBlocks
<1>2. ASSUME NEW h \in H PROVE SectionOf(st, h) = C[h] /\ IsWhole(st, h)
  <2>1. IsSection(st, C[h]) /\ C[h][1] = h /\ IsDistinct(C[h])
    BY DEF IsLayout, IsPartition, Labels
  <2>2. SectionOf(st, C[h][1]) = C[h]
    BY <2>1, SectionFound
  <2>3. SectionOf(st, h) = C[h]
    BY <2>1, <2>2
  <2>4. Len(C[h]) \in 2..Len(C[h]) /\ ~ (Len(C[h]) < Len(C[h])) /\ Last(C[h]) = C[h][Len(C[h])]
    BY <2>1, SectionBlocks DEF Last
  <2>5. st[C[h][Len(C[h])]].next = NoBlock
    BY <2>1, <2>4 DEF IsSection
  <2> QED
    BY <2>3, <2>4, <2>5 DEF IsWhole
<1>3. \A g, h \in H : ~ Rivals(st, g, h)
  BY NoRivals
<1> QED
  BY <1>1, <1>2, <1>3 DEF LiveHeads

LEMMA LayoutAccounts ==
  ASSUME StorageAssumption, NEW H, NEW C, IsLayout(storage, list, writer, H, C)
  PROVE  /\ Len(FreeChain) = list.n
         /\ list.n > 0 => /\ Last(FreeChain) = list.end
                          /\ storage[list.end].next = NoBlock
         /\ \A p \in Places : \A q \in Places : p = q \/ p \cap q = {}
         /\ UNION Places = Block
         /\ LiveHeads(storage) = HeadsIn(storage)
         /\ \A n \in DOMAIN writer : writer[n].old = FindHead(storage, n)
<1> DEFINE L == Labels(H, writer)
           F == C[0]
<1>1. IsFreeList(storage, list, F) /\ IsPartition(L, C)
  BY DEF IsLayout
<1>2. FreeChain = F
  BY <1>1, FreeChainFound
<1>3. HeadsIn(storage) = H /\ LiveHeads(storage) = H /\ \A h \in H : SectionOf(storage, h) = C[h]
  BY LayoutBlocks, LiveAreHeads
<1>4. \A n \in DOMAIN writer :
        {writer[n].head} \cup ToSet(Written(writer[n])) = ToSet(C[writer[n].head])
  <2> TAKE n \in DOMAIN writer
  <2> DEFINE w == writer[n]
             c == C[w.head]
  <2>1. IsWritten(storage, w, c) /\ IsDistinct(c)
    BY DEF IsLayout, IsPartition, Labels, HeadsOf
  <2> HIDE DEF w, c
  <2>2. Written(w) = Tail(c)
    BY <2>1, WrittenFound
  <2>3. c \in Seq(Block) /\ c # <<>> /\ w.head = c[1]
    BY <2>1, WrittenBlocks DEF IsWritten
  <2>4. c = <<c[1]>> \o Tail(c) /\ <<c[1]>> \in Seq(Block) /\ Tail(c) \in Seq(Block)
    BY <2>3
  <2>5. ToSet(<<c[1]>>) = {c[1]}
    BY DEF ToSet
  <2>6. ToSet(<<c[1]>> \o Tail(c)) = ToSet(<<c[1]>>) \cup ToSet(Tail(c))
    <3> DEFINE s == <<c[1]>>
               t == Tail(c)
    <3>1. s \in Seq(Block) /\ t \in Seq(Block)
      BY <2>4
    <3> HIDE DEF s, t
    <3>2. ToSet(s \o t) = ToSet(s) \cup ToSet(t)
      BY <3>1, SetOfBoth
    <3> QED
      BY <3>2 DEF s, t
  <2>7. ToSet(c) = {c[1]} \cup ToSet(Tail(c))
    BY <2>4, <2>5, <2>6
  <2> QED
    BY <2>2, <2>3, <2>7 DEF w, c
<1>5. Places = {ToSet(C[a]) : a \in L}
  <2>1. {{writer[n].head} \cup ToSet(Written(writer[n])) : n \in DOMAIN writer}
          = {ToSet(C[a]) : a \in HeadsOf(writer)}
    BY <1>4 DEF HeadsOf
  <2>2. {ToSet(SectionOf(storage, h)) : h \in LiveHeads(storage)} = {ToSet(C[a]) : a \in H}
    BY <1>3
  <2>3. Places = {ToSet(C[0])} \cup {ToSet(C[a]) : a \in HeadsOf(writer)} \cup {ToSet(C[a]) : a \in H}
    BY <1>2, <2>1, <2>2 DEF Places
  <2> QED
    BY <2>3 DEF Labels
<1>6. \A p \in Places : \A q \in Places : p = q \/ p \cap q = {}
  BY <1>1, <1>5 DEF IsPartition
<1>7. UNION Places = Block
  <2>1. \A a \in L : ToSet(C[a]) \subseteq Block
    BY <1>1, SetOf DEF IsPartition
  <2> QED
    BY <1>1, <1>5, <2>1 DEF IsPartition
<1>8. Len(FreeChain) = list.n
      /\ (list.n > 0 => Last(FreeChain) = list.end /\ storage[list.end].next = NoBlock)
  <2>1. Len(F) = list.n /\ F \in Seq(Block) /\ Len(F) \in Nat
    BY <1>1 DEF IsFreeList
  <2>2. ASSUME list.n > 0 PROVE Last(F) = list.end /\ storage[list.end].next = NoBlock
    <3>1. F # <<>> /\ Len(F) \in 1..Len(F) /\ ~ (Len(F) < Len(F))
      BY <2>1, <2>2
    <3>2. list.end = F[Len(F)] /\ storage[F[Len(F)]] = FreeBlock(NoBlock)
      BY <1>1, <3>1 DEF IsFreeList
    <3> QED
      BY <3>2, FreeFields DEF Last
  <2> QED
    BY <1>2, <2>1, <2>2
<1>9. \A n \in DOMAIN writer : writer[n].old = FindHead(storage, n)
  <2> TAKE n \in DOMAIN writer
  <2>1. IsReplaced(storage, H, n, writer[n]) /\ DistinctNames(storage, H) /\ n \in Names
    BY DEF IsLayout, IsReplaced
  <2>2. \/ FindHead(storage, n) \in H /\ NameOf(storage[FindHead(storage, n)]) = n
        \/ FindHead(storage, n) = NoBlock /\ \A h \in H : NameOf(storage[h]) # n
    BY <2>1, FindHeadFinds
  <2> QED
    BY <2>1, <2>2 DEF IsReplaced, DistinctNames
<1> QED
  BY <1>3, <1>6, <1>7, <1>8, <1>9

(* The blocks of some chains are moved to others.                          *)
Moved(L, C, A, L2, C2, A2) ==
  /\ A \subseteq L /\ A2 \cap (L \ A) = {} /\ L2 = (L \ A) \cup A2
  /\ \A a \in L \ A : C2[a] = C[a]
  /\ \A a \in A2 : C2[a] \in Seq(Block) /\ IsDistinct(C2[a])
  /\ \A a, b \in A2 : a # b => ToSet(C2[a]) \cap ToSet(C2[b]) = {}
  /\ UNION {ToSet(C[a]) : a \in A} = UNION {ToSet(C2[a]) : a \in A2}

LEMMA PartitionMoved ==
  ASSUME NEW L, NEW C, NEW A, NEW L2, NEW C2, NEW A2,
         IsPartition(L, C), Moved(L, C, A, L2, C2, A2)
  PROVE  IsPartition(L2, C2)
<1>1. \A a \in L2 : a \in A2 \/ (a \in L \ A /\ C2[a] = C[a])
  BY DEF Moved
<1>2. \A a \in L2 : C2[a] \in Seq(Block) /\ IsDistinct(C2[a])
  BY <1>1 DEF Moved, IsPartition
<1>3. ASSUME NEW a \in L2, NEW b \in L2, a # b, NEW x \in ToSet(C2[a]), x \in ToSet(C2[b])
      PROVE  FALSE
  <2>1. CASE a \in A2 /\ b \in A2
    BY <1>3, <2>1 DEF Moved
  <2>2. CASE a \notin A2 /\ b \notin A2
    BY <1>1, <1>3, <2>2 DEF IsPartition, Moved
  <2>3. CASE a \in A2 /\ b \notin A2
    <3>1. b \in L \ A /\ x \in ToSet(C[b])
      BY <1>1, <1>3, <2>3
    <3>2. PICK d \in A : x \in ToSet(C[d])
      BY <1>3, <2>3 DEF Moved
    <3> QED
      BY <3>1, <3>2 DEF IsPartition, Moved
  <2>4. CASE a \notin A2 /\ b \in A2
    <3>1. a \in L \ A /\ x \in ToSet(C[a])
      BY <1>1, <1>3, <2>4
    <3>2. PICK d \in A : x \in ToSet(C[d])
      BY <1>3, <2>4 DEF Moved
    <3> QED
      BY <3>1, <3>2 DEF IsPartition, Moved
  <2> QED
    BY <2>1, <2>2, <2>3, <2>4
<1>4. ASSUME NEW x \in Block PROVE \E a \in L2 : x \in ToSet(C2[a])
  <2>1. PICK d \in L : x \in ToSet(C[d])
    BY DEF IsPartition
  <2>2. CASE d \in A
    BY <2>1, <2>2 DEF Moved
  <2>3. CASE d \notin A
    BY <2>1, <2>3 DEF Moved
  <2> QED
    BY <2>2, <2>3
<1> QED
  BY <1>2, <1>3, <1>4 DEF IsPartition

(* What is not written stays as it is. *)
LEMMA SectionStays ==
  ASSUME NEW st, NEW c, IsSection(st, c), NEW st2, \A b \in ToSet(c) : st2[b] = st[b]
  PROVE  IsSection(st2, c)
<1>1. \A i \in 1..Len(c) : c[i] \in ToSet(c)
  BY SetOf DEF IsSection
<1>2. Len(c) \in Nat /\ Len(c) >= 2 /\ 1 \in 1..Len(c) /\ \A i \in 2..Len(c) : i \in 1..Len(c)
  BY SectionBlocks
<1>3. \A i \in 1..Len(c) : st2[c[i]] = st[c[i]]
  BY <1>1
<1> QED
  BY <1>2, <1>3 DEF IsSection

LEMMA WrittenStays ==
  ASSUME NEW st, NEW w, NEW c, IsWritten(st, w, c), NEW st2, \A b \in ToSet(c) : st2[b] = st[b]
  PROVE  IsWritten(st2, w, c)
<1>1. \A i \in 1..Len(c) : c[i] \in ToSet(c)
  BY SetOf DEF IsWritten
<1>2. Len(c) \in Nat /\ Len(c) >= 2 /\ \A i \in 2..(Len(c) - 1) : i \in 1..Len(c)
  BY WrittenBlocks
<1>3. \A i \in 1..Len(c) : st2[c[i]] = st[c[i]]
  BY <1>1
<1>4. w.head \in ToSet(c) /\ w.next \in ToSet(c)
  BY WrittenBlocks
<1> QED
  BY <1>2, <1>3, <1>4 DEF IsWritten

(* A call changes the chains A into the chains A2, and no others.          *)
Change(st, ws, H, C, A, st2, l2, ws2, H2, C2, A2) ==
  /\ IsStorage(st2) /\ H2 \subseteq Block /\ IsFreeList(st2, l2, C2[0]) /\ 0 \in A2
  /\ Moved(Labels(H, ws), C, A, Labels(H2, ws2), C2, A2)
  /\ \A a \in Labels(H, ws) \ A : \A b \in ToSet(C[a]) : st2[b] = st[b]
  /\ \A h \in H2 :
       \/ h \in A2 /\ C2[h][1] = h /\ IsSection(st2, C2[h])
       \/ h \notin A2 /\ h \in H
  /\ \A n \in DOMAIN ws2 :
       \/ ws2[n].head \in A2 /\ IsWritten(st2, ws2[n], C2[ws2[n].head])
       \/ ws2[n].head \notin A2 /\ n \in DOMAIN ws /\ ws2[n] = ws[n]
  /\ \A n \in DOMAIN ws2 : IsReplaced(st2, H2, n, ws2[n])
  /\ \A m, n \in DOMAIN ws2 : ws2[m].head = ws2[n].head => m = n
  /\ DistinctNames(st2, H2)

LEMMA LayoutChanges ==
  ASSUME NEW st, NEW l, NEW ws, NEW H, NEW C, IsLayout(st, l, ws, H, C),
         NEW st2, NEW l2, NEW ws2, NEW H2, NEW C2, NEW A, NEW A2,
         Change(st, ws, H, C, A, st2, l2, ws2, H2, C2, A2)
  PROVE  IsLayout(st2, l2, ws2, H2, C2)
<1> DEFINE L == Labels(H, ws)
           L2 == Labels(H2, ws2)
<1>1. IsPartition(L2, C2)
  <2>1. IsPartition(L, C)
    BY DEF IsLayout
  <2> QED
    BY <2>1, PartitionMoved DEF Change
<1>2. \A a \in L2 : a \notin A2 => a \in L \ A /\ C2[a] = C[a] /\ \A b \in ToSet(C[a]) : st2[b] = st[b]
  BY DEF Moved, Change
<1>3. ASSUME NEW h \in H2 PROVE C2[h][1] = h /\ IsSection(st2, C2[h])
  <2>1. CASE h \in A2
    BY <2>1 DEF Change
  <2>2. CASE h \notin A2
    <3>1. h \in L2 /\ h \in H
      BY <2>2 DEF Labels, Change
    <3>2. C2[h] = C[h] /\ \A b \in ToSet(C[h]) : st2[b] = st[b]
      BY <1>2, <2>2, <3>1
    <3>3. IsSection(st, C[h]) /\ C[h][1] = h
      BY <3>1 DEF IsLayout
    <3> QED
      BY <3>2, <3>3, SectionStays
  <2> QED
    BY <2>1, <2>2
<1>4. ASSUME NEW n \in DOMAIN ws2 PROVE IsWritten(st2, ws2[n], C2[ws2[n].head])
  <2> DEFINE a == ws2[n].head
  <2>1. CASE a \in A2
    BY <2>1 DEF Change
  <2>2. CASE a \notin A2
    <3>1. a \in L2 /\ n \in DOMAIN ws /\ ws2[n] = ws[n]
      BY <2>2 DEF Labels, HeadsOf, Change
    <3>2. C2[a] = C[a] /\ \A b \in ToSet(C[a]) : st2[b] = st[b]
      BY <1>2, <2>2, <3>1
    <3>3. IsWritten(st, ws[n], C[a])
      BY <3>1 DEF IsLayout
    <3> QED
      BY <3>1, <3>2, <3>3, WrittenStays
  <2> QED
    BY <2>1, <2>2
<1> QED
  BY <1>1, <1>3, <1>4 DEF IsLayout, Change

IsMounted(st, l, ws) == \E H, C : IsLayout(st, l, ws, H, C)

LEMMA ModSmall ==
  ASSUME NEW n \in Nat, n >= 1, NEW x \in Nat, x < n
  PROVE  x % n = x
OBVIOUS

LEMMA ModSelf ==
  ASSUME NEW n \in Nat, n >= 1
  PROVE  n % n = 0
OBVIOUS

LEMMA NextVersionDiffers ==
  ASSUME StorageAssumption, NEW v \in 0..MaxVersion
  PROVE  NextVersion(v) \in 0..MaxVersion /\ NextVersion(v) # v
<1>1. NVersions \in Nat /\ NVersions >= 3 /\ v \in Nat /\ v + 1 <= NVersions /\ MaxVersion = NVersions - 1
  BY DEF StorageAssumption, MaxVersion
<1>2. CASE v + 1 < NVersions
  <2>1. (v + 1) % NVersions = v + 1
    BY <1>1, <1>2, ModSmall
  <2> QED
    BY <2>1, <1>1, <1>2 DEF NextVersion
<1>3. CASE v + 1 = NVersions
  <2>1. NVersions % NVersions = 0
    BY <1>1, ModSelf
  <2> QED
    BY <2>1, <1>1, <1>3 DEF NextVersion
<1> QED
  BY <1>1, <1>2, <1>3

(* The labels are the first blocks of chains. *)
LEMMA LabelBlocks ==
  ASSUME StorageAssumption, NEW st, NEW l, NEW ws, NEW H, NEW C, IsLayout(st, l, ws, H, C)
  PROVE  /\ \A a \in H \cup HeadsOf(ws) : a \in Block /\ a # 0 /\ a \in ToSet(C[a])
         /\ H \cap HeadsOf(ws) = {}
         /\ \A x \in ToSet(C[0]) : x \in Block /\ x \notin Labels(H, ws)
<1>0. 0 \notin Block
  BY DEF Block
<1>1. ASSUME NEW a \in H \cup HeadsOf(ws) PROVE a \in Block /\ a # 0 /\ a \in ToSet(C[a])
  <2>1. CASE a \in H
    BY <1>0, <2>1, LayoutBlocks DEF IsLayout
  <2>2. CASE a \in HeadsOf(ws)
    <3>1. PICK n \in DOMAIN ws : a = ws[n].head
      BY <2>2 DEF HeadsOf
    <3>2. IsWritten(st, ws[n], C[a])
      BY <3>1 DEF IsLayout
    <3> QED
      BY <1>0, <3>1, <3>2, WrittenBlocks
  <2> QED
    BY <2>1, <2>2
<1>2. ASSUME NEW a \in H, a \in HeadsOf(ws) PROVE FALSE
  <2>1. PICK n \in DOMAIN ws : a = ws[n].head
    BY <1>2 DEF HeadsOf
  <2>2. IsWritten(st, ws[n], C[a]) /\ IsSection(st, C[a]) /\ C[a][1] = a
    BY <2>1, <1>2 DEF IsLayout
  <2> QED
    BY <2>1, <2>2 DEF IsWritten, IsSection, IsReadable
<1>3. ASSUME NEW x \in ToSet(C[0]) PROVE x \in Block /\ x \notin Labels(H, ws)
  <2>1. x \in Block
    <3>1. C[0] \in Seq(Block)
      BY DEF IsLayout, IsFreeList
    <3> QED
      BY <3>1, SetOf
  <2>2. \A a \in Labels(H, ws) : a # 0 => ToSet(C[a]) \cap ToSet(C[0]) = {}
    BY DEF IsLayout, IsPartition, Labels
  <2> QED
    BY <1>0, <1>1, <2>1, <2>2 DEF Labels
<1> QED
  BY <1>1, <1>2, <1>3

LEMMA ReplacedStays ==
  ASSUME NEW st, NEW H, NEW n, NEW w, IsReplaced(st, H, n, w),
         NEW st2, \A h \in H : st2[h] = st[h]
  PROVE  IsReplaced(st2, H, n, w)
BY DEF IsReplaced

(* One writer more, or another state of it. *)
LEMMA WriterSet ==
  ASSUME NEW ws, \A m, n \in DOMAIN ws : ws[m].head = ws[n].head => m = n,
         NEW n, NEW w, NEW ws2, ws2 = With(ws, n, w),
         IF n \in DOMAIN ws THEN w.head = ws[n].head ELSE w.head \notin HeadsOf(ws)
  PROVE  /\ HeadsOf(ws2) = HeadsOf(ws) \cup {w.head}
         /\ \A m \in DOMAIN ws2 : 
              (m = n /\ ws2[m] = w)
              \/ (m # n /\ m \in DOMAIN ws /\ ws2[m] = ws[m] /\ ws[m].head # w.head)
         /\ \A m, k \in DOMAIN ws2 : ws2[m].head = ws2[k].head => m = k
<1>1. DOMAIN ws2 = DOMAIN ws \cup {n} /\ ws2[n] = w /\ \A m \in DOMAIN ws : m # n => ws2[m] = ws[m]
  BY DEF With
<1>2. \A m \in DOMAIN ws : m # n => ws[m].head # w.head
  BY DEF HeadsOf
<1>3. \A m \in DOMAIN ws2 : 
              (m = n /\ ws2[m] = w)
              \/ (m # n /\ m \in DOMAIN ws /\ ws2[m] = ws[m] /\ ws[m].head # w.head)
  BY <1>1, <1>2
<1>4. ASSUME NEW b \in HeadsOf(ws2) PROVE b \in HeadsOf(ws) \cup {w.head}
  BY <1>3 DEF HeadsOf
<1>5. ASSUME NEW b \in HeadsOf(ws) \cup {w.head} PROVE b \in HeadsOf(ws2)
  <2>1. CASE b = w.head
    BY <1>1, <2>1 DEF HeadsOf
  <2>2. CASE b # w.head
    <3>1. PICK m \in DOMAIN ws : b = ws[m].head
      BY <2>2 DEF HeadsOf
    <3>2. m # n
      BY <3>1, <2>2
    <3>3. m \in DOMAIN ws2 /\ ws2[m] = ws[m]
      BY <1>1, <3>1, <3>2
    <3> QED
      BY <3>1, <3>3 DEF HeadsOf
  <2> QED
    BY <2>1, <2>2
<1>6. ASSUME NEW m \in DOMAIN ws2, NEW k \in DOMAIN ws2, ws2[m].head = ws2[k].head PROVE m = k
  BY <1>3, <1>6
<1> QED
  BY <1>3, <1>4, <1>5, <1>6

(* One writer less. *)
LEMMA WriterGone ==
  ASSUME NEW ws, \A m, n \in DOMAIN ws : ws[m].head = ws[n].head => m = n,
         NEW n \in DOMAIN ws, NEW ws2, ws2 = Without(ws, n)
  PROVE  /\ HeadsOf(ws2) = HeadsOf(ws) \ {ws[n].head}
         /\ \A m \in DOMAIN ws2 : m # n /\ m \in DOMAIN ws /\ ws2[m] = ws[m] /\ ws[m].head # ws[n].head
         /\ \A m, k \in DOMAIN ws2 : ws2[m].head = ws2[k].head => m = k
<1>1. DOMAIN ws2 = DOMAIN ws \ {n} /\ \A m \in DOMAIN ws2 : ws2[m] = ws[m]
  BY DEF Without
<1>2. \A m \in DOMAIN ws2 : m # n /\ m \in DOMAIN ws /\ ws2[m] = ws[m] /\ ws[m].head # ws[n].head
  BY <1>1
<1>3. ASSUME NEW b \in HeadsOf(ws2) PROVE b \in HeadsOf(ws) \ {ws[n].head}
  BY <1>2 DEF HeadsOf
<1>4. ASSUME NEW b \in HeadsOf(ws), b # ws[n].head PROVE b \in HeadsOf(ws2)
  <2>1. PICK m \in DOMAIN ws : b = ws[m].head
    BY DEF HeadsOf
  <2>2. m \in DOMAIN ws2 /\ ws2[m] = ws[m]
    BY <1>1, <1>4, <2>1
  <2> QED
    BY <2>1, <2>2 DEF HeadsOf
<1>5. ASSUME NEW m \in DOMAIN ws2, NEW k \in DOMAIN ws2, ws2[m].head = ws2[k].head PROVE m = k
  BY <1>2, <1>5
<1> QED
  BY <1>2, <1>3, <1>4, <1>5

(* The writers of a layout have distinct heads, and labels. *)
LEMMA WriterLabels ==
  ASSUME NEW st, NEW l, NEW ws, NEW H, NEW C, IsLayout(st, l, ws, H, C)
  PROVE  /\ \A m, n \in DOMAIN ws : ws[m].head = ws[n].head => m = n
         /\ \A n \in DOMAIN ws : /\ ws[n].head \in HeadsOf(ws) /\ ws[n].head \in Labels(H, ws)
                                /\ IsWritten(st, ws[n], C[ws[n].head])
                                /\ IsReplaced(st, H, n, ws[n])
         /\ \A h \in H : h \in Labels(H, ws) /\ C[h][1] = h /\ IsSection(st, C[h])
         /\ 0 \in Labels(H, ws)
         /\ \A a \in Labels(H, ws) : C[a] \in Seq(Block) /\ IsDistinct(C[a])
         /\ \A a, b \in Labels(H, ws) : a # b => ToSet(C[a]) \cap ToSet(C[b]) = {}
         /\ \A a \in Labels(H, ws) : a = 0 \/ a \in H \/ a \in HeadsOf(ws)
BY DEF IsLayout, IsPartition, Labels, HeadsOf

LEMMA ChainsApart ==
  ASSUME NEW st, NEW l, NEW ws, NEW H, NEW C, IsLayout(st, l, ws, H, C)
  PROVE  /\ \A a \in Labels(H, ws) : C[a] \in Seq(Block) /\ IsDistinct(C[a])
         /\ \A a, b \in Labels(H, ws) : a # b => ToSet(C[a]) \cap ToSet(C[b]) = {}
BY DEF IsLayout, IsPartition

LEMMA SplitApart ==
  ASSUME NEW pre \in Seq(Block), NEW rest \in Seq(Block), NEW c, pre \o rest = c, IsDistinct(c)
  PROVE  IsDistinct(pre) /\ IsDistinct(rest) /\ ToSet(pre) \cap ToSet(rest) = {}
         /\ ToSet(c) = ToSet(pre) \cup ToSet(rest)
<1>1. IsDistinct(pre \o rest)
  BY Zenon
<1>2. IsDistinct(pre) /\ IsDistinct(rest) /\ ToSet(pre) \cap ToSet(rest) = {}
  BY <1>1, DistinctBoth
<1>3. ToSet(pre \o rest) = ToSet(pre) \cup ToSet(rest)
  BY SetOfBoth
<1>4. ToSet(c) = ToSet(pre) \cup ToSet(rest)
  BY <1>3, Zenon
<1> QED
  BY <1>2, <1>4

(* A writer gets the first blocks of the list of free blocks. *)
LEMMA CreateLayout ==
  ASSUME StorageAssumption, NEW st, NEW l, NEW ws, NEW H, NEW C, IsLayout(st, l, ws, H, C),
         NEW n \in Names, n \notin DOMAIN ws,
         NEW pre \in Seq(Block), NEW rest \in Seq(Block), pre \o rest = C[0], pre # <<>>,
         NEW l2, IsFreeList(st, l2, rest),
         NEW w, w.head = pre[1], IsWritten(st, w, pre), IsReplaced(st, H, n, w),
         NEW ws2, ws2 = With(ws, n, w)
  PROVE  IsMounted(st, l2, ws2)
<1> DEFINE t == pre[1]
           L == Labels(H, ws)
           L2 == Labels(H, ws2)
           C2 == [a \in L2 |-> IF a = 0 THEN rest ELSE IF a = t THEN pre ELSE C[a]]
<1>1. IsDistinct(pre) /\ IsDistinct(rest) /\ ToSet(pre) \cap ToSet(rest) = {}
      /\ ToSet(C[0]) = ToSet(pre) \cup ToSet(rest)
  <2>1. 0 \in Labels(H, ws)
    BY DEF Labels
  <2>2. IsDistinct(C[0])
    BY <2>1, ChainsApart
  <2> QED
    BY <2>2, SplitApart
<1>2. t \in ToSet(pre)
  <2>1. 1 \in 1..Len(pre)
    OBVIOUS
  <2> QED
    BY <2>1, SetOf
<1>3. t \in Block /\ t \notin L /\ 0 \in L /\ t # 0 /\ t \notin H /\ t \notin HeadsOf(ws)
  <2>1. \A x \in ToSet(C[0]) : x \in Block /\ x \notin Labels(H, ws)
    BY LabelBlocks
  <2>2. 0 \in L
    BY DEF Labels
  <2>3. t \in Block /\ t \notin L
    BY <1>1, <1>2, <2>1
  <2> QED
    BY <2>2, <2>3 DEF Labels
<1>4. /\ HeadsOf(ws2) = HeadsOf(ws) \cup {t}
      /\ \A m \in DOMAIN ws2 :
            (m = n /\ ws2[m] = w)
            \/ (m # n /\ m \in DOMAIN ws /\ ws2[m] = ws[m] /\ ws[m].head # t)
      /\ \A m, k \in DOMAIN ws2 : ws2[m].head = ws2[k].head => m = k
  <2>1. \A m, k \in DOMAIN ws : ws[m].head = ws[k].head => m = k
    BY WriterLabels
  <2>2. IF n \in DOMAIN ws THEN w.head = ws[n].head ELSE w.head \notin HeadsOf(ws)
    BY <1>3
  <2> QED
    BY <2>1, <2>2, WriterSet
<1>5. L2 = L \cup {t}
  BY <1>4, Zenon DEF Labels
<1>6. C2[0] = rest /\ C2[t] = pre /\ \A a \in L : a # 0 => C2[a] = C[a]
  BY <1>3, <1>5
<1> HIDE DEF t, L, L2, C2
<1>7. Moved(L, C, {0}, L2, C2, {0, t})
  <2>1. {0} \subseteq L /\ {0, t} \cap (L \ {0}) = {} /\ L2 = (L \ {0}) \cup {0, t}
    BY <1>3, <1>5
  <2>2. \A a \in L \ {0} : C2[a] = C[a]
    BY <1>6
  <2>3. \A a \in {0, t} : C2[a] \in Seq(Block) /\ IsDistinct(C2[a])
    BY <1>1, <1>6
  <2>4. \A a, b \in {0, t} : a # b => ToSet(C2[a]) \cap ToSet(C2[b]) = {}
    BY <1>1, <1>6
  <2>5. UNION {ToSet(C[a]) : a \in {0}} = UNION {ToSet(C2[a]) : a \in {0, t}}
    <3>1. ToSet(C[0]) = ToSet(C2[0]) \cup ToSet(C2[t])
      BY <1>1, <1>6
    <3> QED
      BY <3>1
  <2> QED
    BY <2>1, <2>2, <2>3, <2>4, <2>5 DEF Moved
<1>8. IsLayout(st, l2, ws2, H, C2)
  <2>1. IsStorage(st) /\ H \subseteq Block /\ DistinctNames(st, H)
    BY DEF IsLayout
  <2>2. IsFreeList(st, l2, C2[0]) /\ 0 \in {0, t}
    BY <1>6
  <2>3. \A h \in H : h \notin {0, t} /\ h \in H
    <3>1. \A h \in H : h \in Block /\ 0 \notin Block
      BY <2>1 DEF Block
    <3> QED
      BY <1>3, <3>1
  <2>4. ASSUME NEW m \in DOMAIN ws2
        PROVE  \/ ws2[m].head \in {0, t} /\ IsWritten(st, ws2[m], C2[ws2[m].head])
               \/ ws2[m].head \notin {0, t} /\ m \in DOMAIN ws /\ ws2[m] = ws[m]
    <3>1. CASE m = n /\ ws2[m] = w
      BY <3>1, <1>6 DEF t
    <3>2. CASE m # n /\ m \in DOMAIN ws /\ ws2[m] = ws[m] /\ ws[m].head # t
      <4>1. ws[m].head # 0
        BY <3>2, LabelBlocks DEF HeadsOf
      <4> QED
        BY <3>2, <4>1
    <3> QED
      BY <1>4, <3>1, <3>2
  <2>5. ASSUME NEW m \in DOMAIN ws2 PROVE IsReplaced(st, H, m, ws2[m])
    <3>1. \A k \in DOMAIN ws : IsReplaced(st, H, k, ws[k])
      BY WriterLabels
    <3> QED
      BY <3>1, <1>4
  <2>6. Change(st, ws, H, C, {0}, st, l2, ws2, H, C2, {0, t})
    BY <2>1, <2>2, <2>3, <2>4, <2>5, <1>4, <1>7 DEF Change, L, L2
  <2> QED
    BY <2>6, LayoutChanges
<1> QED
  BY <1>8 DEF IsMounted

(* Create *)
LEMMA CreateKeeps ==
  ASSUME StorageAssumption, NEW st, NEW l, NEW ws, IsMounted(st, l, ws),
         NEW n \in Names, n \notin DOMAIN ws, l.n >= 2, NEW tag \in Tags,
         NEW old, old = FindHead(st, n),
         NEW taken, taken = TakeBlocks(st, l, 2),
         NEW w, w = [head |-> taken.blocks[1], first |-> taken.blocks[2], next |-> taken.blocks[2],
                     old |-> old, seqNb |-> 1, tag |-> tag, open |-> TRUE,
                     version |-> IF old = NoBlock THEN 1 ELSE NextVersion(VersionOf(st[old]))],
         NEW ws2, ws2 = With(ws, n, w)
  PROVE  taken.ok /\ IsMounted(st, taken.list, ws2)
<1>0. PICK H, C : IsLayout(st, l, ws, H, C)
  BY DEF IsMounted
<1> DEFINE F == C[0]
           pre == SubSeq(F, 1, 2)
           rest == SubSeq(F, 3, Len(F))
           t == F[1]
<1>1. IsFreeList(st, l, F) /\ F \in Seq(Block) /\ Len(F) = l.n /\ Len(F) \in Nat /\ IsDistinct(F)
  BY <1>0 DEF IsLayout, IsFreeList
<1>2. 2 \in 1..Len(F) /\ 2 \in 0..Len(F) /\ 1 \in 1..Len(F) /\ 2 + 1 = 3
  BY <1>1
<1>3. taken.ok /\ taken.blocks = pre /\ IsFreeList(st, taken.list, rest)
  BY <1>1, <1>2, TakeBlocksTakes
<1>4. pre \in Seq(Block) /\ Len(pre) = 2 /\ pre[1] = t /\ pre[2] = F[2] /\ t \in ToSet(F) /\ F[2] \in ToSet(F)
  BY <1>1, <1>2, FirstPart, SetOf
<1>5. rest \in Seq(Block) /\ pre \o rest = F
  BY <1>1, <1>2, SplitAt
<1> HIDE DEF F, pre, rest
<1>9. w.head = t /\ w.first = F[2] /\ w.next = F[2] /\ w.seqNb = 1 /\ w.tag = tag /\ w.old = old
      /\ w.version = IF old = NoBlock THEN 1 ELSE NextVersion(VersionOf(st[old]))
  BY <1>3, <1>4
<1>13. IsWritten(st, w, pre)
  <2>1. st[t].ok /\ st[t].type = "free" /\ st[F[2]].ok /\ st[F[2]].type = "free"
    BY <1>1, <1>4, FreeListBlocks
  <2>2. ~ \E i \in 2..(Len(pre) - 1) : TRUE
    BY <1>4
  <2> QED
    BY <1>4, <1>9, <2>1, <2>2 DEF IsWritten, IsReadable
<1>16. DOMAIN w = WriterFields
  BY DEF WriterFields
<1>14. IsReplaced(st, H, n, w)
  <2>1. MaxVersion \in Nat /\ MaxVersion >= 2
    BY DEF StorageAssumption, MaxVersion
  <2>0. \/ old \in H /\ NameOf(st[old]) = n
        \/ old = NoBlock /\ \A h \in H : NameOf(st[h]) # n
    BY <1>0, FindHeadFinds
  <2>2. CASE old = NoBlock
    <3>1. \A h \in H : NameOf(st[h]) # n
      <4>1. NoBlock \notin H
        BY <1>0, Sizes DEF IsLayout
      <4> QED
        BY <2>2, <4>1, <2>0
    <3> QED
      BY <2>1, <2>2, <3>1, <1>9, <1>16 DEF IsReplaced
  <2>3. CASE old # NoBlock
    <3>1. old \in H /\ NameOf(st[old]) = n
      BY <2>3, <2>0
    <3>2. VersionOf(st[old]) \in 0..MaxVersion
      <4>1. st[old] \in Content /\ st[old].type = "head"
        BY <1>0, <3>1, LayoutBlocks DEF HeadsIn, IsReadable
      <4> QED
        BY <4>1, ContentFields
    <3>3. w.version \in 0..MaxVersion /\ w.version # VersionOf(st[old])
      BY <1>9, <2>3, <3>2, NextVersionDiffers
    <3> QED
      BY <1>9, <1>16, <3>1, <3>3 DEF IsReplaced
  <2> QED
    BY <2>2, <2>3
<1>15. IsMounted(st, taken.list, ws2)
  <2>1. pre # <<>>
    BY <1>13, WrittenBlocks
  <2>2. w.head = pre[1]
    BY <1>4, <1>9
  <2>3. pre \o rest = C[0]
    BY <1>5 DEF F
  <2>4. pre \in Seq(Block) /\ rest \in Seq(Block)
    BY <1>4, <1>5
  <2>5. IsFreeList(st, taken.list, rest)
    BY <1>3
  <2> HIDE DEF F
  <2> QED
    BY <1>0, <2>1, <2>2, <2>3, <2>4, <2>5, <1>13, <1>14, CreateLayout
<1> QED
  BY <1>3, <1>15

(* The list of free blocks and the chains X become the list rest and the   *)
(* chains D of the labels Y.                                               *)
Turns(L, C, X, rest, Y, D) ==
  /\ 0 \in L /\ X \subseteq L /\ 0 \notin X /\ 0 \notin Y /\ Y \cap (L \ X) = {}
  /\ rest \in Seq(Block) /\ IsDistinct(rest)
  /\ \A a \in Y : /\ D[a] \in Seq(Block) /\ IsDistinct(D[a])
                  /\ ToSet(D[a]) \cap ToSet(rest) = {}
  /\ \A a, b \in Y : a # b => ToSet(D[a]) \cap ToSet(D[b]) = {}
  /\ ToSet(rest) \cup UNION {ToSet(D[a]) : a \in Y}
       = ToSet(C[0]) \cup UNION {ToSet(C[a]) : a \in X}

LEMMA TurnsMoved ==
  ASSUME NEW L, NEW C, NEW X, NEW rest, NEW Y, NEW D, Turns(L, C, X, rest, Y, D),
         NEW L2, L2 = (L \ X) \cup Y,
         NEW C2, C2 = [a \in L2 |-> IF a = 0 THEN rest ELSE IF a \in Y THEN D[a] ELSE C[a]]
  PROVE  /\ Moved(L, C, {0} \cup X, L2, C2, {0} \cup Y)
         /\ C2[0] = rest /\ \A a \in Y : C2[a] = D[a]
<1>1. /\ 0 \in L /\ X \subseteq L /\ 0 \notin X /\ 0 \notin Y /\ Y \cap (L \ X) = {}
  BY DEF Turns
<1>2. C2[0] = rest /\ (\A a \in Y : C2[a] = D[a]) /\ \A a \in L \ ({0} \cup X) : C2[a] = C[a]
  BY <1>1
<1>3. /\ {0} \cup X \subseteq L /\ ({0} \cup Y) \cap (L \ ({0} \cup X)) = {}
      /\ L2 = (L \ ({0} \cup X)) \cup ({0} \cup Y)
  BY <1>1
<1>4. \A a \in {0} \cup Y : C2[a] \in Seq(Block) /\ IsDistinct(C2[a])
  BY <1>2 DEF Turns
<1>5. \A a, b \in {0} \cup Y : a # b => ToSet(C2[a]) \cap ToSet(C2[b]) = {}
  BY <1>2 DEF Turns
<1>6. UNION {ToSet(C[a]) : a \in {0} \cup X} = UNION {ToSet(C2[a]) : a \in {0} \cup Y}
  <2>1. UNION {ToSet(C[a]) : a \in {0} \cup X} = ToSet(C[0]) \cup UNION {ToSet(C[a]) : a \in X}
    OBVIOUS
  <2>2. UNION {ToSet(C2[a]) : a \in {0} \cup Y} = ToSet(C2[0]) \cup UNION {ToSet(C2[a]) : a \in Y}
    OBVIOUS
  <2>3. {ToSet(C2[a]) : a \in Y} = {ToSet(D[a]) : a \in Y}
    BY <1>2
  <2> QED
    BY <2>1, <2>2, <2>3, <1>2 DEF Turns
<1> QED
  BY <1>2, <1>3, <1>4, <1>5, <1>6 DEF Moved

(* A call turns the list and the chains X into the list rest and the       *)
(* chains D; it writes no other blocks.                                    *)
Turned(st, ws, H, C, X, st2, l2, ws2, H2, rest, Y, D) ==
  /\ Turns(Labels(H, ws), C, X, rest, Y, D)
  /\ Labels(H2, ws2) = (Labels(H, ws) \ X) \cup Y
  /\ IsStorage(st2) /\ H2 \subseteq Block /\ IsFreeList(st2, l2, rest)
  /\ \A b \in Block : (b \notin ToSet(rest) /\ \A a \in Y : b \notin ToSet(D[a])) => st2[b] = st[b]
  /\ \A h \in H2 : (h \in Y /\ D[h][1] = h /\ IsSection(st2, D[h])) \/ (h \notin Y /\ h \in H)
  /\ \A n \in DOMAIN ws2 :
       (ws2[n].head \in Y /\ IsWritten(st2, ws2[n], D[ws2[n].head]))
       \/ (ws2[n].head \notin Y /\ n \in DOMAIN ws /\ ws2[n] = ws[n])
  /\ \A n \in DOMAIN ws2 : IsReplaced(st2, H2, n, ws2[n])
  /\ \A m, n \in DOMAIN ws2 : ws2[m].head = ws2[n].head => m = n
  /\ DistinctNames(st2, H2)

LEMMA LayoutTurned ==
  ASSUME StorageAssumption, NEW st, NEW l, NEW ws, NEW H, NEW C, IsLayout(st, l, ws, H, C),
         NEW st2, NEW l2, NEW ws2, NEW H2, NEW X, NEW rest, NEW Y, NEW D,
         Turned(st, ws, H, C, X, st2, l2, ws2, H2, rest, Y, D)
  PROVE  IsMounted(st2, l2, ws2)
<1> DEFINE L == Labels(H, ws)
           L2 == Labels(H2, ws2)
           C2 == [a \in L2 |-> IF a = 0 THEN rest ELSE IF a \in Y THEN D[a] ELSE C[a]]
           A == {0} \cup X
           A2 == {0} \cup Y
<1>1. Turns(L, C, X, rest, Y, D) /\ L2 = (L \ X) \cup Y
  BY DEF Turned
<1>2. Moved(L, C, A, L2, C2, A2) /\ C2[0] = rest /\ \A a \in Y : C2[a] = D[a]
  <2>1. C2 = [a \in L2 |-> IF a = 0 THEN rest ELSE IF a \in Y THEN D[a] ELSE C[a]]
    OBVIOUS
  <2> HIDE DEF L, L2, C2
  <2>2. Moved(L, C, {0} \cup X, L2, C2, {0} \cup Y) /\ C2[0] = rest /\ \A a \in Y : C2[a] = D[a]
    BY <1>1, <2>1, TurnsMoved
  <2> QED
    BY <2>2
<1> HIDE DEF L, L2, C2
<1>3. ASSUME NEW a \in L \ A, NEW b \in ToSet(C[a]) PROVE st2[b] = st[b]
  <2>1. b \in Block
    <3>1. C[a] \in Seq(Block)
      BY WriterLabels DEF L
    <3> QED
      BY <3>1, SetOf
  <2>2. \A d \in A : ToSet(C[d]) \cap ToSet(C[a]) = {}
    <3>1. \A d, e \in L : d # e => ToSet(C[d]) \cap ToSet(C[e]) = {}
      <4>1. \A d, e \in Labels(H, ws) : d # e => ToSet(C[d]) \cap ToSet(C[e]) = {}
        BY ChainsApart
      <4> QED
        BY <4>1 DEF L
    <3>2. A \subseteq L
      BY <1>1 DEF Turns
    <3> QED
      BY <3>1, <3>2
  <2>3. b \notin ToSet(C[0]) \cup UNION {ToSet(C[d]) : d \in X}
    BY <2>2
  <2>4. b \notin ToSet(rest) /\ \A d \in Y : b \notin ToSet(D[d])
    BY <2>3, <1>1 DEF Turns
  <2> QED
    BY <2>1, <2>4 DEF Turned
<1>4. \A h \in H2 : \/ h \in A2 /\ C2[h][1] = h /\ IsSection(st2, C2[h])
                    \/ h \notin A2 /\ h \in H
  <2> TAKE h \in H2
  <2>1. h # 0
    BY DEF Turned, Block
  <2> QED
    BY <2>1, <1>2 DEF Turned
<1>5. \A n \in DOMAIN ws2 :
        \/ ws2[n].head \in A2 /\ IsWritten(st2, ws2[n], C2[ws2[n].head])
        \/ ws2[n].head \notin A2 /\ n \in DOMAIN ws /\ ws2[n] = ws[n]
  <2> TAKE n \in DOMAIN ws2
  <2>1. CASE ws2[n].head \in Y /\ IsWritten(st2, ws2[n], D[ws2[n].head])
    BY <2>1, <1>2
  <2>2. CASE ws2[n].head \notin Y /\ n \in DOMAIN ws /\ ws2[n] = ws[n]
    <3>1. ws[n].head # 0
      BY <2>2, LabelBlocks DEF HeadsOf
    <3> QED
      BY <2>2, <3>1
  <2> QED
    BY <2>1, <2>2 DEF Turned
<1>6. Change(st, ws, H, C, A, st2, l2, ws2, H2, C2, A2)
  <2>1. IsStorage(st2) /\ H2 \subseteq Block /\ IsFreeList(st2, l2, C2[0]) /\ 0 \in A2
    BY <1>2 DEF Turned
  <2>2. /\ \A n \in DOMAIN ws2 : IsReplaced(st2, H2, n, ws2[n])
        /\ \A m, n \in DOMAIN ws2 : ws2[m].head = ws2[n].head => m = n
        /\ DistinctNames(st2, H2)
    BY DEF Turned
  <2>3. \A a \in Labels(H, ws) \ A : \A b \in ToSet(C[a]) : st2[b] = st[b]
    BY <1>3 DEF L
  <2>4. Moved(Labels(H, ws), C, A, Labels(H2, ws2), C2, A2)
    BY <1>2 DEF L, L2
  <2>5. \A h \in H2 : \/ h \in A2 /\ C2[h][1] = h /\ IsSection(st2, C2[h])
                      \/ h \notin A2 /\ h \in H
    BY <1>4
  <2>6. \A n \in DOMAIN ws2 :
          \/ ws2[n].head \in A2 /\ IsWritten(st2, ws2[n], C2[ws2[n].head])
          \/ ws2[n].head \notin A2 /\ n \in DOMAIN ws /\ ws2[n] = ws[n]
    BY <1>5
  <2> HIDE DEF A, A2
  <2> QED
    BY <2>1, <2>2, <2>3, <2>4, <2>5, <2>6 DEF Change
<1>7. IsLayout(st2, l2, ws2, H2, C2)
  BY <1>6, LayoutChanges
<1> QED
  BY <1>7 DEF IsMounted

LEMMA DataFields ==
  ASSUME NEW s, NEW x, NEW b
  PROVE  /\ DataBlock(s, x, b).next = b
         /\ SeqNbOf(DataBlock(s, x, b)) = s
         /\ TagOf(DataBlock(s, x, b)) = x
         /\ IsReadable(DataBlock(s, x, b), "data")
BY DEF DataBlock, SeqNbOf, TagOf, IsReadable

LEMMA HeadFields ==
  ASSUME NEW n, NEW v, NEW b
  PROVE  /\ HeadBlock(n, v, b).next = b
         /\ NameOf(HeadBlock(n, v, b)) = n
         /\ VersionOf(HeadBlock(n, v, b)) = v
         /\ IsReadable(HeadBlock(n, v, b), "head")
BY DEF HeadBlock, NameOf, VersionOf, IsReadable

(* A call has decided what it writes: with that the section system will be *)
(* in order again.                                                         *)
IsCall(st, work, ws2) ==
  /\ work.ok /\ work.writes \in Seq(Writes)
  /\ IsMounted(After(st, work.writes), work.list, ws2)

LEMMA CallBegins ==
  ASSUME StorageAssumption, NEW st, IsStorage(st), NEW work, IsWork(st, work),
         NEW ws2, IsMounted(work.st, work.list, ws2)
  PROVE  IsCall(st, work, ws2)
<1>1. work.st = After(st, work.writes) /\ work.ok
  BY WorkStorage
<1>2. work.writes \in Seq(Writes)
  BY DEF IsWork
<1> QED
  BY <1>1, <1>2 DEF IsCall

LEMMA LongerNotEmpty ==
  ASSUME NEW S, NEW s \in Seq(S), NEW x \in S, NEW r, r = s \o <<x>>
  PROVE  r # <<>> /\ \A y \in ToSet(r) : y \in ToSet(s) \/ y = x
<1>1. <<x>> \in Seq(S) /\ ToSet(<<x>>) = {x}
  BY DEF ToSet
<1>2. ToSet(r) = ToSet(s) \cup ToSet(<<x>>)
  <2> DEFINE t == <<x>>
  <2>1. t \in Seq(S)
    BY <1>1
  <2> HIDE DEF t
  <2>2. ToSet(s \o t) = ToSet(s) \cup ToSet(t)
    BY <2>1, SetOfBoth
  <2> QED
    BY <2>2 DEF t
<1>3. r # <<>>
  OBVIOUS
<1> QED
  BY <1>1, <1>2, <1>3

LEMMA Appended ==
  ASSUME NEW S, NEW c \in Seq(S), NEW t \in S
  PROVE  /\ Append(c, t) \in Seq(S) /\ Len(Append(c, t)) = Len(c) + 1
         /\ Append(c, t)[Len(c) + 1] = t /\ \A i \in 1..Len(c) : Append(c, t)[i] = c[i]
         /\ ToSet(Append(c, t)) = ToSet(c) \cup {t}
         /\ IsDistinct(c) /\ t \notin ToSet(c) => IsDistinct(Append(c, t))
<1> DEFINE e == <<t>>
           d == Append(c, t)
<1>1. d = c \o e /\ e \in Seq(S) /\ ToSet(e) = {t} /\ IsDistinct(e)
  BY DEF ToSet, IsDistinct
<1>2. d \in Seq(S) /\ Len(d) = Len(c) + 1 /\ d[Len(c) + 1] = t /\ \A i \in 1..Len(c) : d[i] = c[i]
  OBVIOUS
<1> HIDE DEF e, d
<1>3. ToSet(c \o e) = ToSet(c) \cup ToSet(e)
  BY <1>1, SetOfBoth
<1>4. IsDistinct(c \o e) <=> IsDistinct(c) /\ IsDistinct(e) /\ ToSet(c) \cap ToSet(e) = {}
  BY <1>1, DistinctBoth
<1>5. ToSet(d) = ToSet(c) \cup {t}
  BY <1>1, <1>3
<1>6. IsDistinct(c) /\ t \notin ToSet(c) => IsDistinct(d)
  BY <1>1, <1>4
<1> QED
  BY <1>2, <1>5, <1>6 DEF d

(* A block more for a writer *)
LEMMA WrittenGrows ==
  ASSUME NEW st, NEW w, NEW c, IsWritten(st, w, c), IsDistinct(c),
         NEW t \in Block, t \notin ToSet(c), IsReadable(st[t], "free"),
         NEW st2, st2[w.next] = DataBlock(w.seqNb, w.tag, t),
         \A b \in Block : b # w.next => st2[b] = st[b],
         NEW w2, w2.head = w.head, w2.first = w.first, w2.next = t, w2.seqNb = w.seqNb + 1,
         w2.tag = w.tag,
         NEW d \in Seq(Block), Len(d) = Len(c) + 1, d[Len(c) + 1] = t,
         \A i \in 1..Len(c) : d[i] = c[i]
  PROVE  IsWritten(st2, w2, d)
<1>1. c \in Seq(Block) /\ Len(c) \in Nat /\ Len(c) >= 2 /\ 1 \in 1..Len(c) /\ 2 \in 1..Len(c) /\ Len(c) \in 1..Len(c)
      /\ w.seqNb = Len(c) - 1
  BY WrittenBlocks DEF IsWritten
<1>3. \A i \in 1..Len(c) : c[i] \in ToSet(c) /\ c[i] \in Block /\ c[i] # t
  BY <1>1, SetOf
<1>4. w.head = c[1] /\ w.first = c[2] /\ w.next = c[Len(c)]
  BY DEF IsWritten
<1>5. \A i \in 1..(Len(c) - 1) : c[i] # w.next
  <2> TAKE i \in 1..(Len(c) - 1)
  <2>1. i \in 1..Len(c) /\ i # Len(c)
    BY <1>1
  <2> QED
    BY <2>1, <1>1, <1>4 DEF IsDistinct
<1>6. IsReadable(st2[w2.head], "free") /\ IsReadable(st2[w2.next], "free")
  <2>1. w.head # w.next /\ w.head \in Block /\ t # w.next
    <3>1. 1 \in 1..(Len(c) - 1)
      BY <1>1
    <3> QED
      BY <3>1, <1>1, <1>3, <1>4, <1>5
  <2> QED
    BY <2>1 DEF IsWritten
<1>7. ASSUME NEW i \in 2..(Len(d) - 1)
      PROVE  IsReadable(st2[d[i]], "data") /\ SeqNbOf(st2[d[i]]) = i - 1 /\ st2[d[i]].next = d[i + 1]
             /\ TagOf(st2[d[i]]) = w2.tag
  <2>1. i \in 1..Len(c) /\ Len(d) - 1 = Len(c)
    BY <1>1
  <2>2. CASE i = Len(c)
    <3>1. d[i] = w.next /\ d[i + 1] = t /\ w.seqNb = i - 1
      BY <2>1, <2>2, <1>1, <1>4
    <3>2. st2[d[i]] = DataBlock(w.seqNb, w.tag, t)
      BY <3>1
    <3>3. /\ IsReadable(DataBlock(w.seqNb, w.tag, t), "data")
          /\ SeqNbOf(DataBlock(w.seqNb, w.tag, t)) = w.seqNb
          /\ DataBlock(w.seqNb, w.tag, t).next = t
          /\ TagOf(DataBlock(w.seqNb, w.tag, t)) = w.tag
      BY DataFields
    <3> QED
      BY <3>1, <3>2, <3>3
  <2>3. CASE i # Len(c)
    <3>4. i \in Nat /\ i <= Len(c) /\ Len(c) \in Nat
      BY <2>1, <1>1
    <3>5. i >= 2
      OBVIOUS
    <3>0. i \in Nat /\ i >= 2 /\ i <= Len(c) /\ i # Len(c) /\ Len(c) \in Nat
      BY <2>3, <3>4, <3>5
    <3>1. i \in 2..(Len(c) - 1) /\ i \in 1..(Len(c) - 1) /\ i + 1 \in 1..Len(c)
      BY <3>0
    <3>2. d[i] = c[i] /\ d[i + 1] = c[i + 1] /\ c[i] # w.next /\ c[i] \in Block
      BY <3>1, <2>1, <1>3, <1>5
    <3>3. IsReadable(st[c[i]], "data") /\ SeqNbOf(st[c[i]]) = i - 1 /\ st[c[i]].next = c[i + 1]
         /\ TagOf(st[c[i]]) = w.tag
      BY <3>1 DEF IsWritten
    <3> QED
      BY <3>2, <3>3
  <2> QED
    BY <2>2, <2>3
<1>8. w2.head = d[1] /\ w2.first = d[2] /\ w2.next = d[Len(d)]
  BY <1>1, <1>4
<1>9. Len(d) >= 2 /\ w2.seqNb = Len(d) - 1
  BY <1>1
<1> QED
  BY <1>6, <1>7, <1>8, <1>9 DEF IsWritten

(* The first block of the list of free blocks.                             *)
LEMMA TakeOne ==
  ASSUME StorageAssumption, NEW st, NEW l, NEW ws, NEW H, NEW C, IsLayout(st, l, ws, H, C),
         l.n > 0, NEW taken, taken = TakeBlocks(st, l, 1)
  PROVE  LET t == taken.blocks[1]
             rest == SubSeq(C[0], 2, Len(C[0]))
         IN  /\ taken.ok
             /\ t \in Block /\ t \in ToSet(C[0]) /\ IsReadable(st[t], "free")
             /\ t \notin Labels(H, ws)
             /\ \A a \in Labels(H, ws) : a # 0 => t \notin ToSet(C[a])
             /\ rest \in Seq(Block) /\ IsDistinct(rest) /\ t \notin ToSet(rest)
             /\ ToSet(C[0]) = ToSet(rest) \cup {t}
             /\ IsFreeList(st, taken.list, rest)
<1> DEFINE F == C[0]
           pre == SubSeq(F, 1, 1)
           rest == SubSeq(F, 2, Len(F))
           t == F[1]
<1>1. IsFreeList(st, l, F) /\ F \in Seq(Block) /\ Len(F) = l.n /\ Len(F) \in Nat /\ IsDistinct(F)
  BY DEF IsLayout, IsFreeList
<1>2. 1 \in 1..Len(F) /\ 1 \in 0..Len(F) /\ 1 + 1 = 2
  BY <1>1
<1>3. taken.ok /\ taken.blocks = pre /\ IsFreeList(st, taken.list, rest)
  BY <1>1, <1>2, TakeBlocksTakes
<1>4. pre \in Seq(Block) /\ Len(pre) = 1 /\ pre[1] = t
  BY <1>1, <1>2, FirstPart
<1>5. t \in ToSet(F)
  BY <1>1, <1>2, SetOf
<1>6. rest \in Seq(Block) /\ pre \o rest = F
  BY <1>1, <1>2, SplitAt
<1> HIDE DEF F, pre, rest
<1>7. ToSet(pre) = {t}
  <2>1. ToSet(pre) = {pre[i] : i \in 1..Len(pre)}
    BY <1>4, SetOf
  <2>2. 1..Len(pre) = {1}
    BY <1>4
  <2> QED
    BY <2>1, <2>2, <1>4
<1>8. IsDistinct(rest) /\ ToSet(pre) \cap ToSet(rest) = {}
  <2>1. IsDistinct(pre \o rest) /\ pre \in Seq(Block) /\ rest \in Seq(Block)
    BY <1>1, <1>4, <1>6
  <2> QED
    BY <2>1, DistinctBoth
<1>9. ToSet(F) = ToSet(pre) \cup ToSet(rest)
  <2>1. pre \in Seq(Block) /\ rest \in Seq(Block)
    BY <1>4, <1>6
  <2>2. ToSet(pre \o rest) = ToSet(pre) \cup ToSet(rest)
    BY <2>1, SetOfBoth
  <2> QED
    BY <2>2, <1>6
<1>10. IsReadable(st[t], "free")
  <2>1. st[t].ok /\ st[t].type = "free"
    BY <1>1, <1>5, FreeListBlocks
  <2> QED
    BY <2>1 DEF IsReadable
<1>11. t \in Block /\ t \notin Labels(H, ws)
  <2>1. \A x \in ToSet(C[0]) : x \in Block /\ x \notin Labels(H, ws)
    BY LabelBlocks
  <2> QED
    BY <1>5, <2>1 DEF F
<1>12. \A a \in Labels(H, ws) : a # 0 => t \notin ToSet(C[a])
  <2>1. \A a, b \in Labels(H, ws) : a # b => ToSet(C[a]) \cap ToSet(C[b]) = {}
    BY ChainsApart
  <2>2. 0 \in Labels(H, ws) /\ t \in ToSet(C[0])
    BY <1>5 DEF Labels, F
  <2> QED
    BY <2>1, <2>2
<1>13. taken.blocks[1] = t
  BY <1>3, <1>4
<1>14. t \notin ToSet(rest) /\ ToSet(F) = ToSet(rest) \cup {t}
  BY <1>7, <1>8, <1>9
<1>15. /\ taken.ok
       /\ t \in Block /\ t \in ToSet(F) /\ IsReadable(st[t], "free")
       /\ t \notin Labels(H, ws)
       /\ \A a \in Labels(H, ws) : a # 0 => t \notin ToSet(C[a])
       /\ rest \in Seq(Block) /\ IsDistinct(rest) /\ t \notin ToSet(rest)
       /\ ToSet(F) = ToSet(rest) \cup {t}
       /\ IsFreeList(st, taken.list, rest)
  BY <1>3, <1>5, <1>6, <1>8, <1>10, <1>11, <1>12, <1>14
<1> HIDE DEF t
<1> QED
  BY <1>13, <1>15 DEF F, rest

(* A free list that is not written stays.                                  *)
LEMMA FreeListStays ==
  ASSUME NEW st, NEW l, NEW F, IsFreeList(st, l, F), NEW st2, \A b \in ToSet(F) : st2[b] = st[b]
  PROVE  IsFreeList(st2, l, F)
<1>1. \A i \in 1..Len(F) : F[i] \in ToSet(F)
  BY SetOf DEF IsFreeList
<1>2. \A i \in 1..Len(F) : st2[F[i]] = st[F[i]]
  BY <1>1
<1> QED
  BY <1>2 DEF IsFreeList

(* The writer n gets the block t and writes one of its blocks.             *)
Pushed(st, ws, H, C, n, t, rest, l2, st2, w2) ==
  /\ n \in DOMAIN ws
  /\ t \in Block /\ t \in ToSet(C[0]) /\ IsReadable(st[t], "free")
  /\ \A a \in Labels(H, ws) : a # 0 => t \notin ToSet(C[a])
  /\ rest \in Seq(Block) /\ IsDistinct(rest) /\ t \notin ToSet(rest)
  /\ ToSet(C[0]) = ToSet(rest) \cup {t}
  /\ IsFreeList(st, l2, rest) /\ IsStorage(st2)
  /\ st2[ws[n].next] = DataBlock(ws[n].seqNb, ws[n].tag, t)
  /\ \A b \in Block : b # ws[n].next => st2[b] = st[b]
  /\ w2.head = ws[n].head /\ w2.first = ws[n].first /\ w2.next = t
  /\ w2.seqNb = ws[n].seqNb + 1 /\ w2.tag = ws[n].tag /\ IsReplaced(st, H, n, w2)

LEMMA PushLayout ==
  ASSUME StorageAssumption, NEW st, NEW l, NEW ws, NEW H, NEW C, IsLayout(st, l, ws, H, C),
         NEW n, NEW t, NEW rest, NEW l2, NEW st2, NEW w2,
         Pushed(st, ws, H, C, n, t, rest, l2, st2, w2),
         NEW ws2, ws2 = With(ws, n, w2)
  PROVE  IsMounted(st2, l2, ws2)
<1> USE DEF Pushed
<1> DEFINE w == ws[n]
           a == w.head
           c == C[a]
           d == Append(c, t)
           D == [x \in {a} |-> d]
           L == Labels(H, ws)
<1>1. /\ a \in L /\ a \in HeadsOf(ws) /\ IsWritten(st, w, c) /\ a # 0
      /\ c \in Seq(Block) /\ IsDistinct(c) /\ 0 \in L
      /\ \A x \in L : x # a => ToSet(C[x]) \cap ToSet(c) = {}
  <2>1. a \in L /\ a \in HeadsOf(ws) /\ IsWritten(st, w, c) /\ 0 \in L
    BY WriterLabels
  <2>2. a # 0
    BY <2>1, LabelBlocks
  <2>3. c \in Seq(Block) /\ IsDistinct(c) /\ \A x \in L : x # a => ToSet(C[x]) \cap ToSet(c) = {}
    BY <2>1, ChainsApart
  <2> QED
    BY <2>1, <2>2, <2>3
<1>2. t \notin ToSet(c)
  BY <1>1
<1>3. w.next \in ToSet(c) /\ w.next \in Block /\ w.next \notin ToSet(C[0])
  <2>1. w.next \in ToSet(c) /\ \A b \in ToSet(c) : b \in Block
    BY <1>1, WrittenBlocks
  <2> QED
    BY <2>1, <1>1
<1> HIDE DEF w, a, c, L
<1>4. /\ d \in Seq(Block) /\ Len(d) = Len(c) + 1 /\ d[Len(c) + 1] = t
      /\ \A i \in 1..Len(c) : d[i] = c[i]
      /\ ToSet(d) = ToSet(c) \cup {t} /\ IsDistinct(d)
  BY <1>1, <1>2, Appended
<1>5. D[a] = d
  OBVIOUS
<1> HIDE DEF d, D
<1>6. IsWritten(st2, w2, d)
  <2>1. st2[w.next] = DataBlock(w.seqNb, w.tag, t) /\ \A b \in Block : b # w.next => st2[b] = st[b]
    BY DEF w
  <2>2. w2.head = w.head /\ w2.first = w.first /\ w2.next = t /\ w2.seqNb = w.seqNb + 1
        /\ w2.tag = w.tag
    BY DEF w
  <2>3. d \in Seq(Block) /\ Len(d) = Len(c) + 1 /\ d[Len(c) + 1] = t
        /\ \A i \in 1..Len(c) : d[i] = c[i]
    BY <1>4
  <2>4. IsWritten(st, w, c) /\ IsDistinct(c) /\ t \notin ToSet(c)
    BY <1>1, <1>2
  <2>5. t \in Block /\ IsReadable(st[t], "free")
    OBVIOUS
  <2> HIDE DEF Pushed
  <2> QED
    BY <2>1, <2>2, <2>3, <2>4, <2>5, WrittenGrows
<1>7. /\ HeadsOf(ws2) = HeadsOf(ws) \cup {a}
      /\ \A m \in DOMAIN ws2 :
            (m = n /\ ws2[m] = w2)
            \/ (m # n /\ m \in DOMAIN ws /\ ws2[m] = ws[m] /\ ws[m].head # a)
      /\ \A m, k \in DOMAIN ws2 : ws2[m].head = ws2[k].head => m = k
  <2>1. \A m, k \in DOMAIN ws : ws[m].head = ws[k].head => m = k
    BY WriterLabels
  <2>2. IF n \in DOMAIN ws THEN w2.head = ws[n].head ELSE w2.head \notin HeadsOf(ws)
    OBVIOUS
  <2>3. w2.head = a
    BY DEF a, w
  <2>4. /\ HeadsOf(ws2) = HeadsOf(ws) \cup {w2.head}
        /\ \A m \in DOMAIN ws2 :
              (m = n /\ ws2[m] = w2)
              \/ (m # n /\ m \in DOMAIN ws /\ ws2[m] = ws[m] /\ ws[m].head # w2.head)
        /\ \A m, k \in DOMAIN ws2 : ws2[m].head = ws2[k].head => m = k
    BY <2>1, <2>2, WriterSet
  <2> QED
    BY <2>3, <2>4
<1>8. Turns(L, C, {a}, rest, {a}, D)
  <2>1. ToSet(d) \cap ToSet(rest) = {}
    BY <1>1, <1>4
  <2>2. ToSet(rest) \cup UNION {ToSet(D[x]) : x \in {a}} = ToSet(C[0]) \cup UNION {ToSet(C[x]) : x \in {a}}
    <3>1. UNION {ToSet(D[x]) : x \in {a}} = ToSet(d) /\ UNION {ToSet(C[x]) : x \in {a}} = ToSet(c)
      BY <1>5 DEF c
    <3> QED
      BY <3>1, <1>4
  <2> QED
    BY <2>1, <2>2, <1>1, <1>4, <1>5 DEF Turns
<1>9. Turned(st, ws, H, C, {a}, st2, l2, ws2, H, rest, {a}, D)
  <2>1. Labels(H, ws2) = (Labels(H, ws) \ {a}) \cup {a}
    <3>1. HeadsOf(ws2) = HeadsOf(ws) \cup {a} /\ a \in HeadsOf(ws)
      BY <1>1, <1>7
    <3> QED
      BY <3>1 DEF Labels
  <2>2. IsStorage(st2) /\ H \subseteq Block
    BY DEF IsLayout
  <2>3. IsFreeList(st2, l2, rest)
    <3>1. \A b \in ToSet(rest) : b \in Block /\ b # w.next
      <4>1. \A b \in ToSet(rest) : b \in Block
        BY SetOf
      <4> QED
        BY <4>1, <1>3
    <3>2. \A b \in ToSet(rest) : st2[b] = st[b]
      BY <3>1 DEF w
    <3> QED
      BY <3>2, FreeListStays
  <2>4. \A b \in Block : (b \notin ToSet(rest) /\ \A x \in {a} : b \notin ToSet(D[x])) => st2[b] = st[b]
    <3>1. w.next \in ToSet(d)
      BY <1>3, <1>4
    <3> QED
      BY <3>1, <1>5 DEF w
  <2>5. \A h \in H : h \notin {a} /\ h \in H
    BY <1>1, LabelBlocks
  <2>6. \A m \in DOMAIN ws2 :
          (ws2[m].head \in {a} /\ IsWritten(st2, ws2[m], D[ws2[m].head]))
          \/ (ws2[m].head \notin {a} /\ m \in DOMAIN ws /\ ws2[m] = ws[m])
    <3>1. w2.head = a
      BY DEF a, w
    <3> QED
      BY <3>1, <1>5, <1>6, <1>7
  <2>7. \A h \in H : st2[h] = st[h]
    <3>1. ASSUME NEW h \in H PROVE h # w.next /\ h \in Block
      <4>1. h \in ToSet(C[h]) /\ h \in Block
        BY LabelBlocks
      <4>2. h \in L /\ h # a
        BY <2>5 DEF L, Labels
      <4> QED
        BY <4>1, <4>2, <1>1, <1>3
    <3> QED
      BY <3>1 DEF w
  <2>8. ASSUME NEW m \in DOMAIN ws2 PROVE IsReplaced(st2, H, m, ws2[m])
    <3>1. \A k \in DOMAIN ws : IsReplaced(st, H, k, ws[k])
      BY WriterLabels
    <3>2. IsReplaced(st, H, m, ws2[m])
      BY <3>1, <1>7
    <3> QED
      BY <3>2, <2>7, ReplacedStays
  <2>9. DistinctNames(st2, H)
    <3>1. DistinctNames(st, H)
      BY DEF IsLayout
    <3> QED
      BY <3>1, <2>7 DEF DistinctNames
  <2>10. \A m, k \in DOMAIN ws2 : ws2[m].head = ws2[k].head => m = k
    BY <1>7
  <2> QED
    BY <1>8, <2>1, <2>2, <2>3, <2>4, <2>5, <2>6, <2>8, <2>9, <2>10 DEF Turned, L
<1> QED
  BY <1>9, LayoutTurned

(* The block that a section writer writes next.                            *)
LEMMA WriterBlock ==
  ASSUME StorageAssumption, NEW st, NEW l, NEW ws, NEW H, NEW C, IsLayout(st, l, ws, H, C),
         NEW n \in DOMAIN ws, NEW w, w = ws[n], NEW x \in Link
  PROVE  /\ w.next \in Block /\ w.head \in Block /\ w.first \in Block
         /\ DataBlock(w.seqNb, w.tag, x) \in Content
         /\ HeadBlock(n, w.version, w.first) \in Content
<1>1. IsWritten(st, w, C[w.head]) /\ IsReplaced(st, H, n, w)
  BY WriterLabels
<1>2. w.next \in Block /\ w.head \in Block /\ w.first \in Block
  BY <1>1, WrittenBlocks
<1>3. w.seqNb \in Nat
  <2>1. w.seqNb = Len(C[w.head]) - 1 /\ Len(C[w.head]) \in Nat /\ Len(C[w.head]) >= 2
    BY <1>1, WrittenBlocks DEF IsWritten
  <2> QED
    BY <2>1
<1>4. w.tag \in Tags /\ n \in Names /\ w.version \in 0..MaxVersion
  BY <1>1 DEF IsReplaced
<1>5. DataBlock(w.seqNb, w.tag, x) \in Content
  BY <1>3, <1>4 DEF Content, DataBlocks
<1>6. HeadBlock(n, w.version, w.first) \in Content
  BY <1>2, <1>4 DEF Content, HeadBlocks
<1> QED
  BY <1>2, <1>5, <1>6

(* A call that writes its first block.                                     *)
LEMMA FirstWrite ==
  ASSUME StorageAssumption, NEW st, IsStorage(st), NEW l, NEW b \in Block, NEW x \in Content,
         NEW work, work = Store(Begin(st, l), b, x)
  PROVE  /\ IsWork(st, work) /\ work.list = l /\ IsStorage(work.st)
         /\ work.st[b] = x /\ \A c \in Block : c # b => work.st[c] = st[c]
         /\ work.writes = <<<<b, x>>>> /\ work.writes # <<>>
         /\ \A y \in ToSet(work.writes) : y = <<b, x>>
<1> DEFINE begin == Begin(st, l)
<1>1. IsWork(st, begin) /\ begin.list = l /\ begin.writes = <<>> /\ begin.st = st
  <2>1. begin.st = st
    BY DEF Begin
  <2> QED
    BY <2>1, BeginWork
<1>2. work = Store(begin, b, x)
  OBVIOUS
<1> HIDE DEF begin
<1>3. /\ IsWork(st, work) /\ work.writes = begin.writes \o <<<<b, x>>>>
      /\ work.st[b] = x /\ \A c \in Block : c # b => work.st[c] = begin.st[c]
      /\ work.list = begin.list
  <2>1. IsWork(st, begin)
    BY <1>1
  <2> QED
    BY <2>1, <1>2, StoreWork
<1>4. IsStorage(work.st)
  BY <1>3, WorkStorage
<1>5. work.writes = <<<<b, x>>>>
  BY <1>1, <1>3
<1>6. work.writes # <<>> /\ \A y \in ToSet(work.writes) : y = <<b, x>>
  <2>1. <<<<b, x>>>> # <<>> /\ ToSet(<<<<b, x>>>>) = {<<b, x>>}
    BY DEF ToSet
  <2> QED
    BY <1>5, <2>1
<1> QED
  BY <1>1, <1>3, <1>4, <1>5, <1>6

(* StoreCurrentBlockAndReserveNextBlock                                    *)
(* The writer goes on to the next block. *)
Advanced(w, next) == [w EXCEPT !.next = next, !.seqNb = @ + 1]

LEMMA PushKeeps ==
  ASSUME StorageAssumption, NEW st, NEW l, NEW ws, IsMounted(st, l, ws),
         NEW n \in DOMAIN ws, NEW w, w = ws[n], l.n > 0,
         NEW taken, taken = TakeBlocks(st, l, 1),
         NEW next, next = taken.blocks[1],
         NEW work, work = Store(Begin(st, taken.list), w.next, DataBlock(w.seqNb, w.tag, next)),
         NEW w2, w2 = Advanced(w, next),
         NEW ws2, ws2 = With(ws, n, w2)
  PROVE  /\ taken.ok /\ IsCall(st, work, ws2)
         /\ \A y \in ToSet(work.writes) : y[2].type # "head"
<1>0. PICK H, C : IsLayout(st, l, ws, H, C)
  BY DEF IsMounted
<1> DEFINE rest == SubSeq(C[0], 2, Len(C[0]))
           x == DataBlock(w.seqNb, w.tag, next)
<1>1. /\ taken.ok
      /\ next \in Block /\ next \in ToSet(C[0]) /\ IsReadable(st[next], "free")
      /\ next \notin Labels(H, ws)
      /\ \A a \in Labels(H, ws) : a # 0 => next \notin ToSet(C[a])
      /\ rest \in Seq(Block) /\ IsDistinct(rest) /\ next \notin ToSet(rest)
      /\ ToSet(C[0]) = ToSet(rest) \cup {next}
      /\ IsFreeList(st, taken.list, rest)
  BY <1>0, TakeOne
<1>2. w.next \in Block /\ x \in Content
  <2>1. next \in Link
    BY <1>1 DEF Link
  <2> QED
    BY <1>0, <2>1, WriterBlock
<1>3. IsStorage(st)
  BY <1>0 DEF IsLayout
<1>4. work = Store(Begin(st, taken.list), w.next, x)
  OBVIOUS
<1> HIDE DEF rest, x
<1>5. /\ IsWork(st, work) /\ work.list = taken.list /\ IsStorage(work.st)
      /\ work.st[w.next] = x /\ \A c \in Block : c # w.next => work.st[c] = st[c]
      /\ work.writes = <<<<w.next, x>>>> /\ work.writes # <<>>
      /\ \A y \in ToSet(work.writes) : y = <<w.next, x>>
  BY <1>2, <1>3, <1>4, FirstWrite
<1>6. DOMAIN w = WriterFields /\ IsReplaced(st, H, n, w)
  <2>1. IsReplaced(st, H, n, w)
    BY <1>0, WriterLabels
  <2> QED
    BY <2>1 DEF IsReplaced
<1>7. /\ w2.head = w.head /\ w2.first = w.first /\ w2.next = next /\ w2.seqNb = w.seqNb + 1
      /\ w2.old = w.old /\ w2.tag = w.tag /\ w2.version = w.version /\ DOMAIN w2 = WriterFields
  BY <1>6 DEF WriterFields, Advanced
<1>8. IsReplaced(st, H, n, w2)
  BY <1>6, <1>7 DEF IsReplaced
<1>9. IsMounted(work.st, work.list, ws2)
  <2> DEFINE st2 == work.st
  <2>1. st2[ws[n].next] = DataBlock(ws[n].seqNb, ws[n].tag, next) /\ IsStorage(st2)
    BY <1>5 DEF x
  <2>2. \A b \in Block : b # ws[n].next => st2[b] = st[b]
    BY <1>5
  <2>3. w2.head = ws[n].head /\ w2.first = ws[n].first /\ w2.next = next /\ w2.seqNb = ws[n].seqNb + 1
        /\ w2.tag = ws[n].tag
    BY <1>7
  <2>4. IsFreeList(st, work.list, rest)
    BY <1>1, <1>5
  <2>5. /\ next \in Block /\ next \in ToSet(C[0]) /\ IsReadable(st[next], "free")
        /\ \A a \in Labels(H, ws) : a # 0 => next \notin ToSet(C[a])
        /\ rest \in Seq(Block) /\ IsDistinct(rest) /\ next \notin ToSet(rest)
        /\ ToSet(C[0]) = ToSet(rest) \cup {next}
    BY <1>1
  <2> HIDE DEF st2
  <2>6. IsMounted(st2, work.list, ws2)
    <3>1. Pushed(st, ws, H, C, n, next, rest, work.list, st2, w2)
      BY <1>8, <2>1, <2>2, <2>3, <2>4, <2>5 DEF Pushed
    <3> QED
      BY <1>0, <3>1, PushLayout
  <2> QED
    BY <2>6 DEF st2
<1>10. IsCall(st, work, ws2)
  BY <1>3, <1>5, <1>9, CallBegins
<1>11. \A y \in ToSet(work.writes) : y[2].type # "head"
  <2>1. x.type = "data"
    <3>1. IsReadable(x, "data")
      BY DataFields DEF x
    <3> QED
      BY <3>1 DEF IsReadable
  <2>2. \A y \in ToSet(work.writes) : y[2] = x
    BY <1>5
  <2> QED
    BY <2>1, <2>2
<1> QED
  BY <1>1, <1>10, <1>11

(* The last two writes of a section writer.                                *)
LEMMA WrittenCloses ==
  ASSUME NEW st, NEW w, NEW c, IsWritten(st, w, c), IsDistinct(c), NEW n,
         NEW st2, st2[w.next] = DataBlock(w.seqNb, w.tag, NoBlock),
         st2[w.head] = HeadBlock(n, w.version, w.first),
         \A b \in Block : b # w.next /\ b # w.head => st2[b] = st[b]
  PROVE  IsSection(st2, c) /\ c[1] = w.head
<1>1. c \in Seq(Block) /\ Len(c) \in Nat /\ Len(c) >= 2 /\ 1 \in 1..Len(c) /\ 2 \in 1..Len(c) /\ Len(c) \in 1..Len(c)
      /\ w.seqNb = Len(c) - 1
  BY WrittenBlocks DEF IsWritten
<1>2. w.head = c[1] /\ w.first = c[2] /\ w.next = c[Len(c)]
  BY DEF IsWritten
<1>3. \A i, j \in 1..Len(c) : i # j => c[i] # c[j]
  BY DEF IsDistinct
<1>4. IsReadable(st2[c[1]], "head") /\ st2[c[1]].next = c[2]
  <2>1. st2[c[1]] = HeadBlock(n, w.version, w.first)
    BY <1>2
  <2>2. IsReadable(HeadBlock(n, w.version, w.first), "head")
        /\ HeadBlock(n, w.version, w.first).next = w.first
    BY HeadFields
  <2> QED
    BY <1>2, <2>1, <2>2
<1>5. ASSUME NEW i \in 2..Len(c)
      PROVE  /\ IsReadable(st2[c[i]], "data") /\ SeqNbOf(st2[c[i]]) = i - 1
             /\ st2[c[i]].next = IF i < Len(c) THEN c[i + 1] ELSE NoBlock
  <2>1. CASE i = Len(c)
    <3>1. st2[c[i]] = DataBlock(w.seqNb, w.tag, NoBlock)
      BY <1>2, <2>1
    <3>2. /\ IsReadable(DataBlock(w.seqNb, w.tag, NoBlock), "data")
          /\ SeqNbOf(DataBlock(w.seqNb, w.tag, NoBlock)) = w.seqNb
          /\ DataBlock(w.seqNb, w.tag, NoBlock).next = NoBlock
      BY DataFields
    <3>3. w.seqNb = i - 1 /\ ~ i < Len(c)
      BY <1>1, <2>1
    <3> QED
      BY <3>1, <3>2, <3>3
  <2>2. CASE i # Len(c)
    <3>0. Len(c) \in Nat /\ Len(c) >= 2
      BY <1>1
    <3>1. i \in 2..(Len(c) - 1) /\ i \in 1..Len(c) /\ i # 1 /\ i < Len(c)
      BY <2>2, <3>0
    <3>2. c[i] # w.head /\ c[i] # w.next /\ c[i] \in Block
      BY <1>1, <1>2, <1>3, <2>2, <3>1
    <3>3. IsReadable(st[c[i]], "data") /\ SeqNbOf(st[c[i]]) = i - 1 /\ st[c[i]].next = c[i + 1]
      BY <3>1 DEF IsWritten
    <3> QED
      BY <3>1, <3>2, <3>3
  <2> QED
    BY <2>1, <2>2
<1> QED
  BY <1>1, <1>2, <1>4, <1>5 DEF IsSection

LEMMA WrittenEnds ==
  ASSUME NEW st, NEW w, NEW c, IsWritten(st, w, c), IsDistinct(c)
  PROVE  w.head # w.next
<1> DEFINE k == Len(c)
<1>1. k \in Nat /\ k >= 2
  BY WrittenBlocks
<1> HIDE DEF k
<1>2. 1 \in 1..k /\ k \in 1..k /\ ~ (1 = k)
  BY <1>1
<1> QED
  BY <1>2 DEF IsDistinct, IsWritten, k

LEMMA SectionIsChain ==
  ASSUME StorageAssumption, NEW st, NEW c, IsSection(st, c)
  PROVE  IsChain(st, c, NoBlock)
<1>1. c \in Seq(Block) /\ Len(c) \in Nat /\ Len(c) >= 2 /\ c # <<>>
  BY SectionBlocks
<1>2. st[c[1]].ok /\ st[c[1]].type = "head" /\ st[c[1]].next = c[2]
  BY DEF IsSection, IsReadable
<1>3. \A i \in 2..Len(c) : /\ st[c[i]].ok /\ st[c[i]].type = "data" /\ SeqNbOf(st[c[i]]) = i - 1
                           /\ st[c[i]].next = IF i < Len(c) THEN c[i + 1] ELSE NoBlock
  BY DEF IsSection, IsReadable
<1>4. IsLinked(st, c)
  <2>1. ASSUME NEW k \in 1..(Len(c) - 1) PROVE st[c[k]].next = c[k + 1]
    <3>1. k = 1 \/ (k \in 2..Len(c) /\ k < Len(c))
      BY <1>1
    <3> QED
      BY <3>1, <1>2, <1>3
  <2> QED
    BY <2>1 DEF IsLinked
<1>5. st[c[Len(c)]].next = NoBlock
  <2>1. Len(c) \in 2..Len(c) /\ ~ Len(c) < Len(c)
    BY <1>1
  <2> QED
    BY <2>1, <1>3
<1>6. ASSUME NEW k \in 1..(Len(c) - 1) PROVE Fitting(st, c[1], NoBlock, k, c[k], c[k + 1])
  <2>1. k \in 1..Len(c) /\ k + 1 \in 2..Len(c) /\ (k + 1) - 1 = k /\ k + 0 = k
    BY <1>1
  <2>2. c[k] # NoBlock
    BY <1>1, <2>1, Sizes
  <2>3. st[c[k + 1]].ok /\ st[c[k + 1]].type = "data" /\ SeqNbOf(st[c[k + 1]]) = k
    BY <1>3, <2>1
  <2> QED
    BY <1>2, <2>1, <2>2, <2>3 DEF Fitting
<1> QED
  BY <1>1, <1>2, <1>4, <1>5, <1>6 DEF IsChain

(* The writer n becomes a section, the sections O are freed.               *)
Closed(st, ws, H, C, n, O, rest, l2, st2) ==
  /\ n \in DOMAIN ws /\ O \subseteq H
  /\ \A h \in O : NameOf(st[h]) = n
  /\ \A h \in H \ O : NameOf(st[h]) # n
  /\ rest \in Seq(Block) /\ IsDistinct(rest)
  /\ ToSet(rest) = ToSet(C[0]) \cup UNION {ToSet(C[h]) : h \in O}
  /\ IsStorage(st2) /\ IsFreeList(st2, l2, rest)
  /\ IsSection(st2, C[ws[n].head]) /\ C[ws[n].head][1] = ws[n].head
  /\ NameOf(st2[ws[n].head]) = n
  /\ \A b \in Block : (b \notin ToSet(rest) /\ b \notin ToSet(C[ws[n].head])) => st2[b] = st[b]

LEMMA CloseLayout ==
  ASSUME StorageAssumption, NEW st, NEW l, NEW ws, NEW H, NEW C, IsLayout(st, l, ws, H, C),
         NEW n, NEW O, NEW rest, NEW l2, NEW st2, Closed(st, ws, H, C, n, O, rest, l2, st2),
         NEW ws2, ws2 = Without(ws, n)
  PROVE  IsMounted(st2, l2, ws2)
<1> USE DEF Closed
<1> DEFINE a == ws[n].head
           c == C[a]
           D == [x \in {a} |-> c]
           L == Labels(H, ws)
           X == {a} \cup O
           H2 == (H \ O) \cup {a}
<1>1. /\ a \in L /\ a \in HeadsOf(ws) /\ 0 \in L /\ a \in Block /\ a \notin H /\ a \in ToSet(c)
      /\ O \subseteq L
  <2>1. a \in L /\ a \in HeadsOf(ws) /\ 0 \in L
    BY WriterLabels
  <2>2. a \in Block /\ a \notin H /\ a \in ToSet(c)
    BY <2>1, LabelBlocks
  <2>3. O \subseteq L
    BY DEF Labels
  <2> QED
    BY <2>1, <2>2, <2>3
<1>2. 0 \notin X /\ 0 \notin H /\ a # 0
  <2>1. 0 \notin Block
    BY DEF Block
  <2>2. H \subseteq Block
    BY DEF IsLayout
  <2> QED
    BY <1>1, <2>1, <2>2
<1>3. /\ c \in Seq(Block) /\ IsDistinct(c)
      /\ \A x, y \in L : x # y => ToSet(C[x]) \cap ToSet(C[y]) = {}
  BY <1>1, ChainsApart
<1>4. D[a] = c
  OBVIOUS
<1>5. IsSection(st2, c) /\ c[1] = a /\ NameOf(st2[a]) = n
  OBVIOUS
<1>6. /\ HeadsOf(ws2) = HeadsOf(ws) \ {a}
      /\ \A m \in DOMAIN ws2 : m # n /\ m \in DOMAIN ws /\ ws2[m] = ws[m] /\ ws[m].head # a
      /\ \A m, k \in DOMAIN ws2 : ws2[m].head = ws2[k].head => m = k
  <2>1. \A m, k \in DOMAIN ws : ws[m].head = ws[k].head => m = k
    BY WriterLabels
  <2> QED
    BY <2>1, WriterGone
<1>7. \A b \in Block : (b \notin ToSet(rest) /\ b \notin ToSet(c)) => st2[b] = st[b]
  OBVIOUS
<1> HIDE DEF a, c, D, L
<1>8. ToSet(c) \cap ToSet(rest) = {}
  <2>1. \A x \in {0} \cup O : x \in L /\ x # a
    BY <1>1, <1>2
  <2>2. \A x \in {0} \cup O : ToSet(C[x]) \cap ToSet(c) = {}
    BY <2>1, <1>1, <1>3 DEF c
  <2> QED
    BY <2>2
<1>9. Turns(L, C, X, rest, {a}, D)
  <2>1. ToSet(rest) \cup UNION {ToSet(D[x]) : x \in {a}} = ToSet(C[0]) \cup UNION {ToSet(C[x]) : x \in X}
    <3>1. UNION {ToSet(D[x]) : x \in {a}} = ToSet(C[a])
      BY <1>4 DEF c
    <3>2. UNION {ToSet(C[x]) : x \in X} = ToSet(C[a]) \cup UNION {ToSet(C[h]) : h \in O}
      OBVIOUS
    <3>3. ToSet(rest) = ToSet(C[0]) \cup UNION {ToSet(C[h]) : h \in O}
      OBVIOUS
    <3> QED
      BY <3>1, <3>2, <3>3
  <2>2. X \subseteq L /\ {a} \cap (L \ X) = {} /\ rest \in Seq(Block) /\ IsDistinct(rest)
    BY <1>1
  <2> QED
    BY <2>1, <2>2, <1>1, <1>2, <1>3, <1>4, <1>8 DEF Turns
<1>10. ASSUME NEW h \in H \ O PROVE st2[h] = st[h] /\ h \notin {a} /\ h \in H
  <2>1. h \in L /\ h # a /\ h # 0 /\ h \in Block /\ h \in ToSet(C[h])
    BY <1>1, <1>2, LabelBlocks DEF L, Labels
  <2>2. h \notin ToSet(c)
    BY <2>1, <1>1, <1>3 DEF c
  <2>3. \A x \in {0} \cup O : x \in L /\ x # h
    BY <1>1, <1>2
  <2>4. \A x \in {0} \cup O : ToSet(C[x]) \cap ToSet(C[h]) = {}
    BY <2>1, <2>3, <1>3
  <2>5. h \notin ToSet(rest)
    BY <2>1, <2>4
  <2> QED
    BY <1>7, <2>1, <2>2, <2>5
<1>11. Turned(st, ws, H, C, X, st2, l2, ws2, H2, rest, {a}, D)
  <2>1. Labels(H2, ws2) = (Labels(H, ws) \ X) \cup {a}
    <3>1. HeadsOf(ws2) = HeadsOf(ws) \ {a} /\ a \in HeadsOf(ws) /\ a \notin H /\ 0 \notin X
      BY <1>1, <1>2, <1>6
    <3>2. O \cap HeadsOf(ws) = {}
      BY LabelBlocks
    <3> QED
      BY <3>1, <3>2 DEF Labels
  <2>2. IsStorage(st2) /\ H2 \subseteq Block
    BY <1>1 DEF IsLayout
  <2>3. IsFreeList(st2, l2, rest)
    OBVIOUS
  <2>4. \A b \in Block : (b \notin ToSet(rest) /\ \A x \in {a} : b \notin ToSet(D[x])) => st2[b] = st[b]
    BY <1>4, <1>7
  <2>5. \A h \in H2 : (h \in {a} /\ D[h][1] = h /\ IsSection(st2, D[h])) \/ (h \notin {a} /\ h \in H)
    BY <1>4, <1>5, <1>10
  <2>6. \A m \in DOMAIN ws2 :
          (ws2[m].head \in {a} /\ IsWritten(st2, ws2[m], D[ws2[m].head]))
          \/ (ws2[m].head \notin {a} /\ m \in DOMAIN ws /\ ws2[m] = ws[m])
    BY <1>6
  <2>8. ASSUME NEW m \in DOMAIN ws2 PROVE IsReplaced(st2, H2, m, ws2[m])
    <3>1. m # n /\ ws2[m] = ws[m] /\ m \in DOMAIN ws
      BY <1>6
    <3>2. IsReplaced(st, H, m, ws[m])
      BY <3>1, WriterLabels
    <3>3. CASE ws[m].old \in H /\ NameOf(st[ws[m].old]) = m /\ VersionOf(st[ws[m].old]) # ws[m].version
      <4>1. ws[m].old \in H \ O
        BY <3>1, <3>3
      <4>2. st2[ws[m].old] = st[ws[m].old] /\ ws[m].old \in H2
        BY <4>1, <1>10
      <4> QED
        BY <3>1, <3>2, <3>3, <4>2 DEF IsReplaced
    <3>4. CASE ws[m].old = NoBlock /\ \A h \in H : NameOf(st[h]) # m
      <4>1. \A h \in H2 : NameOf(st2[h]) # m
        BY <3>1, <3>4, <1>5, <1>10
      <4> QED
        BY <3>1, <3>2, <3>4, <4>1 DEF IsReplaced
    <3> QED
      BY <3>2, <3>3, <3>4 DEF IsReplaced
  <2>9. DistinctNames(st2, H2)
    <3>1. DistinctNames(st, H)
      BY DEF IsLayout
    <3> QED
      BY <3>1, <1>5, <1>10 DEF DistinctNames
  <2>10. \A m, k \in DOMAIN ws2 : ws2[m].head = ws2[k].head => m = k
    BY <1>6
  <2> QED
    BY <1>9, <2>1, <2>2, <2>3, <2>4, <2>5, <2>6, <2>8, <2>9, <2>10 DEF Turned, L
<1> QED
  BY <1>11, LayoutTurned

LEMMA NextWrite ==
  ASSUME StorageAssumption, NEW st, IsStorage(st), NEW prev, IsWork(st, prev),
         NEW b \in Block, NEW x \in Content, NEW work, work = Store(prev, b, x)
  PROVE  /\ IsWork(st, work) /\ work.list = prev.list /\ IsStorage(work.st)
         /\ work.st[b] = x /\ \A c \in Block : c # b => work.st[c] = prev.st[c]
         /\ work.writes # <<>>
         /\ \A y \in ToSet(work.writes) : y \in ToSet(prev.writes) \/ y = <<b, x>>
<1>1. /\ IsWork(st, work) /\ work.writes = prev.writes \o <<<<b, x>>>>
      /\ work.st[b] = x /\ \A c \in Block : c # b => work.st[c] = prev.st[c]
      /\ work.list = prev.list
  BY StoreWork
<1>2. IsStorage(work.st)
  BY <1>1, WorkStorage
<1>3. prev.writes \in Seq(Writes) /\ <<b, x>> \in Writes
  BY DEF IsWork, Writes
<1>4. work.writes # <<>> /\ \A y \in ToSet(work.writes) : y \in ToSet(prev.writes) \/ y = <<b, x>>
  <2> DEFINE p == <<b, x>>
             s == prev.writes
             r == work.writes
  <2>1. p \in Writes /\ s \in Seq(Writes) /\ r = s \o <<p>>
    BY <1>1, <1>3
  <2> HIDE DEF p, s, r
  <2>2. r # <<>> /\ \A y \in ToSet(r) : y \in ToSet(s) \/ y = p
    BY <2>1, LongerNotEmpty
  <2> QED
    BY <2>2 DEF p, s, r
<1> QED
  BY <1>1, <1>2, <1>4

(* A section is appended to the list of free blocks.                       *)
LEMMA SectionFreed ==
  ASSUME StorageAssumption, NEW st0, IsStorage(st0), NEW work, IsWork(st0, work),
         NEW F, IsFreeList(work.st, work.list, F), NEW c, IsSection(work.st, c), IsDistinct(c),
         ToSet(F) \cap ToSet(c) = {}, NEW h, h = c[1]
  PROVE  /\ Freed(st0, work, AddChain(work, h, NoBlock), F \o c, ToSet(F) \cup ToSet(c))
         /\ F \o c \in Seq(Block) /\ IsDistinct(F \o c) /\ ToSet(F \o c) = ToSet(F) \cup ToSet(c)
<1>1. F \in Seq(Block) /\ c \in Seq(Block) /\ IsDistinct(F)
  BY DEF IsFreeList, IsSection
<1>2. IsDistinct(F \o c)
  BY <1>1, DistinctBoth
<1>3. ToSet(F \o c) = ToSet(F) \cup ToSet(c) /\ F \o c \in Seq(Block)
  <2>1. ToSet(F \o c) = ToSet(F) \cup ToSet(c)
    BY <1>1, SetOfBoth
  <2> QED
    BY <2>1, <1>1
<1>4. IsChain(work.st, c, NoBlock)
  BY SectionIsChain
<1>5. Freed(st0, work, AddChain(work, c[1], NoBlock), F \o c, ToSet(F) \cup ToSet(c))
  BY <1>2, <1>4, AddChainAdds
<1> QED
  BY <1>2, <1>3, <1>5

(* CloseAnOpenSectionWriter                                                *)
LEMMA CloseOpenKeeps ==
  ASSUME StorageAssumption, NEW st, NEW l, NEW ws, NEW H, NEW C, IsLayout(st, l, ws, H, C),
         NEW n \in DOMAIN ws, NEW w, w = ws[n],
         NEW data, data = Store(Begin(st, l), w.next, DataBlock(w.seqNb, w.tag, NoBlock)),
         NEW headed, headed = Store(data, w.head, HeadBlock(n, w.version, w.first)),
         NEW work, work = IF w.old = NoBlock THEN headed ELSE AddChain(headed, w.old, NoBlock),
         NEW ws2, ws2 = Without(ws, n)
  PROVE  /\ IsCall(st, work, ws2)
         /\ \A y \in ToSet(work.writes) :
              y[2].type = "head" => y = <<w.head, HeadBlock(n, w.version, w.first)>>
<1> DEFINE a == w.head
           c == C[a]
           F == C[0]
           x == DataBlock(w.seqNb, w.tag, NoBlock)
           h == HeadBlock(n, w.version, w.first)
<1>1. IsStorage(st) /\ IsFreeList(st, l, F)
  BY DEF IsLayout
<1>2. w.next \in Block /\ a \in Block /\ x \in Content /\ h \in Content
  <2>1. NoBlock \in Link
    BY DEF Link
  <2> QED
    BY <2>1, WriterBlock
<1>3. /\ a \in Labels(H, ws) /\ a # 0 /\ 0 \in Labels(H, ws) /\ a \notin H
      /\ IsWritten(st, w, c) /\ IsReplaced(st, H, n, w)
  <2>1. a \in Labels(H, ws) /\ a \in HeadsOf(ws) /\ IsWritten(st, w, c) /\ IsReplaced(st, H, n, w)
        /\ 0 \in Labels(H, ws)
    BY WriterLabels
  <2>2. a # 0 /\ a \notin H
    BY <2>1, LabelBlocks
  <2> QED
    BY <2>1, <2>2
<1>4. /\ c \in Seq(Block) /\ IsDistinct(c)
      /\ \A d, e \in Labels(H, ws) : d # e => ToSet(C[d]) \cap ToSet(C[e]) = {}
  BY <1>3, ChainsApart
<1>5. a \in ToSet(c) /\ w.next \in ToSet(c) /\ a # w.next
  <2>1. a \in ToSet(c) /\ w.next \in ToSet(c)
    BY <1>3, WrittenBlocks
  <2>2. a # w.next
    BY <1>3, <1>4, WrittenEnds
  <2> QED
    BY <2>1, <2>2
<1>6. data = Store(Begin(st, l), w.next, x) /\ headed = Store(data, a, h)
  OBVIOUS
<1> HIDE DEF x, h, c, a, F
<1>7. /\ IsWork(st, data) /\ data.list = l /\ IsStorage(data.st)
      /\ data.st[w.next] = x /\ \A b \in Block : b # w.next => data.st[b] = st[b]
      /\ \A y \in ToSet(data.writes) : y = <<w.next, x>>
  BY <1>1, <1>2, <1>6, FirstWrite
<1>8. /\ IsWork(st, headed) /\ headed.list = l /\ IsStorage(headed.st)
      /\ headed.st[a] = h /\ \A b \in Block : b # a => headed.st[b] = data.st[b]
      /\ headed.writes # <<>>
      /\ \A y \in ToSet(headed.writes) : y \in ToSet(data.writes) \/ y = <<a, h>>
  <2>1. IsWork(st, data)
    BY <1>7
  <2>2. /\ IsWork(st, headed) /\ headed.list = data.list /\ IsStorage(headed.st)
        /\ headed.st[a] = h /\ \A b \in Block : b # a => headed.st[b] = data.st[b]
        /\ headed.writes # <<>>
        /\ \A y \in ToSet(headed.writes) : y \in ToSet(data.writes) \/ y = <<a, h>>
    BY <1>1, <1>2, <1>6, <2>1, NextWrite, SMTT(20)
  <2> QED
    BY <2>2, <1>7
<1> DEFINE st2 == headed.st
<1>9. st2[w.next] = x /\ \A b \in Block : b # w.next /\ b # a => st2[b] = st[b]
  BY <1>2, <1>5, <1>7, <1>8
<1>10. IsSection(st2, c) /\ c[1] = a
  <2>1. st2[w.next] = DataBlock(w.seqNb, w.tag, NoBlock)
    BY <1>9 DEF x
  <2>2. st2[w.head] = HeadBlock(n, w.version, w.first)
    BY <1>8 DEF h, a
  <2>3. \A b \in Block : b # w.next /\ b # w.head => st2[b] = st[b]
    BY <1>9 DEF a
  <2> HIDE DEF st2
  <2>4. IsSection(st2, c) /\ c[1] = w.head
    BY <1>3, <1>4, <2>1, <2>2, <2>3, WrittenCloses
  <2> QED
    BY <2>4 DEF a
<1>11. ASSUME NEW d \in Labels(H, ws), d # a, NEW b \in ToSet(C[d])
       PROVE  st2[b] = st[b] /\ b \in Block /\ b \notin ToSet(c)
  <2>1. C[d] \in Seq(Block)
    BY ChainsApart
  <2>2. b \in Block
    BY <2>1, SetOf
  <2>3. b \notin ToSet(c)
    BY <1>3, <1>4, <1>11 DEF c
  <2> QED
    BY <2>2, <2>3, <1>5, <1>9
<1>12. IsFreeList(st2, headed.list, F)
  <2>1. \A b \in ToSet(F) : st2[b] = st[b]
    BY <1>3, <1>11 DEF F
  <2>2. IsFreeList(st2, l, F)
    BY <1>1, <2>1, FreeListStays
  <2> QED
    BY <2>2, <1>8
<1>13. NameOf(h) = n /\ h.type = "head"
  <2>1. NameOf(h) = n /\ IsReadable(h, "head")
    BY HeadFields DEF h
  <2> QED
    BY <2>1 DEF IsReadable
<1>14. x.type = "data"
  <2>1. IsReadable(x, "data")
    BY DataFields DEF x
  <2> QED
    BY <2>1 DEF IsReadable
<1>15. \A y \in ToSet(headed.writes) : y[2].type = "head" => y = <<a, h>>
  <2>1. \A y \in ToSet(headed.writes) : y = <<w.next, x>> \/ y = <<a, h>>
    BY <1>7, <1>8
  <2>2. <<w.next, x>>[2].type = "data"
    BY <1>14
  <2> QED
    BY <2>1, <2>2
<1> HIDE DEF st2
<1>16. CASE w.old = NoBlock
  <2>1. work = headed
    BY <1>16
  <2>2. Closed(st, ws, H, C, n, {}, F, headed.list, st2)
    <3>1. \A g \in H \ {} : NameOf(st[g]) # n
      <4>1. NoBlock \notin H
        BY Sizes DEF IsLayout
      <4> QED
        BY <1>3, <1>16, <4>1 DEF IsReplaced
    <3>2. F \in Seq(Block) /\ IsDistinct(F)
      BY <1>1 DEF IsFreeList
    <3>3. ToSet(F) = ToSet(C[0]) \cup UNION {ToSet(C[g]) : g \in {}}
      BY DEF F
    <3>4. IsSection(st2, C[ws[n].head]) /\ C[ws[n].head][1] = ws[n].head /\ NameOf(st2[ws[n].head]) = n
      BY <1>8, <1>10, <1>13 DEF c, a, st2
    <3>5. \A b \in Block : (b \notin ToSet(F) /\ b \notin ToSet(C[ws[n].head])) => st2[b] = st[b]
      BY <1>5, <1>9 DEF c, a
    <3>6. IsStorage(st2)
      BY <1>8 DEF st2
    <3> QED
      BY <1>12, <3>1, <3>2, <3>3, <3>4, <3>5, <3>6 DEF Closed
  <2>3. IsMounted(st2, headed.list, ws2)
    BY <2>2, CloseLayout
  <2>4. IsCall(st, headed, ws2)
    BY <1>1, <1>8, <2>3, CallBegins DEF st2
  <2> QED
    BY <2>1, <2>4, <1>15 DEF a, h
<1>17. CASE w.old # NoBlock
  <2> DEFINE o == w.old
             e == C[o]
             rest == F \o e
  <2>1. work = AddChain(headed, o, NoBlock)
    BY <1>17
  <2>2. o \in H /\ NameOf(st[o]) = n
    BY <1>3, <1>17 DEF IsReplaced
  <2>3. o \in Labels(H, ws) /\ o # a /\ o # 0 /\ IsSection(st, e) /\ e[1] = o
    <3>1. o \in Labels(H, ws) /\ IsSection(st, e) /\ e[1] = o
      BY <2>2, WriterLabels
    <3>2. o # 0
      BY <2>2, LabelBlocks
    <3> QED
      BY <3>1, <3>2, <2>2, <1>3
  <2> HIDE DEF o, e, rest
  <2>4. IsSection(st2, e)
    <3>1. \A b \in ToSet(e) : st2[b] = st[b]
      BY <2>3, <1>11 DEF e
    <3> QED
      BY <2>3, <3>1, SectionStays
  <2>5. IsDistinct(e) /\ ToSet(F) \cap ToSet(e) = {}
    <3>1. IsDistinct(C[o])
      BY <2>3, ChainsApart
    <3> QED
      BY <3>1, <2>3, <1>3, <1>4 DEF e, F
  <2>6. /\ Freed(st, headed, work, rest, ToSet(F) \cup ToSet(e))
        /\ rest \in Seq(Block) /\ IsDistinct(rest) /\ ToSet(rest) = ToSet(F) \cup ToSet(e)
    <3>1. IsWork(st, headed)
      BY <1>8
    <3>3. IsStorage(st)
      BY <1>1
    <3>2. IsSection(headed.st, e)
      BY <2>4 DEF st2
    <3>4. IsFreeList(headed.st, headed.list, F)
      BY <1>12 DEF st2
    <3>5. o = e[1]
      BY <2>3
    <3>7. IsDistinct(e) /\ ToSet(F) \cap ToSet(e) = {}
      BY <2>5
    <3>6. Freed(st, headed, AddChain(headed, o, NoBlock), F \o e, ToSet(F) \cup ToSet(e))
      BY <3>1, <3>2, <3>3, <3>4, <3>5, <3>7, SectionFreed
    <3>8. F \o e \in Seq(Block) /\ IsDistinct(F \o e) /\ ToSet(F \o e) = ToSet(F) \cup ToSet(e)
      <4>1. F \in Seq(Block) /\ e \in Seq(Block) /\ IsDistinct(F)
        BY <3>2, <3>4 DEF IsFreeList, IsSection
      <4>2. ToSet(F \o e) = ToSet(F) \cup ToSet(e)
        BY <4>1, SetOfBoth
      <4>3. IsDistinct(F \o e)
        BY <4>1, <3>7, DistinctBoth
      <4> QED
        BY <4>1, <4>2, <4>3
    <3> QED
      BY <2>1, <3>6, <3>8 DEF rest
  <2>7. /\ IsWork(st, work) /\ IsFreeList(work.st, work.list, rest)
        /\ \A b \in Block \ (ToSet(F) \cup ToSet(e)) : work.st[b] = st2[b]
        /\ \A y \in ToSet(work.writes) : y \in ToSet(headed.writes) \/ y[2].type = "free"
    BY <2>6 DEF Freed, st2
  <2> DEFINE st3 == work.st
  <2>8. Closed(st, ws, H, C, n, {o}, rest, work.list, st3)
    <3>1. \A g \in H \ {o} : NameOf(st[g]) # n
      <4>1. DistinctNames(st, H)
        BY DEF IsLayout
      <4> QED
        BY <2>2, <4>1 DEF DistinctNames
    <3>2. ToSet(rest) = ToSet(C[0]) \cup UNION {ToSet(C[g]) : g \in {o}}
      BY <2>6 DEF F, e
    <3>3. \A b \in ToSet(c) : st3[b] = st2[b]
      <4>1. \A b \in ToSet(c) : b \in Block /\ b \notin ToSet(F) /\ b \notin ToSet(e)
        <5>1. \A b \in ToSet(c) : b \in Block
          BY <1>4, SetOf
        <5> QED
          BY <5>1, <1>3, <1>4, <2>3 DEF c, F, e
      <4> QED
        BY <4>1, <2>7
    <3>4. IsSection(st3, c)
      BY <1>10, <3>3, SectionStays
    <3>5. NameOf(st3[a]) = n
      BY <1>5, <1>8, <1>13, <3>3 DEF st2
    <3>6. IsSection(st3, C[ws[n].head]) /\ C[ws[n].head][1] = ws[n].head /\ NameOf(st3[ws[n].head]) = n
      BY <3>4, <3>5, <1>10 DEF c, a
    <3>7. \A b \in Block : (b \notin ToSet(rest) /\ b \notin ToSet(C[ws[n].head])) => st3[b] = st[b]
      BY <1>5, <1>9, <2>6, <2>7 DEF c, a
    <3>8. IsStorage(st3)
      BY <1>1, <2>7, WorkStorage
    <3>9. IsFreeList(st3, work.list, rest) /\ rest \in Seq(Block) /\ IsDistinct(rest)
      BY <2>6, <2>7
    <3> HIDE DEF st3
    <3> QED
      BY <2>2, <3>1, <3>2, <3>6, <3>7, <3>8, <3>9 DEF Closed
  <2> HIDE DEF st3
  <2>9. IsMounted(st3, work.list, ws2)
    BY <2>8, CloseLayout
  <2>11. IsCall(st, work, ws2)
    BY <1>1, <2>7, <2>9, CallBegins DEF st3
  <2>12. \A y \in ToSet(work.writes) : y[2].type = "head" => y = <<a, h>>
    BY <2>7, <1>15
  <2> QED
    BY <2>11, <2>12 DEF a, h
<1> QED
  BY <1>16, <1>17

(* The chain a is freed.                                                   *)
Gone(st, ws, H, C, a, rest, l2, st2) ==
  /\ a \in Labels(H, ws) /\ a # 0
  /\ rest \in Seq(Block) /\ IsDistinct(rest)
  /\ ToSet(rest) = ToSet(C[0]) \cup ToSet(C[a])
  /\ IsStorage(st2) /\ IsFreeList(st2, l2, rest)
  /\ \A b \in Block : b \notin ToSet(rest) => st2[b] = st[b]

LEMMA GoneTurns ==
  ASSUME StorageAssumption, NEW st, NEW l, NEW ws, NEW H, NEW C, IsLayout(st, l, ws, H, C),
         NEW a, NEW rest, NEW l2, NEW st2, Gone(st, ws, H, C, a, rest, l2, st2)
  PROVE  /\ Turns(Labels(H, ws), C, {a}, rest, {}, C)
         /\ \A h \in H : h # a => st2[h] = st[h]
<1> USE DEF Gone
<1>1. Turns(Labels(H, ws), C, {a}, rest, {}, C)
  <2>1. ToSet(rest) \cup UNION {ToSet(C[x]) : x \in {}} = ToSet(C[0]) \cup UNION {ToSet(C[x]) : x \in {a}}
    OBVIOUS
  <2>2. 0 \in Labels(H, ws)
    BY DEF Labels
  <2> QED
    BY <2>1, <2>2 DEF Turns
<1>2. ASSUME NEW h \in H, h # a PROVE st2[h] = st[h]
  <2>1. h \in Labels(H, ws) /\ h # 0 /\ h \in Block /\ h \in ToSet(C[h]) /\ 0 \in Labels(H, ws)
    BY LabelBlocks DEF Labels
  <2>2. \A d, e \in Labels(H, ws) : d # e => ToSet(C[d]) \cap ToSet(C[e]) = {}
    BY ChainsApart
  <2>3. h \notin ToSet(C[0]) /\ h \notin ToSet(C[a])
    BY <1>2, <2>1, <2>2
  <2> QED
    BY <2>1, <2>3
<1> QED
  BY <1>1, <1>2

LEMMA DeleteLayout ==
  ASSUME StorageAssumption, NEW st, NEW l, NEW ws, NEW H, NEW C, IsLayout(st, l, ws, H, C),
         NEW h \in H, NameOf(st[h]) \notin DOMAIN ws,
         NEW rest, NEW l2, NEW st2, Gone(st, ws, H, C, h, rest, l2, st2)
  PROVE  IsMounted(st2, l2, ws)
<1> DEFINE H2 == H \ {h}
<1>1. Turns(Labels(H, ws), C, {h}, rest, {}, C) /\ \A g \in H2 : st2[g] = st[g]
  BY GoneTurns
<1>2. Labels(H2, ws) = (Labels(H, ws) \ {h}) \cup {}
  <2>1. h # 0 /\ h \notin HeadsOf(ws)
    BY LabelBlocks
  <2> QED
    BY <2>1 DEF Labels
<1>3. IsStorage(st2) /\ H2 \subseteq Block /\ IsFreeList(st2, l2, rest)
  BY DEF Gone, IsLayout
<1>4. \A b \in Block : (b \notin ToSet(rest) /\ \A x \in {} : b \notin ToSet(C[x])) => st2[b] = st[b]
  BY DEF Gone
<1>5. ASSUME NEW n \in DOMAIN ws PROVE IsReplaced(st2, H2, n, ws[n])
  <2>1. IsReplaced(st, H, n, ws[n])
    BY WriterLabels
  <2>2. CASE ws[n].old \in H /\ NameOf(st[ws[n].old]) = n /\ VersionOf(st[ws[n].old]) # ws[n].version
    <3>1. ws[n].old \in H2
      BY <2>2
    <3> QED
      BY <1>1, <2>1, <2>2, <3>1 DEF IsReplaced
  <2>3. CASE ws[n].old = NoBlock /\ \A g \in H : NameOf(st[g]) # n
    <3>1. \A g \in H2 : NameOf(st2[g]) # n
      BY <1>1, <2>3
    <3> QED
      BY <2>1, <2>3, <3>1 DEF IsReplaced
  <2> QED
    BY <2>1, <2>2, <2>3 DEF IsReplaced
<1>6. DistinctNames(st2, H2)
  <2>1. DistinctNames(st, H)
    BY DEF IsLayout
  <2> QED
    BY <1>1, <2>1 DEF DistinctNames
<1>7. \A m, n \in DOMAIN ws : ws[m].head = ws[n].head => m = n
  BY WriterLabels
<1>8. Turned(st, ws, H, C, {h}, st2, l2, ws, H2, rest, {}, C)
  BY <1>1, <1>2, <1>3, <1>4, <1>5, <1>6, <1>7 DEF Turned
<1> QED
  BY <1>8, LayoutTurned

LEMMA CrashedLayout ==
  ASSUME StorageAssumption, NEW st, NEW l, NEW ws, NEW H, NEW C, IsLayout(st, l, ws, H, C),
         NEW n \in DOMAIN ws,
         NEW rest, NEW l2, NEW st2, Gone(st, ws, H, C, ws[n].head, rest, l2, st2),
         NEW ws2, ws2 = Without(ws, n)
  PROVE  IsMounted(st2, l2, ws2)
<1> DEFINE a == ws[n].head
<1>0. a \in HeadsOf(ws) /\ a \notin H
  <2>1. a \in HeadsOf(ws)
    BY DEF HeadsOf
  <2> QED
    BY <2>1, LabelBlocks
<1>1. Turns(Labels(H, ws), C, {a}, rest, {}, C) /\ \A g \in H : st2[g] = st[g]
  BY <1>0, GoneTurns
<1>9. /\ HeadsOf(ws2) = HeadsOf(ws) \ {a}
      /\ \A m \in DOMAIN ws2 : m # n /\ m \in DOMAIN ws /\ ws2[m] = ws[m] /\ ws[m].head # a
      /\ \A m, k \in DOMAIN ws2 : ws2[m].head = ws2[k].head => m = k
  <2>1. \A m, k \in DOMAIN ws : ws[m].head = ws[k].head => m = k
    BY WriterLabels
  <2> QED
    BY <2>1, WriterGone
<1>2. Labels(H, ws2) = (Labels(H, ws) \ {a}) \cup {}
  <2>1. a # 0
    BY DEF Gone
  <2> QED
    BY <2>1, <1>0, <1>9 DEF Labels
<1>3. IsStorage(st2) /\ H \subseteq Block /\ IsFreeList(st2, l2, rest)
  BY DEF Gone, IsLayout
<1>4. \A b \in Block : (b \notin ToSet(rest) /\ \A x \in {} : b \notin ToSet(C[x])) => st2[b] = st[b]
  BY DEF Gone
<1>5. ASSUME NEW m \in DOMAIN ws2 PROVE IsReplaced(st2, H, m, ws2[m])
  <2>1. IsReplaced(st, H, m, ws2[m])
    BY <1>9, WriterLabels
  <2> QED
    BY <1>1, <2>1, ReplacedStays
<1>6. DistinctNames(st2, H)
  <2>1. DistinctNames(st, H)
    BY DEF IsLayout
  <2> QED
    BY <1>1, <2>1 DEF DistinctNames
<1>7. \A m \in DOMAIN ws2 :
        (ws2[m].head \in {} /\ IsWritten(st2, ws2[m], C[ws2[m].head]))
        \/ (ws2[m].head \notin {} /\ m \in DOMAIN ws /\ ws2[m] = ws[m])
  BY <1>9
<1>8. Turned(st, ws, H, C, {a}, st2, l2, ws2, H, rest, {}, C)
  <2>1. \A m, k \in DOMAIN ws2 : ws2[m].head = ws2[k].head => m = k
    BY <1>9
  <2> HIDE DEF a
  <2> QED
    BY <1>1, <1>2, <1>3, <1>4, <1>5, <1>6, <1>7, <2>1 DEF Turned
<1> QED
  BY <1>8, LayoutTurned

(* Delete                                                                  *)
LEMMA DeleteKeeps ==
  ASSUME StorageAssumption, NEW st, NEW l, NEW ws, NEW H, NEW C, IsLayout(st, l, ws, H, C),
         NEW h \in H, NameOf(st[h]) \notin DOMAIN ws,
         NEW work, work = AddChain(Begin(st, l), h, NoBlock)
  PROVE  /\ IsCall(st, work, ws)
         /\ \A y \in ToSet(work.writes) : y[2].type # "head"
<1> DEFINE c == C[h]
           F == C[0]
           begin == Begin(st, l)
           rest == F \o c
<1>1. IsStorage(st) /\ IsFreeList(st, l, F)
  BY DEF IsLayout
<1>2. h \in Labels(H, ws) /\ 0 \in Labels(H, ws) /\ h # 0 /\ IsSection(st, c) /\ c[1] = h
  <2>1. h # 0
    BY LabelBlocks
  <2> QED
    BY <2>1, WriterLabels
<1>3. IsDistinct(c) /\ ToSet(F) \cap ToSet(c) = {}
  BY <1>2, ChainsApart
<1>4. begin.st = st /\ begin.list = l /\ IsWork(st, begin) /\ begin.writes = <<>>
  <2>1. begin.st = st
    BY DEF Begin
  <2> QED
    BY <1>1, <2>1, BeginWork
<1>5. work = AddChain(begin, h, NoBlock)
  OBVIOUS
<1> HIDE DEF begin, c, F
<1>6. /\ Freed(st, begin, work, rest, ToSet(F) \cup ToSet(c))
      /\ rest \in Seq(Block) /\ IsDistinct(rest) /\ ToSet(rest) = ToSet(F) \cup ToSet(c)
  <2>1. IsWork(st, begin)
    BY <1>4
  <2>2. IsFreeList(begin.st, begin.list, F)
    BY <1>1, <1>4
  <2>3. IsSection(begin.st, c)
    BY <1>2, <1>4
  <2>4. IsStorage(st)
    BY <1>1
  <2>5. h = c[1]
    BY <1>2
  <2>6. IsDistinct(c) /\ ToSet(F) \cap ToSet(c) = {}
    BY <1>3
  <2>7. Freed(st, begin, AddChain(begin, h, NoBlock), F \o c, ToSet(F) \cup ToSet(c))
    BY <2>1, <2>2, <2>3, <2>4, <2>5, <2>6, SectionFreed
  <2>8. F \o c \in Seq(Block) /\ IsDistinct(F \o c) /\ ToSet(F \o c) = ToSet(F) \cup ToSet(c)
    <3>1. F \in Seq(Block) /\ c \in Seq(Block) /\ IsDistinct(F)
      BY <2>2, <2>3 DEF IsFreeList, IsSection
    <3>2. ToSet(F \o c) = ToSet(F) \cup ToSet(c)
      BY <3>1, SetOfBoth
    <3>3. IsDistinct(F \o c)
      BY <3>1, <2>6, DistinctBoth
    <3> QED
      BY <3>1, <3>2, <3>3
  <2> QED
    BY <1>5, <2>7, <2>8
<1> HIDE DEF rest
<1>7. /\ IsWork(st, work) /\ IsFreeList(work.st, work.list, rest)
      /\ \A b \in Block \ (ToSet(F) \cup ToSet(c)) : work.st[b] = st[b]
      /\ \A y \in ToSet(work.writes) : y[2].type = "free"
  <2>1. ToSet(<<>>) = {}
    BY DEF ToSet
  <2> QED
    BY <1>4, <1>6, <2>1 DEF Freed
<1>8. IsStorage(work.st)
  BY <1>1, <1>7, WorkStorage
<1>9. Gone(st, ws, H, C, h, rest, work.list, work.st)
  BY <1>2, <1>6, <1>7, <1>8 DEF Gone, F, c
<1>10. IsMounted(work.st, work.list, ws)
  BY <1>9, DeleteLayout
<1>11. IsCall(st, work, ws)
  BY <1>1, <1>7, <1>10, CallBegins
<1>12. \A y \in ToSet(work.writes) : y[2].type # "head"
  BY <1>7
<1> QED
  BY <1>11, <1>12

LEMMA Shifted ==
  ASSUME NEW S, NEW c \in Seq(S), NEW k \in Nat, k = Len(c), k >= 2, NEW d \in Seq(S), Len(d) = k - 1, \A i \in 1..Len(d) : d[i] = c[i + 1]
  PROVE  /\ ToSet(c) = {c[1]} \cup ToSet(d)
         /\ IsDistinct(c) => IsDistinct(d) /\ c[1] \notin ToSet(d)
<1>1. d \in Seq(S) /\ Len(d) = k - 1 /\ Len(d) \in Nat /\ Len(d) >= 1
      /\ \A i \in 1..Len(d) : d[i] = c[i + 1]
  OBVIOUS
<1>2. \A i \in 1..Len(d) : i + 1 \in 1..k
  BY <1>1
<1>3. 1 \in 1..Len(c)
  OBVIOUS
<1>4. ASSUME NEW x \in ToSet(c) PROVE x \in {c[1]} \cup ToSet(d)
  <2>1. PICK i \in 1..Len(c) : c[i] = x
    BY SetOf
  <2>2. CASE i = 1
    BY <2>1, <2>2
  <2>3. CASE i # 1
    <3>1. i - 1 \in 1..Len(d) /\ (i - 1) + 1 = i
      BY <1>1, <2>3
    <3>2. d[i - 1] = x
      BY <1>1, <2>1, <3>1
    <3> QED
      BY <1>1, <3>1, <3>2, SetOf
  <2> QED
    BY <2>2, <2>3
<1>5. ASSUME NEW x \in ToSet(d) PROVE x \in ToSet(c)
  <2>1. PICK i \in 1..Len(d) : d[i] = x
    BY <1>1, SetOf
  <2>2. i + 1 \in 1..Len(c) /\ c[i + 1] = x
    BY <1>1, <1>2, <2>1
  <2> QED
    BY <2>2, SetOf
<1>6. c[1] \in ToSet(c)
  BY <1>3, SetOf
<1>7. ASSUME IsDistinct(c) PROVE IsDistinct(d) /\ c[1] \notin ToSet(d)
  <2>1. ASSUME NEW i \in 1..Len(d), NEW j \in 1..Len(d), d[i] = d[j] PROVE i = j
    <3>1. i + 1 \in 1..Len(c) /\ j + 1 \in 1..Len(c) /\ c[i + 1] = c[j + 1]
      BY <1>1, <1>2, <2>1
    <3>2. i + 1 = j + 1
      BY <1>7, <3>1 DEF IsDistinct
    <3> QED
      BY <3>2
  <2>2. ASSUME c[1] \in ToSet(d) PROVE FALSE
    <3>1. PICK i \in 1..Len(d) : d[i] = c[1]
      BY <1>1, <2>2, SetOf
    <3>2. i + 1 \in 1..Len(c) /\ c[i + 1] = c[1] /\ i + 1 # 1
      BY <1>1, <1>2, <3>1
    <3> QED
      BY <1>3, <1>7, <3>2 DEF IsDistinct
  <2> QED
    BY <2>1, <2>2 DEF IsDistinct
<1> QED
  BY <1>4, <1>5, <1>6, <1>7

LEMMA TailFacts ==
  ASSUME NEW S, NEW c \in Seq(S), NEW k \in Nat, k = Len(c), k >= 2
  PROVE  LET d == Tail(c)
         IN  /\ d \in Seq(S) /\ Len(d) = k - 1 /\ Len(d) \in Nat /\ Len(d) >= 1 /\ d # <<>>
             /\ \A i \in 1..Len(d) : d[i] = c[i + 1] /\ i + 1 \in 1..k
             /\ ToSet(c) = {c[1]} \cup ToSet(d)
             /\ IsDistinct(c) => IsDistinct(d) /\ c[1] \notin ToSet(d)
<1> DEFINE d == Tail(c)
<1>0. d \in Seq(S) /\ Len(d) = k - 1
  OBVIOUS
<1>0a. \A i \in 1..Len(d) : d[i] = c[i + 1]
  OBVIOUS
<1> HIDE DEF d
<1>1. d \in Seq(S) /\ Len(d) = k - 1 /\ Len(d) \in Nat /\ Len(d) >= 1
      /\ \A i \in 1..Len(d) : d[i] = c[i + 1]
  BY <1>0, <1>0a
<1>2. d # <<>>
  BY <1>1
<1>3. \A i \in 1..Len(d) : i + 1 \in 1..k
  BY <1>1
<1>4. /\ ToSet(c) = {c[1]} \cup ToSet(d)
      /\ IsDistinct(c) => IsDistinct(d) /\ c[1] \notin ToSet(d)
  BY <1>1, Shifted
<1> QED
  BY <1>1, <1>2, <1>3, <1>4 DEF d

(* The data blocks of a writer, the last of which is not written yet.      *)
LEMMA WrittenTail ==
  ASSUME StorageAssumption, NEW st, NEW w, NEW c, IsWritten(st, w, c), IsDistinct(c),
         NEW d \in Seq(Block), Len(d) = Len(c) - 1, d # <<>>,
         \A i \in 1..Len(d) : d[i] = c[i + 1]
  PROVE  /\ IsChain(st, d, w.next) /\ d[1] = w.first
         /\ d \in Seq(Block) /\ IsDistinct(d)
         /\ ToSet(c) = {w.head} \cup ToSet(d) /\ w.head \notin ToSet(d)
<1> DEFINE k == Len(c)
<1>1. c \in Seq(Block) /\ k \in Nat /\ k >= 2
  BY WrittenBlocks
<1>2. /\ w.head = c[1] /\ w.first = c[2] /\ w.next = c[k]
      /\ st[c[k]].ok /\ st[c[k]].type = "free"
      /\ \A i \in 2..(k - 1) : /\ st[c[i]].ok /\ st[c[i]].type = "data" /\ SeqNbOf(st[c[i]]) = i - 1
                               /\ st[c[i]].next = c[i + 1]
  BY DEF IsWritten, IsReadable
<1>9. k = Len(c)
  OBVIOUS
<1> HIDE DEF k
<1>3. /\ d \in Seq(Block) /\ Len(d) = k - 1 /\ Len(d) \in Nat /\ Len(d) >= 1
      /\ \A i \in 1..Len(d) : d[i] = c[i + 1] /\ i + 1 \in 1..k
      /\ ToSet(c) = {c[1]} \cup ToSet(d)
      /\ IsDistinct(d) /\ c[1] \notin ToSet(d)
  <2>1. Len(d) = k - 1 /\ Len(d) \in Nat /\ Len(d) >= 1
    BY <1>1, <1>9
  <2>2. \A i \in 1..Len(d) : i + 1 \in 1..k
    BY <1>1, <2>1
  <2>3. ToSet(c) = {c[1]} \cup ToSet(d) /\ IsDistinct(d) /\ c[1] \notin ToSet(d)
    BY <1>1, <1>9, <2>1, Shifted
  <2> QED
    BY <2>1, <2>2, <2>3
<1> DEFINE m == Len(d)
<1>4. m \in Nat /\ m >= 1 /\ m + 1 = k /\ m = k - 1
  BY <1>1, <1>3
<1> HIDE DEF m
<1>5. d[1] = w.first /\ d[m] = w.next
  <2>1. 1 \in 1..m /\ m \in 1..m /\ 1 + 1 = 2
    BY <1>4
  <2> QED
    BY <2>1, <1>2, <1>3, <1>4 DEF m
<1>6. ASSUME NEW i \in 1..(m - 1)
      PROVE  /\ st[d[i]].ok /\ st[d[i]].type = "data" /\ SeqNbOf(st[d[i]]) = i
             /\ st[d[i]].next = d[i + 1] /\ d[i] # w.next
  <2>1. i \in 1..m /\ i + 1 \in 1..m /\ i + 1 \in 2..(k - 1) /\ (i + 1) - 1 = i /\ i # m /\ m \in 1..m
    BY <1>4
  <2>2. d[i] = c[i + 1] /\ d[i + 1] = c[(i + 1) + 1]
    BY <2>1, <1>3 DEF m
  <2>3. d[i] # d[m]
    BY <2>1, <1>3 DEF IsDistinct, m
  <2> QED
    BY <2>1, <2>2, <2>3, <1>2, <1>5
<1>7. IsLinked(st, d)
  BY <1>6 DEF IsLinked, m
<1>8. ASSUME NEW i \in 1..(m - 1) PROVE Fitting(st, d[1], w.next, i, d[i], d[i + 1])
  <2>1. d[i] # w.next
    BY <1>6
  <2>2. CASE i + 1 = m
    BY <2>1, <2>2, <1>2, <1>5 DEF Fitting
  <2>3. CASE i + 1 # m
    <3>1. i + 1 \in 1..(m - 1) /\ 1 \in 1..(m - 1) /\ i \in Nat
      BY <2>3, <1>4
    <3>2. st[d[i + 1]].ok /\ st[d[i + 1]].type = "data" /\ SeqNbOf(st[d[i + 1]]) = i + 1
      BY <3>1, <1>6
    <3>3. st[d[1]].type = "data" /\ SeqNbOf(st[d[1]]) = 1
      BY <3>1, <1>6
    <3> QED
      BY <2>1, <3>2, <3>3 DEF Fitting
  <2> QED
    BY <2>2, <2>3
<1>10. st[d[1]].ok /\ (st[d[1]].type = "free" => d[1] = w.next)
  <2>1. CASE m = 1
    BY <2>1, <1>2, <1>5
  <2>2. CASE m # 1
    <3>1. 1 \in 1..(m - 1)
      BY <2>2, <1>4
    <3>2. st[d[1]].ok /\ st[d[1]].type = "data"
      BY <3>1, <1>6
    <3> QED
      BY <3>2
  <2> QED
    BY <2>1, <2>2
<1>12. IsChain(st, d, w.next)
  BY <1>3, <1>5, <1>7, <1>8, <1>10 DEF IsChain, m
<1> QED
  BY <1>2, <1>3, <1>5, <1>12

LEMMA WrittenIsChain ==
  ASSUME StorageAssumption, NEW st, NEW w, NEW c, IsWritten(st, w, c), IsDistinct(c)
  PROVE  LET d == Tail(c)
         IN  /\ IsChain(st, d, w.next) /\ d[1] = w.first
             /\ d \in Seq(Block) /\ IsDistinct(d)
             /\ ToSet(c) = {w.head} \cup ToSet(d) /\ w.head \notin ToSet(d)
<1> DEFINE d == Tail(c)
           k == Len(c)
<1>1. c \in Seq(Block) /\ k \in Nat /\ k >= 2
  BY WrittenBlocks
<1>2. k = Len(c)
  OBVIOUS
<1> HIDE DEF k
<1>3. d \in Seq(Block) /\ Len(d) = k - 1 /\ d # <<>> /\ \A i \in 1..Len(d) : d[i] = c[i + 1]
  BY <1>1, <1>2, TailFacts
<1> HIDE DEF d
<1>4. Len(d) = Len(c) - 1
  BY <1>2, <1>3
<1>5. /\ IsChain(st, d, w.next) /\ d[1] = w.first
      /\ d \in Seq(Block) /\ IsDistinct(d)
      /\ ToSet(c) = {w.head} \cup ToSet(d) /\ w.head \notin ToSet(d)
  <2>1. d \in Seq(Block) /\ d # <<>>
    BY <1>3
  <2>2. \A i \in 1..Len(d) : d[i] = c[i + 1]
    BY <1>3
  <2> QED
    BY <2>1, <2>2, <1>4, WrittenTail
<1> QED
  BY <1>5 DEF d

LEMMA OneBlock ==
  ASSUME NEW S, NEW x \in S
  PROVE  <<x>> \in Seq(S) /\ IsDistinct(<<x>>) /\ ToSet(<<x>>) = {x} /\ Len(<<x>>) = 1
BY DEF ToSet, IsDistinct

LEMMA JoinedApart ==
  ASSUME NEW S, NEW F \in Seq(S), IsDistinct(F), NEW d \in Seq(S), IsDistinct(d),
         ToSet(F) \cap ToSet(d) = {}
  PROVE  F \o d \in Seq(S) /\ IsDistinct(F \o d) /\ ToSet(F \o d) = ToSet(F) \cup ToSet(d)
<1>1. ToSet(F \o d) = ToSet(F) \cup ToSet(d)
  BY SetOfBoth
<1>2. IsDistinct(F \o d)
  BY DistinctBoth
<1>3. F \o d \in Seq(S)
  OBVIOUS
<1> QED
  BY <1>1, <1>2, <1>3

(* The data blocks of a writer are freed, and then the block for its head. *)
GiveBack(work, w) == AddBlocks(AddChain(work, w.first, w.next), <<w.head>>)
FreedAll(st0, work, r, rest, B) ==
  /\ Freed(st0, work, r, rest, B)
  /\ rest \in Seq(Block) /\ IsDistinct(rest) /\ ToSet(rest) = B
GivenBack(F, w, c) == (F \o Tail(c)) \o <<w.head>>
LEMMA WriterFreed ==
  ASSUME StorageAssumption, NEW st0, IsStorage(st0), NEW work, IsWork(st0, work),
         NEW F, IsFreeList(work.st, work.list, F),
         NEW w, NEW c, IsWritten(work.st, w, c), IsDistinct(c), ToSet(F) \cap ToSet(c) = {},
         NEW rest, rest = GivenBack(F, w, c)
  PROVE  FreedAll(st0, work, GiveBack(work, w), rest, ToSet(F) \cup ToSet(c))
<1> DEFINE d == Tail(c)
           a == w.head
           G == F \o d
           r1 == AddChain(work, w.first, w.next)
           r2 == AddBlocks(r1, <<a>>)
<1>1. /\ IsChain(work.st, d, w.next) /\ d[1] = w.first
      /\ d \in Seq(Block) /\ IsDistinct(d)
      /\ ToSet(c) = {a} \cup ToSet(d) /\ a \notin ToSet(d)
  BY WrittenIsChain
<1>2. F \in Seq(Block) /\ IsDistinct(F)
  BY DEF IsFreeList
<1>3. a \in Block
  <2>1. a \in ToSet(c) /\ \A b \in ToSet(c) : b \in Block
    BY WrittenBlocks
  <2> QED
    BY <2>1
<1>12. rest = G \o <<a>>
  BY DEF GivenBack
<1> HIDE DEF d, a
<1>4. ToSet(F) \cap ToSet(d) = {} /\ a \notin ToSet(F)
  BY <1>1
<1>5. G \in Seq(Block) /\ IsDistinct(G) /\ ToSet(G) = ToSet(F) \cup ToSet(d)
  BY <1>1, <1>2, <1>4, JoinedApart
<1>6. Freed(st0, work, r1, G, ToSet(F) \cup ToSet(d))
  <2>1. IsChain(work.st, d, w.next)
    BY <1>1
  <2>2. IsDistinct(F \o d)
    BY <1>5
  <2>3. Freed(st0, work, AddChain(work, d[1], w.next), F \o d, ToSet(F) \cup ToSet(d))
    BY <2>1, <2>2, AddChainAdds
  <2> QED
    BY <2>3, <1>1
<1> HIDE DEF G, r1
<1>7. IsWork(st0, r1) /\ IsFreeList(r1.st, r1.list, G)
  BY <1>6 DEF Freed
<1>8. <<a>> \in Seq(Block) /\ IsDistinct(<<a>>) /\ ToSet(<<a>>) = {a}
  BY <1>3, OneBlock
<1>9. G \o <<a>> \in Seq(Block) /\ IsDistinct(G \o <<a>>) /\ ToSet(G \o <<a>>) = ToSet(G) \cup {a}
  <2>1. ToSet(G) \cap ToSet(<<a>>) = {}
    BY <1>1, <1>4, <1>5, <1>8
  <2>2. G \o <<a>> \in Seq(Block) /\ IsDistinct(G \o <<a>>)
        /\ ToSet(G \o <<a>>) = ToSet(G) \cup ToSet(<<a>>)
    <3> DEFINE e == <<a>>
    <3>1. e \in Seq(Block) /\ IsDistinct(e) /\ ToSet(G) \cap ToSet(e) = {}
      BY <1>8, <2>1
    <3> HIDE DEF e
    <3>2. G \o e \in Seq(Block) /\ IsDistinct(G \o e) /\ ToSet(G \o e) = ToSet(G) \cup ToSet(e)
      BY <1>5, <3>1, JoinedApart
    <3> QED
      BY <3>2 DEF e
  <2> QED
    BY <2>2, <1>8
<1>10. Freed(st0, r1, r2, G \o <<a>>, ToSet(G) \cup ToSet(<<a>>))
  <2>1. IsDistinct(G \o <<a>>) /\ <<a>> \in Seq(Block)
    BY <1>8, <1>9
  <2> QED
    BY <1>7, <2>1, AddBlocksAdds
<1>11. Freed(st0, work, r2, G \o <<a>>, ToSet(F) \cup ToSet(c))
  <2>1. ToSet(F) \cup ToSet(d) \subseteq ToSet(F) \cup ToSet(c)
    BY <1>1
  <2>2. Freed(st0, work, r1, G, ToSet(F) \cup ToSet(c))
    BY <1>6, <2>1 DEF Freed
  <2>3. ToSet(G) \cup ToSet(<<a>>) \subseteq ToSet(F) \cup ToSet(c)
    BY <1>1, <1>5, <1>8
  <2> QED
    BY <1>10, <2>2, <2>3, FreedTwice
<1>13. rest \in Seq(Block) /\ IsDistinct(rest) /\ ToSet(rest) = ToSet(F) \cup ToSet(c)
  BY <1>1, <1>5, <1>9, <1>12
<1>14. Freed(st0, work, r2, rest, ToSet(F) \cup ToSet(c))
  BY <1>11, <1>12
<1> QED
  BY <1>13, <1>14 DEF a, r1, GiveBack, FreedAll

(* CloseCrashedSectionWriter                                               *)
LEMMA CloseCrashedKeeps ==
  ASSUME StorageAssumption, NEW st, NEW l, NEW ws, NEW H, NEW C, IsLayout(st, l, ws, H, C),
         NEW n \in DOMAIN ws, NEW w, w = ws[n],
         NEW work, work = AddBlocks(AddChain(Begin(st, l), w.first, w.next), <<w.head>>),
         NEW ws2, ws2 = Without(ws, n)
  PROVE  /\ IsCall(st, work, ws2)
         /\ \A y \in ToSet(work.writes) : y[2].type # "head"
<1> DEFINE c == C[w.head]
           F == C[0]
           begin == Begin(st, l)
           rest == GivenBack(F, w, c)
<1>1. IsStorage(st) /\ IsFreeList(st, l, F)
  BY DEF IsLayout
<1>2. w.head \in Labels(H, ws) /\ 0 \in Labels(H, ws) /\ w.head # 0 /\ IsWritten(st, w, c)
  <2>1. w.head # 0
    BY LabelBlocks DEF HeadsOf
  <2> QED
    BY <2>1, WriterLabels
<1>3. IsDistinct(c) /\ ToSet(F) \cap ToSet(c) = {}
  BY <1>2, ChainsApart
<1>4. begin.st = st /\ begin.list = l /\ IsWork(st, begin) /\ begin.writes = <<>>
  <2>1. begin.st = st
    BY DEF Begin
  <2> QED
    BY <1>1, <2>1, BeginWork
<1>5. work = AddBlocks(AddChain(begin, w.first, w.next), <<w.head>>) /\ rest = GivenBack(F, w, c)
  OBVIOUS
<1> HIDE DEF begin, c, F, rest
<1>6. /\ Freed(st, begin, work, rest, ToSet(F) \cup ToSet(c))
      /\ rest \in Seq(Block) /\ IsDistinct(rest) /\ ToSet(rest) = ToSet(F) \cup ToSet(c)
  <2>1. IsWork(st, begin)
    BY <1>4
  <2>7. IsStorage(st)
    BY <1>1
  <2>2. IsFreeList(begin.st, begin.list, F)
    BY <1>1, <1>4
  <2>3. IsWritten(begin.st, w, c)
    BY <1>2, <1>4
  <2>4. IsDistinct(c) /\ ToSet(F) \cap ToSet(c) = {}
    BY <1>3
  <2>5. rest = GivenBack(F, w, c)
    BY <1>5
  <2>6. FreedAll(st, begin, GiveBack(begin, w), rest, ToSet(F) \cup ToSet(c))
    BY <2>1, <2>2, <2>3, <2>4, <2>5, <2>7, WriterFreed
  <2> QED
    BY <1>5, <2>6 DEF GiveBack, FreedAll
<1>7. /\ IsWork(st, work) /\ IsFreeList(work.st, work.list, rest)
      /\ \A b \in Block \ (ToSet(F) \cup ToSet(c)) : work.st[b] = st[b]
      /\ \A y \in ToSet(work.writes) : y[2].type = "free"
  <2>1. ToSet(<<>>) = {}
    BY DEF ToSet
  <2> QED
    BY <1>4, <1>6, <2>1 DEF Freed
<1>8. IsStorage(work.st)
  BY <1>1, <1>7, WorkStorage
<1>9. Gone(st, ws, H, C, ws[n].head, rest, work.list, work.st)
  BY <1>2, <1>6, <1>7, <1>8 DEF Gone, F, c
<1>10. IsMounted(work.st, work.list, ws2)
  BY <1>9, CrashedLayout
<1>11. IsCall(st, work, ws2)
  BY <1>1, <1>7, <1>10, CallBegins
<1>12. \A y \in ToSet(work.writes) : y[2].type # "head"
  BY <1>7
<1> QED
  BY <1>11, <1>12

(* The head h is replaced by one in block t with the name to.              *)
Renamed(st, ws, H, C, h, t, to, rest, l2, st2) ==
  /\ h \in H /\ NameOf(st[h]) \notin DOMAIN ws
  /\ to \notin DOMAIN ws /\ \A g \in H : NameOf(st[g]) # to
  /\ t \in ToSet(C[0])
  /\ rest \in Seq(Block) /\ IsDistinct(rest) /\ ToSet(rest) = (ToSet(C[0]) \ {t}) \cup {h}
  /\ IsStorage(st2) /\ IsFreeList(st2, l2, rest)
  /\ IsReadable(st2[t], "head") /\ NameOf(st2[t]) = to /\ st2[t].next = st[h].next
  /\ \A b \in Block : (b \notin ToSet(rest) /\ b # t) => st2[b] = st[b]

NewHead(c, t) == [i \in 1..Len(c) |-> IF i = 1 THEN t ELSE c[i]]

LEMMA NewHeadShape ==
  ASSUME NEW S, NEW c \in Seq(S), Len(c) \in Nat, Len(c) >= 2, IsDistinct(c),
         NEW t \in S, t \notin ToSet(c)
  PROVE  LET d == NewHead(c, t)
         IN  /\ d \in Seq(S) /\ Len(d) = Len(c) /\ IsDistinct(d)
             /\ d[1] = t /\ \A i \in 2..Len(c) : d[i] = c[i]
             /\ ToSet(d) = (ToSet(c) \ {c[1]}) \cup {t}
<1> DEFINE d == NewHead(c, t)
           k == Len(c)
<1>1. c \in [1..k -> S] /\ k \in Nat /\ k >= 2 /\ 1 \in 1..k
  OBVIOUS
<1>2. d \in [1..k -> S] /\ d[1] = t /\ \A i \in 1..k : i # 1 => d[i] = c[i]
  BY <1>1 DEF NewHead
<1>3. d \in Seq(S) /\ Len(d) = k
  BY <1>1, <1>2
<1>4. k = Len(c)
  OBVIOUS
<1> HIDE DEF d, k
<1>5. \A i \in 1..k : c[i] # t
  BY <1>4, SetOf
<1>6. IsDistinct(d)
  <2>1. ASSUME NEW i \in 1..k, NEW j \in 1..k, d[i] = d[j] PROVE i = j
    <3>1. CASE i = 1 /\ j = 1
      BY <3>1
    <3>2. CASE i = 1 /\ j # 1
      BY <3>2, <2>1, <1>2, <1>5
    <3>3. CASE i # 1 /\ j = 1
      BY <3>3, <2>1, <1>2, <1>5
    <3>4. CASE i # 1 /\ j # 1
      BY <3>4, <2>1, <1>2, <1>4 DEF IsDistinct
    <3> QED
      BY <3>1, <3>2, <3>3, <3>4
  <2> QED
    BY <2>1, <1>3 DEF IsDistinct
<1>7. ASSUME NEW x \in ToSet(d) PROVE x \in (ToSet(c) \ {c[1]}) \cup {t}
  <2>1. PICK i \in 1..k : d[i] = x
    BY <1>3, SetOf
  <2>2. CASE i = 1
    BY <1>2, <2>1, <2>2
  <2>3. CASE i # 1
    <3>1. x = c[i] /\ c[i] \in ToSet(c)
      BY <1>2, <1>4, <2>1, <2>3, SetOf
    <3>2. c[i] # c[1]
      BY <1>1, <1>4, <2>3 DEF IsDistinct
    <3> QED
      BY <3>1, <3>2
  <2> QED
    BY <2>2, <2>3
<1>8. ASSUME NEW x \in (ToSet(c) \ {c[1]}) \cup {t} PROVE x \in ToSet(d)
  <2>1. \A i \in 1..k : d[i] \in ToSet(d)
    BY <1>3, SetOf
  <2>2. CASE x = t
    BY <2>1, <2>2, <1>1, <1>2
  <2>3. CASE x # t
    <3>1. PICK i \in 1..k : c[i] = x
      BY <2>3, <1>4, SetOf
    <3>2. i # 1
      BY <2>3, <3>1
    <3> QED
      BY <2>1, <3>1, <3>2, <1>2
  <2> QED
    BY <2>2, <2>3
<1>9. \A i \in 2..Len(c) : d[i] = c[i]
  BY <1>1, <1>2, <1>4
<1>10. ToSet(d) = (ToSet(c) \ {c[1]}) \cup {t}
  BY <1>7, <1>8
<1> QED
  BY <1>2, <1>3, <1>4, <1>6, <1>9, <1>10 DEF d

LEMMA NewHeadSection ==
  ASSUME NEW st, NEW c, IsSection(st, c), IsDistinct(c), NEW t \in Block, t \notin ToSet(c),
         NEW st2, IsReadable(st2[t], "head"), st2[t].next = st[c[1]].next,
         \A b \in ToSet(c) : b # c[1] => st2[b] = st[b]
  PROVE  IsSection(st2, NewHead(c, t))
<1> DEFINE d == NewHead(c, t)
           k == Len(c)
<1>1. c \in Seq(Block) /\ k \in Nat /\ k >= 2
  BY SectionBlocks
<1>2. d \in Seq(Block) /\ Len(d) = k /\ d[1] = t /\ \A i \in 2..k : d[i] = c[i]
  BY <1>1, NewHeadShape
<1>3. k = Len(c)
  OBVIOUS
<1> HIDE DEF d, k
<1>4. \A i \in 2..k : c[i] \in ToSet(c) /\ c[i] # c[1]
  <2>1. \A i \in 2..k : i \in 1..k /\ 1 \in 1..k /\ i # 1
    BY <1>1
  <2> QED
    BY <2>1, <1>1, <1>3, SetOf DEF IsDistinct
<1>5. \A i \in 2..k : st2[d[i]] = st[c[i]]
  BY <1>2, <1>4
<1>6. st2[d[1]].next = d[2] /\ IsReadable(st2[d[1]], "head")
  <2>1. 2 \in 2..k
    BY <1>1
  <2>2. st[c[1]].next = c[2]
    BY DEF IsSection
  <2> QED
    BY <2>1, <2>2, <1>2
<1>7. ASSUME NEW i \in 2..k
      PROVE  /\ IsReadable(st2[d[i]], "data") /\ SeqNbOf(st2[d[i]]) = i - 1
             /\ st2[d[i]].next = IF i < k THEN d[i + 1] ELSE NoBlock
  <2>1. /\ IsReadable(st[c[i]], "data") /\ SeqNbOf(st[c[i]]) = i - 1
        /\ st[c[i]].next = IF i < k THEN c[i + 1] ELSE NoBlock
    BY <1>3 DEF IsSection
  <2>2. i < k => i + 1 \in 2..k
    BY <1>1
  <2> QED
    BY <2>1, <2>2, <1>2, <1>5
<1>8. IsSection(st2, d)
  BY <1>1, <1>2, <1>6, <1>7 DEF IsSection
<1> QED
  BY <1>8 DEF d

LEMMA RenameLayout ==
  ASSUME StorageAssumption, NEW st, NEW l, NEW ws, NEW H, NEW C, IsLayout(st, l, ws, H, C),
         NEW h, NEW t, NEW to, NEW rest, NEW l2, NEW st2,
         Renamed(st, ws, H, C, h, t, to, rest, l2, st2)
  PROVE  IsMounted(st2, l2, ws)
<1> DEFINE c == C[h]
           d == NewHead(c, t)
           D == [x \in {t} |-> d]
           H2 == (H \ {h}) \cup {t}
<1>0. /\ h \in H /\ NameOf(st[h]) \notin DOMAIN ws
      /\ to \notin DOMAIN ws /\ \A g \in H : NameOf(st[g]) # to
      /\ t \in ToSet(C[0])
      /\ rest \in Seq(Block) /\ IsDistinct(rest) /\ ToSet(rest) = (ToSet(C[0]) \ {t}) \cup {h}
      /\ IsStorage(st2) /\ IsFreeList(st2, l2, rest)
      /\ IsReadable(st2[t], "head") /\ NameOf(st2[t]) = to /\ st2[t].next = st[h].next
      /\ \A b \in Block : (b \notin ToSet(rest) /\ b # t) => st2[b] = st[b]
  BY DEF Renamed
<1>1. h \in Labels(H, ws) /\ 0 \in Labels(H, ws) /\ h # 0 /\ h \in Block /\ h \notin HeadsOf(ws)
      /\ IsSection(st, c) /\ c[1] = h
  <2>1. h # 0 /\ h \in Block /\ h \notin HeadsOf(ws)
    BY <1>0, LabelBlocks
  <2> QED
    BY <1>0, <2>1, WriterLabels
<1>2. t \in Block /\ t \notin Labels(H, ws) /\ t # 0 /\ t \notin HeadsOf(ws) /\ t \notin H
  <2>1. t \in Block /\ t \notin Labels(H, ws)
    BY <1>0, LabelBlocks
  <2> QED
    BY <2>1 DEF Labels
<1>3. \A a, b \in Labels(H, ws) : a # b => ToSet(C[a]) \cap ToSet(C[b]) = {}
  BY ChainsApart
<1>4. c \in Seq(Block) /\ IsDistinct(c) /\ Len(c) \in Nat /\ Len(c) >= 2 /\ h \in ToSet(c)
  <2>1. IsDistinct(c)
    BY <1>1, ChainsApart
  <2> QED
    BY <2>1, <1>1, SectionBlocks
<1>5. t \notin ToSet(c) /\ ToSet(C[0]) \cap ToSet(c) = {}
  BY <1>0, <1>1, <1>3
<1>6. ASSUME NEW b \in Block, b \notin ToSet(C[0]), b # h PROVE st2[b] = st[b]
  BY <1>0, <1>6
<1> HIDE DEF c, d
<1>7. d \in Seq(Block) /\ IsDistinct(d) /\ d[1] = t /\ ToSet(d) = (ToSet(c) \ {h}) \cup {t}
  BY <1>1, <1>2, <1>4, <1>5, NewHeadShape DEF d
<1>8. IsSection(st2, d)
  <2>1. \A b \in ToSet(c) : b # c[1] => st2[b] = st[b]
    <3>1. \A b \in ToSet(c) : b \in Block
      BY <1>4, SetOf
    <3> QED
      BY <3>1, <1>1, <1>5, <1>6
  <2>2. st2[t].next = st[c[1]].next /\ IsReadable(st2[t], "head")
    BY <1>0, <1>1
  <2>3. IsSection(st2, NewHead(c, t))
    BY <1>1, <1>2, <1>4, <1>5, <2>1, <2>2, NewHeadSection
  <2> QED
    BY <2>3 DEF d
<1>9. D[t] = d
  OBVIOUS
<1> HIDE DEF D
<1>10. \A g \in H : g # h => st2[g] = st[g] /\ g # t
  <2>1. \A g \in H : g \in Block /\ g \notin ToSet(C[0])
    BY LabelBlocks DEF Labels
  <2> QED
    BY <2>1, <1>2, <1>6
<1>11. Turns(Labels(H, ws), C, {h}, rest, {t}, D)
  <2>1. ToSet(d) \cap ToSet(rest) = {}
    <3>1. ToSet(rest) = (ToSet(C[0]) \ {t}) \cup {h}
      BY <1>0
    <3>2. ToSet(d) = (ToSet(c) \ {h}) \cup {t}
      BY <1>7
    <3>3. t # h
      BY <1>1, <1>2
    <3> QED
      BY <3>1, <3>2, <3>3, <1>5
  <2>2. ToSet(rest) \cup UNION {ToSet(D[x]) : x \in {t}} = ToSet(C[0]) \cup UNION {ToSet(C[x]) : x \in {h}}
    <3>1. ToSet(rest) \cup ToSet(d) = ToSet(C[0]) \cup ToSet(c)
      BY <1>0, <1>4, <1>7
    <3> QED
      BY <3>1, <1>9 DEF c
  <2>3. {t} \cap (Labels(H, ws) \ {h}) = {} /\ {h} \subseteq Labels(H, ws)
    BY <1>1, <1>2
  <2> QED
    BY <2>1, <2>2, <2>3, <1>0, <1>1, <1>2, <1>7, <1>9 DEF Turns
<1>12. Labels(H2, ws) = (Labels(H, ws) \ {h}) \cup {t}
  BY <1>1 DEF Labels
<1>13. ASSUME NEW g \in H2
       PROVE  (g \in {t} /\ D[g][1] = g /\ IsSection(st2, D[g])) \/ (g \notin {t} /\ g \in H)
  BY <1>2, <1>7, <1>8, <1>9
<1>14. ASSUME NEW n \in DOMAIN ws
       PROVE  ws[n].head \notin {t} /\ IsReplaced(st2, H2, n, ws[n])
  <2>1. IsReplaced(st, H, n, ws[n]) /\ ws[n].head \in HeadsOf(ws)
    BY WriterLabels
  <2>2. CASE ws[n].old \in H /\ NameOf(st[ws[n].old]) = n /\ VersionOf(st[ws[n].old]) # ws[n].version
    <3>1. ws[n].old # h
      BY <2>2, <1>0
    <3>2. ws[n].old \in H2 /\ st2[ws[n].old] = st[ws[n].old]
      BY <2>2, <3>1, <1>10
    <3> QED
      BY <2>1, <2>2, <3>2, <1>2 DEF IsReplaced
  <2>3. CASE ws[n].old = NoBlock /\ \A g \in H : NameOf(st[g]) # n
    <3>1. \A g \in H2 : NameOf(st2[g]) # n
      BY <1>0, <1>10, <2>3
    <3> QED
      BY <2>1, <2>3, <3>1, <1>2 DEF IsReplaced
  <2> QED
    BY <2>1, <2>2, <2>3 DEF IsReplaced
<1>15. DistinctNames(st2, H2)
  <2>1. DistinctNames(st, H)
    BY DEF IsLayout
  <2>2. ASSUME NEW f \in H2, NEW g \in H2, NameOf(st2[f]) = NameOf(st2[g]) PROVE f = g
    <3>1. CASE f = t /\ g # t
      BY <3>1, <2>2, <1>0, <1>10
    <3>2. CASE f # t /\ g = t
      BY <3>2, <2>2, <1>0, <1>10
    <3>3. CASE f # t /\ g # t
      BY <3>3, <2>1, <2>2, <1>10 DEF DistinctNames
    <3> QED
      BY <3>1, <3>2, <3>3
  <2> QED
    BY <2>2 DEF DistinctNames
<1>16. \A m, n \in DOMAIN ws : ws[m].head = ws[n].head => m = n
  BY WriterLabels
<1>17. H2 \subseteq Block /\ \A b \in Block : (b \notin ToSet(rest) /\ \A x \in {t} : b \notin ToSet(D[x])) => st2[b] = st[b]
  <2>1. H \subseteq Block
    BY DEF IsLayout
  <2>2. t \in ToSet(D[t])
    BY <1>7, <1>9
  <2> QED
    BY <2>1, <2>2, <1>0, <1>2
<1> HIDE DEF H2
<1>18. Turned(st, ws, H, C, {h}, st2, l2, ws, H2, rest, {t}, D)
  <2>1. \A g \in H2 : (g \in {t} /\ D[g][1] = g /\ IsSection(st2, D[g])) \/ (g \notin {t} /\ g \in H)
    BY <1>13
  <2>2. \A n \in DOMAIN ws :
          (ws[n].head \in {t} /\ IsWritten(st2, ws[n], D[ws[n].head]))
          \/ (ws[n].head \notin {t} /\ n \in DOMAIN ws /\ ws[n] = ws[n])
    BY <1>14
  <2>3. \A n \in DOMAIN ws : IsReplaced(st2, H2, n, ws[n])
    BY <1>14
  <2>4. IsStorage(st2) /\ IsFreeList(st2, l2, rest)
    BY <1>0
  <2> QED
    BY <2>1, <2>2, <2>3, <2>4, <1>11, <1>12, <1>15, <1>16, <1>17 DEF Turned
<1> QED
  BY <1>18, LayoutTurned

(* Rename: the new head leads to the data of the old one, and it is newer. *)
RenameHead(st, h, to) == HeadBlock(to, NextVersion(VersionOf(st[h])), st[h].next)

LEMMA RenameHeadFields ==
  ASSUME StorageAssumption, NEW st, NEW l, NEW ws, NEW H, NEW C, IsLayout(st, l, ws, H, C),
         NEW h \in H, NEW to \in Names
  PROVE  /\ RenameHead(st, h, to) \in Content
         /\ NextVersion(VersionOf(st[h])) # VersionOf(st[h])
<1>1. st[h] \in Content /\ st[h].type = "head"
  <2>1. h \in Block /\ h \in HeadsIn(st)
    <3>1. h \in Block
      BY LabelBlocks
    <3>2. HeadsIn(st) = H
      BY LayoutBlocks
    <3> QED
      BY <3>1, <3>2
  <2>2. \A b \in Block : st[b] \in Content
    BY LayoutBlocks
  <2> QED
    BY <2>1, <2>2 DEF HeadsIn, IsReadable
<1>2. VersionOf(st[h]) \in 0..MaxVersion /\ st[h].next \in Block
  BY <1>1, ContentFields
<1>3. NextVersion(VersionOf(st[h])) \in 0..MaxVersion /\ NextVersion(VersionOf(st[h])) # VersionOf(st[h])
  BY <1>2, NextVersionDiffers
<1>4. RenameHead(st, h, to) \in HeadBlocks
  BY <1>2, <1>3 DEF RenameHead, HeadBlocks
<1> QED
  BY <1>3, <1>4 DEF Content

LEMMA RenameKeeps ==
  ASSUME StorageAssumption, NEW st, NEW l, NEW ws, NEW H, NEW C, IsLayout(st, l, ws, H, C),
         NEW h \in H, NameOf(st[h]) \notin DOMAIN ws,
         NEW to \in Names, to \notin DOMAIN ws, \A g \in H : NameOf(st[g]) # to,
         l.n > 0, NEW taken, taken = TakeBlocks(st, l, 1), NEW t, t = taken.blocks[1],
         NEW head, head = RenameHead(st, h, to),
         NEW work, work = AddBlocks(Store(Begin(st, taken.list), t, head), <<h>>)
  PROVE  /\ taken.ok /\ IsCall(st, work, ws) /\ t \in Block /\ t \notin H
         /\ \A y \in ToSet(work.writes) : y[2].type = "head" => y = <<t, head>>
<1> DEFINE rest == SubSeq(C[0], 2, Len(C[0]))
           prev == Store(Begin(st, taken.list), t, head)
           e == <<h>>
           rest2 == rest \o e
<1>1. /\ taken.ok
      /\ t \in Block /\ t \in ToSet(C[0]) /\ IsReadable(st[t], "free")
      /\ t \notin Labels(H, ws)
      /\ \A a \in Labels(H, ws) : a # 0 => t \notin ToSet(C[a])
      /\ rest \in Seq(Block) /\ IsDistinct(rest) /\ t \notin ToSet(rest)
      /\ ToSet(C[0]) = ToSet(rest) \cup {t}
      /\ IsFreeList(st, taken.list, rest)
  BY TakeOne
<1>2. IsStorage(st) /\ head \in Content
  <2>1. RenameHead(st, h, to) \in Content
    BY RenameHeadFields
  <2>2. IsStorage(st)
    BY DEF IsLayout
  <2> QED
    BY <2>1, <2>2
<1>3. h \in Block /\ h \notin ToSet(C[0]) /\ t \notin H /\ h # t
  <2>1. h \in Block /\ h \in Labels(H, ws)
    BY LabelBlocks DEF Labels
  <2>2. h \notin ToSet(C[0])
    BY <2>1, LabelBlocks
  <2>3. t \notin H
    BY <1>1 DEF Labels
  <2> QED
    BY <2>1, <2>2, <2>3
<1>4. work = AddBlocks(prev, e) /\ prev = Store(Begin(st, taken.list), t, head)
  OBVIOUS
<1>5. e \in Seq(Block) /\ IsDistinct(e) /\ ToSet(e) = {h}
  BY <1>3, OneBlock
<1> HIDE DEF rest, prev, e
<1>6. /\ IsWork(st, prev) /\ prev.list = taken.list /\ IsStorage(prev.st)
      /\ prev.st[t] = head /\ \A b \in Block : b # t => prev.st[b] = st[b]
      /\ \A y \in ToSet(prev.writes) : y = <<t, head>>
  BY <1>1, <1>2, <1>4, FirstWrite
<1>7. IsFreeList(prev.st, prev.list, rest)
  <2>1. \A b \in ToSet(rest) : prev.st[b] = st[b]
    <3>1. \A b \in ToSet(rest) : b \in Block
      BY <1>1, SetOf
    <3> QED
      BY <3>1, <1>1, <1>6
  <2>2. IsFreeList(st, prev.list, rest)
    BY <1>1, <1>6
  <2> QED
    BY <2>1, <2>2, FreeListStays
<1>8. rest2 \in Seq(Block) /\ IsDistinct(rest2) /\ ToSet(rest2) = ToSet(rest) \cup {h}
  <2>1. ToSet(rest) \cap ToSet(e) = {}
    BY <1>1, <1>3, <1>5
  <2>2. rest2 \in Seq(Block) /\ IsDistinct(rest2) /\ ToSet(rest2) = ToSet(rest) \cup ToSet(e)
    BY <1>1, <1>5, <2>1, JoinedApart
  <2> QED
    BY <2>2, <1>5
<1>9. Freed(st, prev, work, rest2, ToSet(rest) \cup {h})
  <2>1. IsDistinct(rest \o e)
    BY <1>8
  <2>2. Freed(st, prev, AddBlocks(prev, e), rest \o e, ToSet(rest) \cup ToSet(e))
    BY <1>2, <1>5, <1>6, <1>7, <2>1, AddBlocksAdds
  <2> QED
    BY <2>2, <1>4, <1>5
<1> HIDE DEF rest2
<1>10. /\ IsWork(st, work) /\ IsFreeList(work.st, work.list, rest2)
       /\ \A b \in Block \ (ToSet(rest) \cup {h}) : work.st[b] = prev.st[b]
       /\ \A y \in ToSet(work.writes) : y \in ToSet(prev.writes) \/ y[2].type = "free"
  BY <1>9 DEF Freed
<1>11. IsStorage(work.st)
  BY <1>2, <1>10, WorkStorage
<1>12. NameOf(head) = to /\ head.next = st[h].next /\ IsReadable(head, "head")
  BY HeadFields DEF RenameHead
<1> DEFINE st2 == work.st
           l2 == work.list
<1>13. Renamed(st, ws, H, C, h, t, to, rest2, l2, st2)
  <2>1. st2[t] = head
    BY <1>1, <1>3, <1>6, <1>10
  <2>2. \A b \in Block : (b \notin ToSet(rest2) /\ b # t) => st2[b] = st[b]
    BY <1>6, <1>8, <1>10
  <2>3. ToSet(rest2) = (ToSet(C[0]) \ {t}) \cup {h}
    <3>1. ToSet(C[0]) = ToSet(rest) \cup {t} /\ t \notin ToSet(rest) /\ ToSet(rest2) = ToSet(rest) \cup {h}
      BY <1>1, <1>8
    <3> QED
      BY <3>1
  <2>4. IsReadable(st2[t], "head") /\ NameOf(st2[t]) = to /\ st2[t].next = st[h].next
    BY <2>1, <1>12
  <2>5. IsStorage(st2) /\ IsFreeList(st2, l2, rest2)
    BY <1>10, <1>11
  <2>6. t \in ToSet(C[0]) /\ rest2 \in Seq(Block) /\ IsDistinct(rest2)
    BY <1>1, <1>8
  <2> HIDE DEF st2, l2
  <2> QED
    BY <2>2, <2>3, <2>4, <2>5, <2>6 DEF Renamed
<1> HIDE DEF st2, l2
<1>14. IsMounted(st2, l2, ws)
  BY <1>13, RenameLayout
<1>15. IsCall(st, work, ws)
  BY <1>2, <1>10, <1>14, CallBegins DEF st2, l2
<1>16. \A y \in ToSet(work.writes) : y[2].type = "head" => y = <<t, head>>
  BY <1>6, <1>10
<1> QED
  BY <1>1, <1>3, <1>15, <1>16

(* Init, Format: all blocks are free.                                      *)
LEMMA FormattedLayout ==
  ASSUME StorageAssumption, NEW st, DOMAIN st = 0..(NBlocks - 1), IsFunction(st),
         \A b \in Block : st[b] = FreeBlock(b + 1),
         NEW ws, DOMAIN ws = {}
  PROVE  IsMounted(st, AllFree, ws)
<1> DEFINE k == NBlocks - 1
           F == [i \in 1..k |-> i]
           C == [x \in {0} |-> F]
<1>1. k \in Nat /\ k >= 2 /\ Block = 1..k /\ k + 1 = NoBlock /\ NBlocks = k + 1
  BY DEF StorageAssumption, Block, NoBlock
<1> HIDE DEF k
<1>2. F \in Seq(Block) /\ Len(F) = k /\ \A i \in 1..k : F[i] = i
  BY <1>1
<1>3. C[0] = F
  OBVIOUS
<1> HIDE DEF F, C
<1>4. IsDistinct(F)
  BY <1>2 DEF IsDistinct
<1>5. \A x \in Block : x \in ToSet(F)
  <2> TAKE x \in Block
  <2>1. x \in 1..k /\ F[x] = x
    BY <1>1, <1>2
  <2> QED
    BY <1>2, <2>1, SetOf
<1>6. IsStorage(st)
  <2>1. \A b \in Block : st[b] \in Content
    <3> TAKE b \in Block
    <3>1. b + 1 \in Block \cup {NoBlock}
      BY <1>1
    <3>2. FreeBlock(b + 1) \in Content
      BY <3>1, FreeContent DEF Link
    <3> QED
      BY <3>2
  <2> QED
    BY <2>1 DEF IsStorage
<1>7. IsFreeList(st, AllFree, F)
  <2>1. F # <<>>
    BY <1>1, <1>2
  <2>2. AllFree = [n |-> Len(F), head |-> F[1], end |-> F[Len(F)]]
    <3>1. F[1] = 1 /\ F[k] = k
      BY <1>1, <1>2
    <3>2. AllFree = [n |-> k, head |-> 1, end |-> k]
      BY DEF AllFree, k
    <3> QED
      BY <3>1, <3>2, <1>2
  <2>3. ASSUME NEW i \in 1..k PROVE st[F[i]] = FreeBlock(IF i < k THEN F[i + 1] ELSE NoBlock)
    <3>1. i \in Block /\ F[i] = i /\ st[i] = FreeBlock(i + 1)
      BY <1>1, <1>2
    <3>2. (IF i < k THEN F[i + 1] ELSE NoBlock) = i + 1
      BY <1>1, <1>2
    <3> QED
      BY <3>1, <3>2
  <2>4. AllFree.n = k
    BY <2>2, <1>2
  <2> QED
    BY <2>1, <2>2, <2>3, <2>4, <1>2, <1>4 DEF IsFreeList
<1>8. Labels({}, ws) = {0}
  BY DEF Labels, HeadsOf
<1>9. IsPartition({0}, C)
  BY <1>2, <1>3, <1>4, <1>5 DEF IsPartition
<1>10. IsLayout(st, AllFree, ws, {}, C)
  BY <1>3, <1>6, <1>7, <1>8, <1>9 DEF IsLayout, DistinctNames
<1> QED
  BY <1>10 DEF IsMounted

FormatWrites == [i \in 1..NBlocks |-> IF i < NBlocks THEN <<i, Formatted[i]>> ELSE <<0, InfoBlock>>]

LEMMA FormatKeeps ==
  ASSUME StorageAssumption, NEW st, IsStorage(st), NEW ws, DOMAIN ws = {}
  PROVE  /\ FormatWrites \in Seq(Writes) /\ FormatWrites # <<>>
         /\ IsMounted(After(st, FormatWrites), AllFree, ws)
         /\ \A y \in ToSet(FormatWrites) : y[2].type # "head"
         /\ HeadsIn(After(st, FormatWrites)) = {}
<1> DEFINE vs == FormatWrites
<1>1. /\ NBlocks \in Nat /\ NBlocks >= 3 /\ Block = 1..(NBlocks - 1) /\ NoBlock = NBlocks
      /\ \A b \in Block : b \in 0..(NBlocks - 1) /\ b # 0 /\ b < NBlocks /\ b \in 1..NBlocks /\ b + 1 \in Block \cup {NoBlock}
      /\ \A i \in 1..NBlocks : i < NBlocks <=> i \in Block
      /\ 0 \notin Block
  BY DEF StorageAssumption, Block, NoBlock
<1>2. \A b \in Block : Formatted[b] = FreeBlock(b + 1)
  BY <1>1 DEF Formatted
<1>3. \A b \in Block : FreeBlock(b + 1) \in Content
  BY <1>1, FreeContent DEF Link
<1>4. \A i \in 1..NBlocks : /\ i \in Block => vs[i] = <<i, FreeBlock(i + 1)>>
                            /\ i \notin Block => vs[i] = <<0, InfoBlock>>
  BY <1>1, <1>2 DEF FormatWrites
<1>5. vs \in [1..NBlocks -> Writes]
  <2>1. ASSUME NEW i \in 1..NBlocks PROVE vs[i] \in Writes
    <3>1. CASE i \in Block
      <4>1. vs[i] = <<i, FreeBlock(i + 1)>> /\ FreeBlock(i + 1) \in Content
        BY <3>1, <1>3, <1>4
      <4> QED
        BY <3>1, <4>1 DEF Writes
    <3>2. CASE i \notin Block
      <4>1. vs[i] = <<0, InfoBlock>>
        BY <3>2, <1>4
      <4> QED
        BY <4>1 DEF Writes
    <3> QED
      BY <3>1, <3>2
  <2>2. DOMAIN vs = 1..NBlocks /\ vs = [i \in 1..NBlocks |-> vs[i]]
    BY DEF FormatWrites
  <2> QED
    BY <2>1, <2>2
<1>6. vs \in Seq(Writes) /\ Len(vs) = NBlocks /\ vs # <<>>
  BY <1>1, <1>5
<1> HIDE DEF vs
<1>7. \A b \in Block : IsLastWrite(vs, b, b)
  <2> TAKE b \in Block
  <2>1. b \in 1..NBlocks /\ vs[b][1] = b
    BY <1>1, <1>4
  <2>2. ASSUME NEW j \in 1..NBlocks, vs[j][1] = b PROVE j <= b
    <3>1. j = b
      BY <1>1, <1>4, <2>2
    <3> QED
      BY <3>1, <1>1
  <2> QED
    BY <1>6, <2>1, <2>2 DEF IsLastWrite
<1>8. \A b \in Block : After(st, vs)[b] = FreeBlock(b + 1)
  <2> TAKE b \in Block
  <2>1. b \in DOMAIN st
    BY <1>1 DEF IsStorage
  <2>2. After(st, vs)[b] = vs[b][2]
    BY <1>6, <1>7, <2>1, AfterValue
  <2> QED
    BY <2>2, <1>1, <1>4
<1>9. IsMounted(After(st, vs), AllFree, ws)
  <2>1. DOMAIN After(st, vs) = 0..(NBlocks - 1) /\ IsFunction(After(st, vs))
    BY AfterDomain DEF IsStorage
  <2> QED
    BY <1>8, <2>1, FormattedLayout
<1>10. \A y \in ToSet(vs) : y[2].type # "head"
  <2> TAKE y \in ToSet(vs)
  <2>1. PICK i \in 1..NBlocks : y = vs[i]
    BY <1>6, SetOf
  <2>2. CASE i \in Block
    <3>1. y[2] = FreeBlock(i + 1)
      BY <2>1, <2>2, <1>4
    <3> QED
      BY <3>1, FreeFields
  <2>3. CASE i \notin Block
    <3>1. y[2] = InfoBlock
      BY <2>1, <2>3, <1>4
    <3> QED
      BY <3>1 DEF InfoBlock
  <2> QED
    BY <2>2, <2>3
<1>11. HeadsIn(After(st, vs)) = {}
  <2>1. ASSUME NEW b \in Block PROVE ~IsReadable(After(st, vs)[b], "head")
    BY <1>8, FreeFields DEF IsReadable
  <2> QED
    BY <2>1 DEF HeadsIn
<1> QED
  BY <1>6, <1>9, <1>10, <1>11 DEF vs

(* The heads in the storage, and those that a call has still to write.     *)
HeadPairs(st) == {<<b, st[b]>> : b \in HeadsIn(st)}
HeadsAhead(st, vs) == HeadPairs(st) \cup {y \in ToSet(vs) : y[1] \in Block /\ y[2].type = "head"}

PairRivals(p, q) == p[1] # q[1] /\ (NameOf(p[2]) = NameOf(q[2]) \/ p[2].next = q[2].next)
Compatible(P) ==
  \A p, q \in P : PairRivals(p, q) =>
    /\ VersionOf(p[2]) # VersionOf(q[2])
    /\ \A r \in P : PairRivals(p, r) => r[1] = q[1]

(* The same for the heads in the storage.                                  *)
FewRivals(st) ==
  \A b, c \in HeadsIn(st) : Rivals(st, b, c) =>
    /\ VersionOf(st[b]) # VersionOf(st[c])
    /\ \A d \in HeadsIn(st) : Rivals(st, b, d) => d = c

LEMMA CompatibleSubset ==
  ASSUME NEW P, NEW Q, P \subseteq Q, Compatible(Q)
  PROVE  Compatible(P)
BY DEF Compatible

LEMMA PairFields ==
  ASSUME NEW b, NEW x
  PROVE  <<b, x>>[1] = b /\ <<b, x>>[2] = x
OBVIOUS

LEMMA CompatibleFew ==
  ASSUME NEW st, NEW vs, Compatible(HeadsAhead(st, vs))
  PROVE  FewRivals(st)
<1>1. \A b \in HeadsIn(st) : <<b, st[b]>> \in HeadsAhead(st, vs)
  BY DEF HeadsAhead, HeadPairs
<1>2. ASSUME NEW b \in HeadsIn(st), NEW c \in HeadsIn(st), Rivals(st, b, c)
      PROVE  VersionOf(st[b]) # VersionOf(st[c]) /\ \A d \in HeadsIn(st) : Rivals(st, b, d) => d = c
  <2> DEFINE p == <<b, st[b]>>
             q == <<c, st[c]>>
             P == HeadsAhead(st, vs)
  <2>1. p \in P /\ q \in P /\ p[1] = b /\ p[2] = st[b] /\ q[1] = c /\ q[2] = st[c]
    BY <1>1
  <2> HIDE DEF p, q, P
  <2>2. PairRivals(p, q)
    BY <1>2, <2>1 DEF Rivals, PairRivals
  <2>3. Compatible(P)
    BY DEF P
  <2>4. VersionOf(st[b]) # VersionOf(st[c])
    BY <2>1, <2>2, <2>3 DEF Compatible
  <2>5. ASSUME NEW d \in HeadsIn(st), Rivals(st, b, d) PROVE d = c
    <3> DEFINE r == <<d, st[d]>>
    <3>1. r \in P /\ r[1] = d /\ r[2] = st[d]
      BY <1>1 DEF P
    <3> HIDE DEF r
    <3>2. PairRivals(p, r)
      BY <2>1, <2>5, <3>1 DEF Rivals, PairRivals
    <3>3. r[1] = q[1]
      BY <2>1, <2>2, <2>3, <3>1, <3>2 DEF Compatible
    <3> QED
      BY <2>1, <3>1, <3>3
  <2> QED
    BY <2>4, <2>5
<1> QED
  BY <1>2 DEF FewRivals

LEMMA HeadsSame ==
  ASSUME NEW st, NEW vs, \A y \in ToSet(vs) : y[2].type # "head"
  PROVE  HeadsAhead(st, vs) = HeadPairs(st)
BY DEF HeadsAhead

LEMMA HeadsOneMore ==
  ASSUME NEW st, NEW vs, NEW p, \A y \in ToSet(vs) : y[2].type = "head" => y = p
  PROVE  HeadsAhead(st, vs) \subseteq HeadPairs(st) \cup {p}
BY DEF HeadsAhead

LEMMA NothingAhead ==
  ASSUME NEW st
  PROVE  HeadsAhead(st, <<>>) = HeadPairs(st)
<1>1. ToSet(<<>>) = {}
  BY DEF ToSet
<1> QED
  BY <1>1 DEF HeadsAhead

LEMMA HeadTailSet ==
  ASSUME NEW S, NEW vs \in Seq(S), vs # <<>>
  PROVE  /\ Head(vs) \in S /\ Head(vs) \in ToSet(vs)
         /\ Tail(vs) \in Seq(S) /\ \A y \in ToSet(Tail(vs)) : y \in ToSet(vs)
<1>1. Len(vs) \in Nat /\ Len(vs) >= 1 /\ Head(vs) = vs[1] /\ 1 \in 1..Len(vs)
  OBVIOUS
<1>2. Tail(vs) \in Seq(S) /\ Len(Tail(vs)) = Len(vs) - 1
      /\ \A i \in 1..Len(Tail(vs)) : Tail(vs)[i] = vs[i + 1]
  OBVIOUS
<1> DEFINE t == Tail(vs)
<1> HIDE DEF t
<1>3. ASSUME NEW y \in ToSet(t) PROVE y \in ToSet(vs)
  <2>1. t \in Seq(S) /\ Len(t) = Len(vs) - 1 /\ \A i \in 1..Len(t) : t[i] = vs[i + 1]
    BY <1>2 DEF t
  <2>2. PICK i \in 1..Len(t) : t[i] = y
    BY <2>1, SetOf
  <2>3. i + 1 \in 1..Len(vs) /\ vs[i + 1] = y
    BY <1>1, <2>1, <2>2
  <2> QED
    BY <2>3, SetOf
<1>4. Head(vs) \in ToSet(vs)
  <2>1. vs[1] \in ToSet(vs)
    BY <1>1, SetOf
  <2> QED
    BY <1>1, <2>1
<1> QED
  BY <1>1, <1>2, <1>3, <1>4 DEF t

(* One block is changed: to what is written, or to something that cannot   *)
(* be read.                                                                *)
LEMMA WrittenHeads ==
  ASSUME NEW st, NEW st2, NEW b, NEW P,
         \A c \in Block : c # b => st2[c] = st[c],
         b \in Block => ~ IsReadable(st2[b], "head") \/ <<b, st2[b]>> \in P
  PROVE  HeadPairs(st2) \subseteq HeadPairs(st) \cup P
<1>1. ASSUME NEW c \in HeadsIn(st2) PROVE <<c, st2[c]>> \in HeadPairs(st) \cup P
  <2>1. c \in Block /\ IsReadable(st2[c], "head")
    BY DEF HeadsIn
  <2>2. CASE c = b
    BY <2>1, <2>2
  <2>3. CASE c # b
    <3>1. st2[c] = st[c] /\ c \in HeadsIn(st)
      BY <2>1, <2>3 DEF HeadsIn
    <3> QED
      BY <3>1 DEF HeadPairs
  <2> QED
    BY <2>2, <2>3
<1> QED
  BY <1>1 DEF HeadPairs

LEMMA StoreOne ==
  ASSUME StorageAssumption, NEW st, IsStorage(st), NEW vs \in Seq(Writes), vs # <<>>
  PROVE  LET y == Head(vs)
             st2 == [st EXCEPT ![y[1]] = y[2]]
         IN  /\ y \in Writes /\ y = <<y[1], y[2]>> /\ y \in ToSet(vs)
             /\ st2[y[1]] = y[2] /\ \A c \in Block : c # y[1] => st2[c] = st[c]
<1> DEFINE y == Head(vs)
           st2 == [st EXCEPT ![y[1]] = y[2]]
<1>1. y \in Writes /\ y \in ToSet(vs)
  BY HeadTailSet
<1>2. y = <<y[1], y[2]>> /\ y[1] \in 0..(NBlocks - 1)
  BY <1>1, WriteFields
<1>3. DOMAIN st = 0..(NBlocks - 1) /\ IsFunction(st)
  BY DEF IsStorage
<1> HIDE DEF y
<1>5. st2[y[1]] = y[2] /\ \A c \in Block : c # y[1] => st2[c] = st[c]
  <2>1. \A c \in Block : c \in DOMAIN st
    BY <1>3, Sizes DEF Block
  <2> QED
    BY <1>2, <1>3, <2>1
<1> QED
  BY <1>1, <1>2, <1>5 DEF y

LEMMA StoredHeads ==
  ASSUME NEW st, NEW vs, NEW ws, NEW y, y \in ToSet(vs), \A z \in ToSet(ws) : z \in ToSet(vs),
         y = <<y[1], y[2]>>,
         NEW st2, st2[y[1]] = y[2], \A c \in Block : c # y[1] => st2[c] = st[c]
  PROVE  HeadsAhead(st2, ws) \subseteq HeadsAhead(st, vs)
         /\ HeadPairs(st2) \subseteq HeadsAhead(st, vs)
<1> DEFINE A == {z \in ToSet(vs) : z[1] \in Block /\ z[2].type = "head"}
           b == y[1]
<1>1. b \in Block => ~ IsReadable(st2[b], "head") \/ <<b, st2[b]>> \in A
  BY DEF IsReadable
<1>2. \A c \in Block : c # b => st2[c] = st[c]
  OBVIOUS
<1> HIDE DEF A, b
<1>3. HeadPairs(st2) \subseteq HeadPairs(st) \cup A
  BY <1>1, <1>2, WrittenHeads
<1> QED
  BY <1>3 DEF HeadsAhead, A

LEMMA OneMoreCompatible ==
  ASSUME NEW P, NEW p, \A q, r \in P : ~ PairRivals(q, r),
         \A q \in P : PairRivals(p, q) =>
           /\ VersionOf(p[2]) # VersionOf(q[2])
           /\ \A r \in P : PairRivals(p, r) => r[1] = q[1]
  PROVE  Compatible(P \cup {p})
<1>1. \A q, r : PairRivals(q, r) => PairRivals(r, q)
  BY DEF PairRivals
<1>2. ~ PairRivals(p, p)
  BY DEF PairRivals
<1>3. ASSUME NEW q \in P \cup {p}, NEW r \in P \cup {p}, PairRivals(q, r)
      PROVE  /\ VersionOf(q[2]) # VersionOf(r[2])
             /\ \A s \in P \cup {p} : PairRivals(q, s) => s[1] = r[1]
  <2>1. CASE q = p
    <3>1. r \in P
      BY <1>2, <1>3, <2>1
    <3> QED
      BY <1>2, <1>3, <2>1, <3>1
  <2>2. CASE q # p
    <3>1. q \in P /\ r = p
      BY <1>3, <2>2
    <3>2. PairRivals(p, q)
      BY <1>1, <1>3, <3>1
    <3>3. VersionOf(q[2]) # VersionOf(r[2])
      BY <3>1, <3>2
    <3>4. \A s \in P \cup {p} : PairRivals(q, s) => s = p
      BY <3>1
    <3> QED
      BY <3>1, <3>3, <3>4
  <2> QED
    BY <2>1, <2>2
<1> QED
  BY <1>3 DEF Compatible

LEMMA PairsAreHeads ==
  ASSUME NEW st, NEW H, HeadsIn(st) = H, NEW q \in HeadPairs(st)
  PROVE  q[1] \in H /\ q[2] = st[q[1]]
<1>1. PICK g \in H : q = <<g, st[g]>>
  BY DEF HeadPairs
<1> QED
  BY <1>1

LEMMA LayoutPairs ==
  ASSUME NEW st, NEW l, NEW ws, NEW H, NEW C, IsLayout(st, l, ws, H, C)
  PROVE  /\ \A q \in HeadPairs(st) : q[1] \in H /\ q[2] = st[q[1]]
         /\ \A q, r \in HeadPairs(st) : ~ PairRivals(q, r)
<1>1. HeadsIn(st) = H
  BY LayoutBlocks
<1>2. \A q \in HeadPairs(st) : q[1] \in H /\ q[2] = st[q[1]]
  BY <1>1, PairsAreHeads
<1>3. ASSUME NEW q \in HeadPairs(st), NEW r \in HeadPairs(st), PairRivals(q, r) PROVE FALSE
  <2>1. Rivals(st, q[1], r[1])
    BY <1>2, <1>3 DEF PairRivals, Rivals
  <2> QED
    BY <1>2, <2>1, NoRivals
<1> QED
  BY <1>2, <1>3

LEMMA LayoutHeads ==
  ASSUME NEW st, NEW l, NEW ws, NEW H, NEW C, IsLayout(st, l, ws, H, C)
  PROVE  Compatible(HeadPairs(st))
BY LayoutPairs DEF Compatible

LEMMA SectionNext ==
  ASSUME NEW st, NEW l, NEW ws, NEW H, NEW C, IsLayout(st, l, ws, H, C), NEW g \in H
  PROVE  st[g].next \in ToSet(C[g]) /\ g \in Labels(H, ws)
<1>1. IsSection(st, C[g]) /\ C[g][1] = g /\ g \in Labels(H, ws)
  BY WriterLabels
<1>2. C[g][2] \in ToSet(C[g])
  BY <1>1, SectionBlocks
<1> QED
  BY <1>1, <1>2 DEF IsSection

LEMMA CloseHeads ==
  ASSUME StorageAssumption, NEW st, NEW l, NEW ws, NEW H, NEW C, IsLayout(st, l, ws, H, C),
         NEW n \in DOMAIN ws, NEW p, p = <<ws[n].head, HeadBlock(n, ws[n].version, ws[n].first)>>
  PROVE  Compatible(HeadPairs(st) \cup {p})
<1> DEFINE w == ws[n]
           a == w.head
           P == HeadPairs(st)
<1>1. p[1] = a /\ NameOf(p[2]) = n /\ VersionOf(p[2]) = w.version /\ p[2].next = w.first
  <2>1. p[1] = a /\ p[2] = HeadBlock(n, w.version, w.first)
    OBVIOUS
  <2> QED
    BY <2>1, HeadFields
<1>2. IsWritten(st, w, C[a]) /\ a \in Labels(H, ws) /\ IsReplaced(st, H, n, w) /\ a \in HeadsOf(ws)
  BY WriterLabels
<1>3. w.first \in ToSet(C[a])
  BY <1>2, WrittenBlocks
<1>4. a \notin H
  BY <1>2, LabelBlocks
<1>5. \A d, e \in Labels(H, ws) : d # e => ToSet(C[d]) \cap ToSet(C[e]) = {}
  BY ChainsApart
<1>6. \A q \in P : q[1] \in H /\ q[2] = st[q[1]]
  BY LayoutPairs
<1>7. \A q, r \in P : ~ PairRivals(q, r)
  BY LayoutPairs
<1> HIDE DEF w, a, P
<1>8. ASSUME NEW q \in P, PairRivals(p, q)
      PROVE  VersionOf(p[2]) # VersionOf(q[2]) /\ q[1] = w.old
  <2> DEFINE g == q[1]
  <2>1. g \in H /\ q[2] = st[g]
    BY <1>6
  <2>2. st[g].next # w.first
    <3>1. st[g].next \in ToSet(C[g]) /\ g \in Labels(H, ws)
      BY <2>1, SectionNext
    <3>2. g # a
      BY <2>1, <1>4
    <3> QED
      BY <3>1, <3>2, <1>2, <1>3, <1>5
  <2>3. NameOf(st[g]) = n
    BY <1>1, <1>8, <2>1, <2>2 DEF PairRivals
  <2>4. w.old \in H /\ NameOf(st[w.old]) = n /\ VersionOf(st[w.old]) # w.version
    BY <1>2, <2>1, <2>3 DEF IsReplaced
  <2>5. w.old = g
    <3>1. DistinctNames(st, H)
      BY DEF IsLayout
    <3> QED
      BY <2>1, <2>3, <2>4, <3>1 DEF DistinctNames
  <2> QED
    BY <1>1, <2>1, <2>4, <2>5
<1>9. \A q \in P : PairRivals(p, q) =>
        /\ VersionOf(p[2]) # VersionOf(q[2])
        /\ \A r \in P : PairRivals(p, r) => r[1] = q[1]
  BY <1>8
<1>10. Compatible(P \cup {p})
  BY <1>7, <1>9, OneMoreCompatible
<1> QED
  BY <1>10 DEF P

LEMMA RenameHeads ==
  ASSUME StorageAssumption, NEW st, NEW l, NEW ws, NEW H, NEW C, IsLayout(st, l, ws, H, C),
         NEW h \in H, NEW to \in Names, \A g \in H : NameOf(st[g]) # to,
         NEW t, NEW p, p = <<t, RenameHead(st, h, to)>>
  PROVE  Compatible(HeadPairs(st) \cup {p})
<1> DEFINE P == HeadPairs(st)
<1>1. p[1] = t /\ NameOf(p[2]) = to /\ VersionOf(p[2]) = NextVersion(VersionOf(st[h]))
      /\ p[2].next = st[h].next
  <2>1. p[1] = t /\ p[2] = HeadBlock(to, NextVersion(VersionOf(st[h])), st[h].next)
    BY DEF RenameHead
  <2> QED
    BY <2>1, HeadFields
<1>2. NextVersion(VersionOf(st[h])) # VersionOf(st[h])
  BY RenameHeadFields
<1>5. \A d, e \in Labels(H, ws) : d # e => ToSet(C[d]) \cap ToSet(C[e]) = {}
  BY ChainsApart
<1>6. \A q \in P : q[1] \in H /\ q[2] = st[q[1]]
  BY LayoutPairs
<1>7. \A q, r \in P : ~ PairRivals(q, r)
  BY LayoutPairs
<1> HIDE DEF P
<1>8. ASSUME NEW q \in P, PairRivals(p, q)
      PROVE  VersionOf(p[2]) # VersionOf(q[2]) /\ q[1] = h
  <2> DEFINE g == q[1]
  <2>1. g \in H /\ q[2] = st[g]
    BY <1>6
  <2>2. st[g].next = st[h].next
    BY <1>1, <1>8, <2>1 DEF PairRivals
  <2>3. st[g].next \in ToSet(C[g]) /\ g \in Labels(H, ws)
    BY <2>1, SectionNext
  <2>4. st[h].next \in ToSet(C[h]) /\ h \in Labels(H, ws)
    BY SectionNext
  <2>5. g = h
    BY <2>2, <2>3, <2>4, <1>5
  <2> QED
    BY <1>1, <1>2, <2>1, <2>5
<1>9. \A q \in P : PairRivals(p, q) =>
        /\ VersionOf(p[2]) # VersionOf(q[2])
        /\ \A r \in P : PairRivals(p, r) => r[1] = q[1]
  BY <1>8
<1>10. Compatible(P \cup {p})
  BY <1>7, <1>9, OneMoreCompatible
<1> QED
  BY <1>10 DEF P

(* Open before MountStep2: the two searches, block by block.               *)
SameName(st, name, b) ==
  /\ st[b].type = "head" /\ st[b].hash = Hash[name]
  /\ st[b].ok => NameOf(st[b]) = name
NewestStep(st, name, h, b) ==
  IF ~SameName(st, name, b) \/ h \in {Unreadable, Ambiguous} THEN h
  ELSE IF ~st[b].ok THEN Unreadable
  ELSE IF h = NoBlock THEN b
  ELSE IF VersionOf(st[b]) = VersionOf(st[h]) THEN Ambiguous
  ELSE IF Newer(VersionOf(st[b]), VersionOf(st[h])) THEN b ELSE h
SharesNext(st, newest, b) ==
  /\ b # newest /\ st[b].next = st[newest].next
  /\ st[b].ok => st[b].type = "head"
ConfirmStep(st, newest, h, b) ==
  IF h # newest \/ ~SharesNext(st, newest, b) THEN h
  ELSE IF ~st[b].ok THEN Unreadable
  ELSE IF VersionOf(st[b]) = VersionOf(st[newest]) THEN Ambiguous
  ELSE IF Newer(VersionOf(st[b]), VersionOf(st[newest])) THEN NoBlock ELSE h

IsNewestRun(st, name, m, g) ==
  g = [b \in 0..m |-> IF b = 0 THEN NoBlock ELSE NewestStep(st, name, g[b - 1], b)]
IsConfirmRun(st, newest, m, g) ==
  g = [b \in 0..m |-> IF b = 0 THEN newest ELSE ConfirmStep(st, newest, g[b - 1], b)]

LEMMA NewestRunExists ==
  ASSUME NEW st, NEW name, NEW m \in Nat
  PROVE  \E g : IsNewestRun(st, name, m, g)
<1> DEFINE step(k, x) == NewestStep(st, name, x, k)
           IsRun(g, n) == g = [k \in 0..n |-> IF k = 0 THEN NoBlock ELSE step(k, g[k - 1])]
           T == {n \in Nat : \E g : IsRun(g, n)}
<1> HIDE DEF step
<1>1. 0 \in T
  <2>1. IsRun([k \in 0..0 |-> NoBlock], 0)
    OBVIOUS
  <2> QED
    BY <2>1
<1>2. ASSUME NEW n \in Nat, n \in T PROVE n + 1 \in T
  <2>1. PICK g : IsRun(g, n)
    BY <1>2
  <2> DEFINE h == [k \in 0..(n + 1) |-> IF k = 0 THEN NoBlock ELSE step(k, g[k - 1])]
  <2>2. \A k \in 0..n : g[k] = IF k = 0 THEN NoBlock ELSE step(k, g[k - 1])
    BY <2>1
  <2>3. \A k \in 0..n : h[k] = g[k]
    BY <2>2
  <2>4. ASSUME NEW k \in 0..(n + 1)
        PROVE  h[k] = IF k = 0 THEN NoBlock ELSE step(k, h[k - 1])
    <3>1. CASE k = 0
      BY <3>1
    <3>2. CASE k # 0
      <4>1. k - 1 \in 0..n
        BY <3>2
      <4>2. h[k - 1] = g[k - 1]
        BY <4>1, <2>3
      <4> QED
        BY <3>2, <4>2
    <3> QED
      BY <3>1, <3>2
  <2>5. IsRun(h, n + 1)
    BY <2>4
  <2> HIDE DEF h, IsRun
  <2> QED
    BY <2>5
<1> HIDE DEF T
<1>3. \A n \in Nat : n \in T
  BY <1>1, <1>2, SetInduction
<1> QED
  BY <1>3 DEF T, step, IsNewestRun

LEMMA ConfirmRunExists ==
  ASSUME NEW st, NEW newest, NEW m \in Nat
  PROVE  \E g : IsConfirmRun(st, newest, m, g)
<1> DEFINE step(k, x) == ConfirmStep(st, newest, x, k)
           IsRun(g, n) == g = [k \in 0..n |-> IF k = 0 THEN newest ELSE step(k, g[k - 1])]
           T == {n \in Nat : \E g : IsRun(g, n)}
<1> HIDE DEF step
<1>1. 0 \in T
  <2>1. IsRun([k \in 0..0 |-> newest], 0)
    OBVIOUS
  <2> QED
    BY <2>1
<1>2. ASSUME NEW n \in Nat, n \in T PROVE n + 1 \in T
  <2>1. PICK g : IsRun(g, n)
    BY <1>2
  <2> DEFINE h == [k \in 0..(n + 1) |-> IF k = 0 THEN newest ELSE step(k, g[k - 1])]
  <2>2. \A k \in 0..n : g[k] = IF k = 0 THEN newest ELSE step(k, g[k - 1])
    BY <2>1
  <2>3. \A k \in 0..n : h[k] = g[k]
    BY <2>2
  <2>4. ASSUME NEW k \in 0..(n + 1)
        PROVE  h[k] = IF k = 0 THEN newest ELSE step(k, h[k - 1])
    <3>1. CASE k = 0
      BY <3>1
    <3>2. CASE k # 0
      <4>1. k - 1 \in 0..n
        BY <3>2
      <4>2. h[k - 1] = g[k - 1]
        BY <4>1, <2>3
      <4> QED
        BY <3>2, <4>2
    <3> QED
      BY <3>1, <3>2
  <2>5. IsRun(h, n + 1)
    BY <2>4
  <2> HIDE DEF h, IsRun
  <2> QED
    BY <2>5
<1> HIDE DEF T
<1>3. \A n \in Nat : n \in T
  BY <1>1, <1>2, SetInduction
<1> QED
  BY <1>3 DEF T, step, IsConfirmRun

NewestRun(st, name, up, newest, co) ==
  /\ up[0] = NoBlock /\ \A b \in Block : up[b] = NewestStep(st, name, up[b - 1], b)
  /\ newest = up[NBlocks - 1]
  /\ co[0] = newest /\ \A b \in Block : co[b] = ConfirmStep(st, newest, co[b - 1], b)
  /\ FindNewestHead(st, name) =
       IF newest \in Block /\ \A b \in Block : SameName(st, name, b) => b = newest
       THEN co[NBlocks - 1] ELSE newest

LEMMA NewestSteps ==
  ASSUME StorageAssumption, NEW st, NEW name
  PROVE  \E up, newest, co : NewestRun(st, name, up, newest, co)
<1> DEFINE m == NBlocks - 1
           up == CHOOSE g : g = [b \in 0..m |-> IF b = 0 THEN NoBlock ELSE NewestStep(st, name, g[b - 1], b)]
           newest == up[m]
           co == CHOOSE g : g = [b \in 0..m |-> IF b = 0 THEN newest ELSE ConfirmStep(st, newest, g[b - 1], b)]
<1>1. m \in Nat /\ Block = 1..m /\ m >= 2
  BY DEF StorageAssumption, Block
<1>2. FindNewestHead(st, name) =
        IF newest \in Block /\ \A b \in Block : SameName(st, name, b) => b = newest
        THEN co[m] ELSE newest
  BY Zenon DEF FindNewestHead, SameName, NewestStep, SharesNext, ConfirmStep
<1> HIDE DEF m
<1>3. up = [b \in 0..m |-> IF b = 0 THEN NoBlock ELSE NewestStep(st, name, up[b - 1], b)]
  <2>1. \E g : IsNewestRun(st, name, m, g)
    BY <1>1, NewestRunExists
  <2>2. IsNewestRun(st, name, m, CHOOSE g : IsNewestRun(st, name, m, g))
    BY <2>1
  <2> QED
    BY <2>2 DEF IsNewestRun
<1> HIDE DEF up
<1>4. up[0] = NoBlock /\ \A b \in Block : up[b] = NewestStep(st, name, up[b - 1], b)
  <2>1. 0 \in 0..m /\ \A b \in Block : b \in 0..m /\ b # 0
    BY <1>1
  <2> QED
    BY <1>3, <2>1
<1> HIDE DEF newest
<1>5. co = [b \in 0..m |-> IF b = 0 THEN newest ELSE ConfirmStep(st, newest, co[b - 1], b)]
  <2>1. \E g : IsConfirmRun(st, newest, m, g)
    BY <1>1, ConfirmRunExists
  <2>2. IsConfirmRun(st, newest, m, CHOOSE g : IsConfirmRun(st, newest, m, g))
    BY <2>1
  <2> QED
    BY <2>2 DEF IsConfirmRun
<1> HIDE DEF co
<1>6. co[0] = newest /\ \A b \in Block : co[b] = ConfirmStep(st, newest, co[b - 1], b)
  <2>1. 0 \in 0..m /\ \A b \in Block : b \in 0..m /\ b # 0
    BY <1>1
  <2> QED
    BY <1>5, <2>1
<1>7. newest = up[m]
  BY DEF newest
<1>8. NewestRun(st, name, up, newest, co)
  BY <1>2, <1>4, <1>6, <1>7 DEF NewestRun, m
<1> QED
  BY <1>8

(* Open() before MountStep2: if heads of one name, or that lead to the     *)
(* same data, differ in version, the search never ends with two heads that *)
(* it cannot tell apart.                                                   *)
THEOREM NeverAmbiguous ==
  ASSUME StorageAssumption, NEW st, IsStorage(st), FewRivals(st), NEW name \in Names
  PROVE  FindNewestHead(st, name) # Ambiguous
<1>1. PICK up, newest, co : NewestRun(st, name, up, newest, co)
  BY NewestSteps
<1>2. /\ NBlocks - 1 \in Nat /\ NBlocks - 1 >= 2 /\ Block = 1..(NBlocks - 1)
      /\ NoBlock \notin Block /\ Unreadable \notin Block /\ Ambiguous \notin Block
      /\ NoBlock # Unreadable /\ NoBlock # Ambiguous /\ Unreadable # Ambiguous
  BY DEF StorageAssumption, Block, NoBlock, Unreadable, Ambiguous
<1> DEFINE IsHit(h, n) == h \in Block /\ h <= n /\ h \in HeadsIn(st) /\ NameOf(st[h]) = name
           S == {n \in Nat : n \in 0..(NBlocks - 1) =>
                   up[n] \in {NoBlock, Unreadable} \/ IsHit(up[n], n)}
<1>3. 0 \in S
  BY <1>1 DEF NewestRun
<1>4. ASSUME NEW n \in Nat, n \in S PROVE n + 1 \in S
  <2> DEFINE b == n + 1
  <2>1. SUFFICES ASSUME b \in Block PROVE up[b] \in {NoBlock, Unreadable} \/ IsHit(up[b], b)
    BY <1>2
  <2>2. b - 1 = n /\ n \in 0..(NBlocks - 1) /\ up[b] = NewestStep(st, name, up[n], b)
    BY <1>1, <1>2, <2>1 DEF NewestRun
  <2>3. up[n] \in {NoBlock, Unreadable} \/ IsHit(up[n], n)
    BY <1>4, <2>2
  <2>4. CASE up[b] = up[n]
    BY <2>3, <2>4, <1>2
  <2>5. CASE up[b] # up[n]
    <3>1. SameName(st, name, b) /\ up[n] \notin {Unreadable, Ambiguous}
      BY <2>2, <2>5 DEF NewestStep
    <3>2. CASE ~st[b].ok
      BY <2>2, <3>1, <3>2 DEF NewestStep
    <3>3. CASE st[b].ok
      <4>1. b \in HeadsIn(st) /\ NameOf(st[b]) = name
        BY <2>1, <3>1, <3>3 DEF SameName, HeadsIn, IsReadable
      <4>2. IsHit(b, b)
        BY <2>1, <4>1, <1>2
      <4>3. CASE up[n] = NoBlock
        BY <2>2, <3>1, <3>3, <4>2, <4>3 DEF NewestStep
      <4>4. CASE up[n] # NoBlock
        <5>1. IsHit(up[n], n)
          BY <2>3, <3>1, <4>4
        <5>2. Rivals(st, b, up[n])
          BY <4>1, <5>1 DEF Rivals
        <5>3. VersionOf(st[b]) # VersionOf(st[up[n]])
          BY <4>1, <5>1, <5>2 DEF FewRivals
        <5>4. up[b] = b
          BY <2>2, <2>5, <3>1, <3>3, <4>4, <5>3 DEF NewestStep
        <5> QED
          BY <4>2, <5>4
      <4> QED
        BY <4>3, <4>4
    <3> QED
      BY <3>2, <3>3
  <2> QED
    BY <2>4, <2>5
<1>5. \A n \in Nat : n \in S
  <2> HIDE DEF S
  <2> QED
    BY <1>3, <1>4, SetInduction
<1>6. newest \in {NoBlock, Unreadable} \/ (newest \in HeadsIn(st) /\ NameOf(st[newest]) = name)
  BY <1>1, <1>2, <1>5 DEF NewestRun
<1> HIDE DEF S
<1>7. CASE newest \in Block /\ \A b \in Block : SameName(st, name, b) => b = newest
  <2> DEFINE R == {n \in Nat : n \in 0..(NBlocks - 1) => co[n] # Ambiguous}
  <2>1. 0 \in R
    BY <1>1, <1>2, <1>7 DEF NewestRun
  <2>2. ASSUME NEW n \in Nat, n \in R PROVE n + 1 \in R
    <3> DEFINE b == n + 1
    <3>1. SUFFICES ASSUME b \in Block PROVE co[b] # Ambiguous
      BY <1>2
    <3>2. b - 1 = n /\ n \in 0..(NBlocks - 1) /\ co[b] = ConfirmStep(st, newest, co[n], b)
      BY <1>1, <1>2, <3>1 DEF NewestRun
    <3>3. co[n] # Ambiguous
      BY <2>2, <3>2
    <3>4. CASE co[n] # newest \/ ~SharesNext(st, newest, b) \/ ~st[b].ok
      BY <1>2, <3>2, <3>3, <3>4 DEF ConfirmStep
    <3>5. CASE SharesNext(st, newest, b) /\ st[b].ok
      <4>1. b \in HeadsIn(st) /\ newest \in HeadsIn(st)
        BY <1>2, <1>6, <1>7, <3>1, <3>5 DEF SharesNext, HeadsIn, IsReadable
      <4>2. Rivals(st, b, newest)
        BY <3>5 DEF Rivals, SharesNext
      <4>3. VersionOf(st[b]) # VersionOf(st[newest])
        BY <4>1, <4>2 DEF FewRivals
      <4> QED
        BY <1>2, <3>2, <3>3, <3>5, <4>3 DEF ConfirmStep
    <3> QED
      BY <3>4, <3>5
  <2>3. \A n \in Nat : n \in R
    <3> HIDE DEF R
    <3> QED
      BY <2>1, <2>2, SetInduction
  <2>4. co[NBlocks - 1] # Ambiguous
    BY <1>2, <2>3
  <2> QED
    BY <1>1, <1>7, <2>4 DEF NewestRun
<1>8. CASE ~ (newest \in Block /\ \A b \in Block : SameName(st, name, b) => b = newest)
  <2>1. FindNewestHead(st, name) = newest
    BY <1>1, <1>8 DEF NewestRun
  <2>2. newest # Ambiguous
    BY <1>2, <1>6 DEF HeadsIn
  <2> QED
    BY <2>1, <2>2
<1> QED
  BY <1>7, <1>8

(* MountStep2: what the examination of the blocks has found up to now.     *)

(* The free blocks found, as a list; the last one may lead anywhere.       *)
IsFreeRun(st, l, F) ==
  /\ F \in Seq(Block) /\ IsDistinct(F) /\ IsLinked(st, F)
  /\ \A i \in 1..Len(F) : IsReadable(st[F[i]], "free")
  /\ F = <<>> => l = EmptyList
  /\ F # <<>> => l = [n |-> Len(F), head |-> F[1], end |-> F[Len(F)]]

(* U are the used blocks: the free ones and whole sections, G the garbage. *)
ScanShape(st, U, G, l, H, C) ==
  /\ U \cap G = {} /\ G \subseteq Block /\ H \subseteq HeadsIn(st)
  /\ IsFreeRun(st, l, C[0])
  /\ \A h \in H : C[h][1] = h /\ IsSection(st, C[h]) /\ IsDistinct(C[h])
  /\ \A a, b \in {0} \cup H : a # b => ToSet(C[a]) \cap ToSet(C[b]) = {}
  /\ U = UNION {ToSet(C[a]) : a \in {0} \cup H}

(* The heads up to n are marked, with their rivals; of two, one is used.   *)
HeadsMarked(st, U, G, n) ==
  /\ \A b \in HeadsIn(st) : b <= n => b \in U \cup G
  /\ \A b, c \in HeadsIn(st) : b \in U \cup G /\ Rivals(st, b, c) =>
       c \in U \cup G /\ ~ (b \in U /\ c \in U)

LEMMA ShapeBlocks ==
  ASSUME NEW st, NEW U, NEW G, NEW l, NEW H, NEW C, ScanShape(st, U, G, l, H, C)
  PROVE  /\ \A b \in U : b \in Block /\ st[b].ok
         /\ H = HeadsIn(st) \cap U /\ 0 \notin H
         /\ \A b \in ToSet(C[0]) : b \in U /\ st[b].ok /\ st[b].type = "free"
<1>1. \A b \in ToSet(C[0]) : b \in Block /\ b \in U /\ st[b].ok /\ st[b].type = "free"
  <2>1. C[0] \in Seq(Block) /\ \A i \in 1..Len(C[0]) : IsReadable(st[C[0][i]], "free")
    BY DEF ScanShape, IsFreeRun
  <2>2. \A b \in ToSet(C[0]) : b \in U
    BY DEF ScanShape
  <2>3. ASSUME NEW b \in ToSet(C[0]) PROVE b \in Block /\ st[b].ok /\ st[b].type = "free"
    <3>1. PICK i \in 1..Len(C[0]) : C[0][i] = b
      BY <2>1, SetOf
    <3>2. b \in Block
      BY <2>1, SetOf
    <3> QED
      BY <2>1, <3>1, <3>2 DEF IsReadable
  <2> QED
    BY <2>2, <2>3
<1>2. ASSUME NEW h \in H
      PROVE  /\ h \in ToSet(C[h]) /\ h \in HeadsIn(st)
             /\ \A b \in ToSet(C[h]) : /\ b \in Block /\ st[b].ok
                                       /\ st[b].type = IF b = h THEN "head" ELSE "data"
  <2>1. IsSection(st, C[h]) /\ C[h][1] = h /\ h \in HeadsIn(st)
    BY DEF ScanShape
  <2> QED
    BY <2>1, SectionBlocks
<1>3. ASSUME NEW b \in U
      PROVE  b \in Block /\ st[b].ok /\ (st[b].type = "head" => b \in H)
  <2>1. PICK a \in {0} \cup H : b \in ToSet(C[a])
    BY DEF ScanShape
  <2>2. CASE a = 0
    BY <1>1, <2>1, <2>2
  <2>3. CASE a \in H
    BY <1>2, <2>1, <2>3
  <2> QED
    BY <2>2, <2>3
<1>4. \A h \in H : h \in U
  BY <1>2 DEF ScanShape
<1>5. 0 \notin H
  BY <1>2 DEF HeadsIn, Block
<1> QED
  BY <1>1, <1>2, <1>3, <1>4, <1>5 DEF HeadsIn, IsReadable

LEMMA ShapeGarbage ==
  ASSUME NEW st, NEW U, NEW G, NEW l, NEW H, NEW C, ScanShape(st, U, G, l, H, C),
         NEW G2, G2 \subseteq Block, U \cap G2 = {}
  PROVE  ScanShape(st, U, G2, l, H, C)
BY DEF ScanShape

LEMMA ShapeSection ==
  ASSUME NEW st, NEW U, NEW G, NEW l, NEW H, NEW C, ScanShape(st, U, G, l, H, C),
         NEW c, IsSection(st, c), IsDistinct(c), ToSet(c) \cap U = {},
         NEW U2, U2 = U \cup ToSet(c),
         NEW G2, G2 \subseteq Block, U2 \cap G2 = {}
  PROVE  \E H2, C2 : ScanShape(st, U2, G2, l, H2, C2)
<1> DEFINE h == c[1]
           H2 == H \cup {h}
           C2 == [a \in {0} \cup H2 |-> IF a = h THEN c ELSE C[a]]
<1>1. h \in ToSet(c) /\ h \in Block /\ h \in HeadsIn(st)
  <2>1. h \in ToSet(c) /\ h \in Block
    BY SectionBlocks
  <2>2. IsReadable(st[h], "head")
    BY DEF IsSection
  <2> QED
    BY <2>1, <2>2 DEF HeadsIn
<1>2. h # 0 /\ h \notin H /\ 0 \notin H
  <2>1. h \notin U
    BY <1>1
  <2> QED
    BY <1>1, <2>1, ShapeBlocks DEF Block
<1>3. C2[h] = c /\ \A a \in {0} \cup H : C2[a] = C[a]
  BY <1>2
<1> HIDE DEF h, C2
<1>4. \A a \in {0} \cup H : ToSet(C[a]) \subseteq U
  BY DEF ScanShape
<1>5. ASSUME NEW a \in {0} \cup H2, NEW b \in {0} \cup H2, a # b
      PROVE  ToSet(C2[a]) \cap ToSet(C2[b]) = {}
  <2>1. CASE a # h /\ b # h
    <3>1. a \in {0} \cup H /\ b \in {0} \cup H
      BY <2>1
    <3>2. ToSet(C[a]) \cap ToSet(C[b]) = {}
      BY <3>1, <1>5 DEF ScanShape
    <3> QED
      BY <3>1, <3>2, <1>3
  <2>2. CASE a = h
    <3>1. b \in {0} \cup H
      BY <1>5, <2>2
    <3> QED
      BY <2>2, <3>1, <1>3, <1>4
  <2>3. CASE b = h
    <3>1. a \in {0} \cup H
      BY <1>5, <2>3
    <3> QED
      BY <2>3, <3>1, <1>3, <1>4
  <2> QED
    BY <2>1, <2>2, <2>3
<1>6. U2 = UNION {ToSet(C2[a]) : a \in {0} \cup H2}
  <2>1. {ToSet(C2[a]) : a \in {0} \cup H2} = {ToSet(C[a]) : a \in {0} \cup H} \cup {ToSet(c)}
    BY <1>3
  <2>2. U = UNION {ToSet(C[a]) : a \in {0} \cup H}
    BY DEF ScanShape
  <2> QED
    BY <2>1, <2>2
<1>7. ASSUME NEW g \in H2 PROVE C2[g][1] = g /\ IsSection(st, C2[g]) /\ IsDistinct(C2[g])
  <2>1. CASE g = h
    BY <2>1, <1>3 DEF h
  <2>2. CASE g # h
    BY <2>2, <1>3 DEF ScanShape
  <2> QED
    BY <2>1, <2>2
<1>8. IsFreeRun(st, l, C2[0]) /\ H2 \subseteq HeadsIn(st)
  BY <1>1, <1>3 DEF ScanShape
<1>9. ScanShape(st, U2, G2, l, H2, C2)
  BY <1>5, <1>6, <1>7, <1>8 DEF ScanShape
<1> QED
  BY <1>9

LEMMA ShapeFree ==
  ASSUME NEW st, NEW U, NEW G, NEW l, NEW H, NEW C, ScanShape(st, U, G, l, H, C),
         NEW F, NEW l2, IsFreeRun(st, l2, F),
         NEW X, ToSet(F) = ToSet(C[0]) \cup X, X \cap (U \cup G) = {},
         NEW U2, U2 = U \cup X
  PROVE  \E H2, C2 : ScanShape(st, U2, G, l2, H2, C2)
<1> DEFINE C2 == [a \in {0} \cup H |-> IF a = 0 THEN F ELSE C[a]]
<1>1. 0 \notin H
  BY ShapeBlocks
<1>2. C2[0] = F /\ \A a \in H : C2[a] = C[a]
  BY <1>1
<1> HIDE DEF C2
<1>3. \A a \in {0} \cup H : ToSet(C[a]) \subseteq U
  BY DEF ScanShape
<1>4. ASSUME NEW a \in {0} \cup H, NEW b \in {0} \cup H, a # b
      PROVE  ToSet(C2[a]) \cap ToSet(C2[b]) = {}
  <2>1. ToSet(C[a]) \cap ToSet(C[b]) = {}
    BY <1>4 DEF ScanShape
  <2>2. CASE a \in H /\ b \in H
    BY <2>1, <2>2, <1>2
  <2>3. CASE a = 0
    <3>1. b \in H
      BY <1>4, <2>3
    <3> QED
      BY <2>1, <2>3, <3>1, <1>2, <1>3
  <2>4. CASE b = 0
    <3>1. a \in H
      BY <1>4, <2>4
    <3> QED
      BY <2>1, <2>4, <3>1, <1>2, <1>3
  <2> QED
    BY <2>2, <2>3, <2>4
<1>5. U2 = UNION {ToSet(C2[a]) : a \in {0} \cup H}
  <2>1. {ToSet(C2[a]) : a \in {0} \cup H} = {ToSet(F)} \cup {ToSet(C[a]) : a \in H}
    BY <1>2
  <2>2. U = ToSet(C[0]) \cup UNION {ToSet(C[a]) : a \in H}
    BY DEF ScanShape
  <2> QED
    BY <2>1, <2>2
<1>6. \A h \in H : C2[h][1] = h /\ IsSection(st, C2[h]) /\ IsDistinct(C2[h])
  BY <1>2 DEF ScanShape
<1>7. U2 \cap G = {} /\ G \subseteq Block /\ H \subseteq HeadsIn(st)
  BY DEF ScanShape
<1>8. ScanShape(st, U2, G, l2, H, C2)
  BY <1>2, <1>4, <1>5, <1>6, <1>7 DEF ScanShape
<1> QED
  BY <1>8

(* Blocks that are not heads are marked, and n + 1 is a marked head or none. *)
LEMMA NoHeadMarked ==
  ASSUME NEW st, NEW U, NEW G, NEW n \in Nat, HeadsMarked(st, U, G, n),
         NEW U2, NEW G2, U \subseteq U2, G \subseteq G2,
         \A b \in U2 \cup G2 : b \in HeadsIn(st) => b \in U \cup G,
         \A b \in U2 : b \in HeadsIn(st) => b \in U,
         n + 1 \in HeadsIn(st) => n + 1 \in U \cup G
  PROVE  HeadsMarked(st, U2, G2, n + 1)
<1>1. ASSUME NEW b \in HeadsIn(st), b <= n + 1 PROVE b \in U2 \cup G2
  <2>1. b \in Nat
    BY DEF HeadsIn, Block
  <2>2. b <= n \/ b = n + 1
    BY <1>1, <2>1
  <2> QED
    BY <2>2 DEF HeadsMarked
<1>2. ASSUME NEW b \in HeadsIn(st), NEW c \in HeadsIn(st), b \in U2 \cup G2, Rivals(st, b, c)
      PROVE  c \in U2 \cup G2 /\ ~ (b \in U2 /\ c \in U2)
  <2>1. b \in U \cup G
    BY <1>2
  <2>2. c \in U \cup G /\ ~ (b \in U /\ c \in U)
    BY <1>2, <2>1 DEF HeadsMarked
  <2> QED
    BY <2>2
<1> QED
  BY <1>1, <1>2 DEF HeadsMarked

(* Mount_ProcessSectionHead: a search for rivals, block by block.          *)
SearchStep(st, looked, rivals, x, b) ==
  IF ~x.ok \/ b \notin looked THEN x ELSE LookAt(st, x, b, rivals)
IsSearchRun(st, looked, rivals, scan, i, m, g) ==
  g = [b \in i..m |-> IF b = i THEN scan ELSE SearchStep(st, looked, rivals, g[b - 1], b)]

LEMMA SearchRunExists ==
  ASSUME NEW st, NEW looked, NEW rivals, NEW scan, NEW i \in Nat, NEW j \in Nat
  PROVE  \E g : IsSearchRun(st, looked, rivals, scan, i, i + j, g)
<1> DEFINE step(k, x) == SearchStep(st, looked, rivals, x, k)
           IsRun(g, n) == g = [k \in i..n |-> IF k = i THEN scan ELSE step(k, g[k - 1])]
           T == {n \in Nat : \E g : IsRun(g, i + n)}
<1> HIDE DEF step
<1>1. 0 \in T
  <2>1. IsRun([k \in i..(i + 0) |-> scan], i + 0)
    OBVIOUS
  <2> QED
    BY <2>1
<1>2. ASSUME NEW n \in Nat, n \in T PROVE n + 1 \in T
  <2> DEFINE m == i + n
  <2>1. PICK g : IsRun(g, m)
    BY <1>2
  <2>0. m \in Nat /\ i <= m /\ i + (n + 1) = m + 1
    OBVIOUS
  <2> HIDE DEF m
  <2> DEFINE h == [k \in i..(m + 1) |-> IF k = i THEN scan ELSE step(k, g[k - 1])]
  <2>2. \A k \in i..m : g[k] = IF k = i THEN scan ELSE step(k, g[k - 1])
    BY <2>1
  <2>3. \A k \in i..m : h[k] = g[k]
    BY <2>0, <2>2
  <2>4. ASSUME NEW k \in i..(m + 1)
        PROVE  h[k] = IF k = i THEN scan ELSE step(k, h[k - 1])
    <3>1. CASE k = i
      BY <3>1
    <3>2. CASE k # i
      <4>1. k - 1 \in i..m
        BY <2>0, <3>2
      <4>2. h[k - 1] = g[k - 1]
        BY <4>1, <2>3
      <4> QED
        BY <3>2, <4>2
    <3> QED
      BY <3>1, <3>2
  <2>5. IsRun(h, m + 1)
    BY <2>4
  <2> HIDE DEF h, IsRun
  <2> QED
    BY <2>0, <2>5
<1> HIDE DEF T
<1>3. \A n \in Nat : n \in T
  BY <1>1, <1>2, SetInduction
<1> QED
  BY <1>3 DEF T, step, IsSearchRun

SearchRun(st, looked, rivals, scan, i, g) ==
  /\ g[i] = scan
  /\ \A b \in Block : b > i => g[b] = SearchStep(st, looked, rivals, g[b - 1], b)
  /\ SearchRivals(st, scan, i, looked, rivals) = g[NBlocks - 1]

LEMMA SearchSteps ==
  ASSUME StorageAssumption, NEW st, NEW looked, NEW rivals, NEW scan, NEW i \in Block
  PROVE  \E g : SearchRun(st, looked, rivals, scan, i, g)
<1> DEFINE m == NBlocks - 1
           g == CHOOSE g : g = [b \in i..m |-> IF b = i THEN scan
                                               ELSE SearchStep(st, looked, rivals, g[b - 1], b)]
<1>1. m \in Nat /\ Block = 1..m /\ i \in Nat /\ m - i \in Nat /\ i + (m - i) = m /\ i <= m
  BY DEF StorageAssumption, Block
<1>2. SearchRivals(st, scan, i, looked, rivals) = g[m]
  BY Zenon DEF SearchRivals, SearchStep
<1> HIDE DEF m
<1>3. g = [b \in i..m |-> IF b = i THEN scan ELSE SearchStep(st, looked, rivals, g[b - 1], b)]
  <2>1. \E f : IsSearchRun(st, looked, rivals, scan, i, m, f)
    <3> DEFINE j == m - i
    <3>1. j \in Nat /\ i \in Nat /\ m = i + j
      BY <1>1
    <3> HIDE DEF j
    <3>2. \E f : IsSearchRun(st, looked, rivals, scan, i, i + j, f)
      BY <3>1, SearchRunExists
    <3> QED
      BY <3>1, <3>2
  <2>2. IsSearchRun(st, looked, rivals, scan, i, m,
                    CHOOSE f : IsSearchRun(st, looked, rivals, scan, i, m, f))
    BY <2>1
  <2> QED
    BY <2>2 DEF IsSearchRun
<1> HIDE DEF g
<1>4. g[i] = scan
  BY <1>1, <1>3
<1>5. ASSUME NEW b \in Block, b > i PROVE g[b] = SearchStep(st, looked, rivals, g[b - 1], b)
  <2>1. b \in i..m /\ b # i
    BY <1>1, <1>5
  <2> QED
    BY <1>3, <2>1
<1>6. SearchRun(st, looked, rivals, scan, i, g)
  BY <1>2, <1>4, <1>5 DEF SearchRun, m
<1> QED
  BY <1>6

IsSearch(x) == x = [used |-> x.used, garbage |-> x.garbage, cur |-> x.cur, met |-> x.met, ok |-> x.ok]

KeepNewer(x, b) == [x EXCEPT !.garbage = @ \cup {x.cur}, !.cur = b, !.met = TRUE]
KeepOlder(x, b) == [x EXCEPT !.garbage = @ \cup {b}, !.met = TRUE]

SearchIs(y, u, g, c, m, o) ==
  IsSearch(y) /\ y.used = u /\ y.garbage = g /\ y.cur = c /\ y.met = m /\ y.ok = o

LEMMA GarbageFound ==
  ASSUME NEW x, IsSearch(x), NEW b, NEW y, y = [x EXCEPT !.garbage = @ \cup {b}]
  PROVE  SearchIs(y, x.used, x.garbage \cup {b}, x.cur, x.met, x.ok)
<1> DEFINE u == x.used
           g == x.garbage
           c == x.cur
           m == x.met
           o == x.ok
<1>1. x = [used |-> u, garbage |-> g, cur |-> c, met |-> m, ok |-> o]
  BY DEF IsSearch
<1> HIDE DEF u, g, c, m, o
<1>2. /\ y.used = u /\ y.garbage = g \cup {b}
      /\ y.cur = c /\ y.met = m /\ y.ok = o
  BY <1>1
<1>3. y = [used |-> y.used, garbage |-> y.garbage, cur |-> y.cur, met |-> y.met, ok |-> y.ok]
  BY <1>1
<1> QED
  BY <1>2, <1>3 DEF u, g, c, m, o, IsSearch, SearchIs

LEMMA OlderMet ==
  ASSUME NEW x, IsSearch(x), NEW b, NEW y, y = KeepOlder(x, b)
  PROVE  SearchIs(y, x.used, x.garbage \cup {b}, x.cur, TRUE, x.ok)
<1> DEFINE u == x.used
           g == x.garbage
           c == x.cur
           m == x.met
           o == x.ok
<1>1. x = [used |-> u, garbage |-> g, cur |-> c, met |-> m, ok |-> o]
  BY DEF IsSearch
<1> HIDE DEF u, g, c, m, o
<1>2. /\ y.used = u /\ y.garbage = g \cup {b}
      /\ y.cur = c /\ y.met = TRUE /\ y.ok = o
  BY <1>1 DEF KeepOlder
<1>3. y = [used |-> y.used, garbage |-> y.garbage, cur |-> y.cur, met |-> y.met, ok |-> y.ok]
  BY <1>1 DEF KeepOlder
<1> QED
  BY <1>2, <1>3 DEF u, g, c, m, o, IsSearch, SearchIs

LEMMA NewerMet ==
  ASSUME NEW x, IsSearch(x), NEW b, NEW y, y = KeepNewer(x, b)
  PROVE  SearchIs(y, x.used, x.garbage \cup {x.cur}, b, TRUE, x.ok)
<1> DEFINE u == x.used
           g == x.garbage
           c == x.cur
           m == x.met
           o == x.ok
<1>1. x = [used |-> u, garbage |-> g, cur |-> c, met |-> m, ok |-> o]
  BY DEF IsSearch
<1> HIDE DEF u, g, c, m, o
<1>2. /\ y.used = u /\ y.garbage = g \cup {c}
      /\ y.cur = b /\ y.met = TRUE /\ y.ok = o
  BY <1>1 DEF KeepNewer
<1>3. y = [used |-> y.used, garbage |-> y.garbage, cur |-> y.cur, met |-> y.met, ok |-> y.ok]
  BY <1>1 DEF KeepNewer
<1> QED
  BY <1>2, <1>3 DEF u, g, c, m, o, IsSearch, SearchIs

(* Which heads K the search meets, up to block n.                          *)
(* Of the heads A the newest is c. *)
IsNewest(st, A, c) == \A r \in A : r # c => Loses(st, r, c)
Searching(st, used, g0, i, K, x, n) ==
  /\ IsSearch(x) /\ x.ok = TRUE /\ x.used = used
  /\ g0 \subseteq x.garbage /\ x.garbage \subseteq Block
  /\ x.cur \in {i} \cup K
  /\ \A b \in x.garbage \ g0 : b \notin used /\ (st[b].ok => b \in {i} \cup K /\ b # x.cur)
  /\ \/ x.met = FALSE /\ x.cur = i /\ \A r \in K : r > n /\ r \notin x.garbage
     \/ /\ x.met = TRUE /\ (\E r \in K : r <= n) /\ {i} \cup K \subseteq x.garbage \cup {x.cur}
        /\ IsNewest(st, {i} \cup K, x.cur)
Findable(st, used, g0, i, K) ==
  /\ i \in HeadsIn(st) /\ K \subseteq HeadsIn(st)
  /\ i \notin used \cup g0
  /\ \A r \in K : r > i /\ r \notin used \cup g0 /\ VersionOf(st[r]) # VersionOf(st[i])
  /\ \A r, s \in K : r = s
  /\ \A b \in used : st[b].ok
  /\ used \subseteq Block /\ g0 \subseteq Block

LEMMA Searched ==
  ASSUME NEW st, NEW used, NEW g0, NEW i, NEW K, Findable(st, used, g0, i, K),
         NEW x, NEW n \in Nat, i <= n, Searching(st, used, g0, i, K, x, n),
         NEW looked, NEW rivals, NEW b \in Block, b = n + 1,
         b \in K <=> b \in looked /\ b \in rivals,
         NEW y, y = SearchStep(st, looked, rivals, x, b)
  PROVE  Searching(st, used, g0, i, K, y, b)
<1>0. \A r \in K : r \in Nat /\ (r > n /\ r # b => r > b) /\ (r <= n => r <= b)
  BY DEF Findable, HeadsIn, Block
<1>1. CASE y = x /\ b \notin K
  BY <1>0, <1>1 DEF Searching
<1>2. CASE b \in looked /\ ~st[b].ok
  <2>0. IsSearch(x)
    BY DEF Searching
  <2>1. b \notin used /\ b \notin K /\ b # i
    BY <1>2 DEF Findable, HeadsIn, IsReadable
  <2>2. y = [x EXCEPT !.garbage = @ \cup {b}]
    BY <1>2, <2>1 DEF SearchStep, LookAt, Searching
  <2>3. /\ IsSearch(y) /\ y.used = x.used /\ y.garbage = x.garbage \cup {b}
        /\ y.cur = x.cur /\ y.met = x.met /\ y.ok = x.ok
    <3>1. SearchIs(y, x.used, x.garbage \cup {b}, x.cur, x.met, x.ok)
      BY <2>2, <2>0, GarbageFound
    <3> QED
      BY <3>1 DEF SearchIs
  <2>4. IsSearch(y) /\ y.ok = TRUE /\ y.used = used /\ g0 \subseteq y.garbage /\ y.garbage \subseteq Block /\ y.cur \in {i} \cup K
    BY <2>3 DEF Searching
  <2>5. \A c \in y.garbage \ g0 : c \notin used /\ (st[c].ok => c \in {i} \cup K /\ c # y.cur)
    BY <1>2, <2>1, <2>3 DEF Searching
  <2>6. \/ y.met = FALSE /\ y.cur = i /\ \A r \in K : r > b /\ r \notin y.garbage
        \/ /\ y.met = TRUE /\ (\E r \in K : r <= b) /\ {i} \cup K \subseteq y.garbage \cup {y.cur}
           /\ IsNewest(st, {i} \cup K, y.cur)
    BY <1>0, <2>1, <2>3 DEF Searching
  <2> QED
    BY <2>4, <2>5, <2>6 DEF Searching
<1>3. CASE b \in looked /\ st[b].ok /\ b \in rivals
  <2>1. b \in K /\ K = {b} /\ b # i /\ b \notin used \cup g0 /\ VersionOf(st[b]) # VersionOf(st[i])
    BY <1>3 DEF Findable
  <2>2. ~ (\E r \in K : r <= n)
    BY <2>1
  <2>3. x.met = FALSE /\ x.cur = i /\ b \notin x.garbage /\ x.ok = TRUE /\ x.used = used
    BY <2>1, <2>2 DEF Searching
  <2>4. y = Meet(st, x, b)
    BY <1>3, <2>3 DEF SearchStep, LookAt
  <2>5. \/ y = KeepNewer(x, b) /\ IsNewest(st, {i} \cup K, b)
        \/ y = KeepOlder(x, b) /\ IsNewest(st, {i} \cup K, i)
    <3>1. i < b /\ ~ (b < i)
      BY <2>1 DEF Findable, HeadsIn, Block
    <3>2. CASE Newer(VersionOf(st[b]), VersionOf(st[i]))
      <4>1. y = KeepNewer(x, b)
        BY <2>1, <2>3, <2>4, <3>2 DEF Meet, KeepNewer
      <4>2. IsNewest(st, {i} \cup K, b)
        BY <2>1, <3>1, <3>2 DEF IsNewest, Loses
      <4> QED
        BY <4>1, <4>2
    <3>3. CASE ~ Newer(VersionOf(st[b]), VersionOf(st[i]))
      <4>1. y = KeepOlder(x, b)
        BY <2>1, <2>3, <2>4, <3>3 DEF Meet, KeepOlder
      <4>2. IsNewest(st, {i} \cup K, i)
        BY <2>1, <3>1, <3>3 DEF IsNewest, Loses
      <4> QED
        BY <4>1, <4>2
    <3> QED
      BY <3>2, <3>3
  <2>6. \A c \in x.garbage \ g0 : c \notin used /\ ~st[c].ok
    <3>1. \A c \in x.garbage \ g0 : c \notin used /\ (st[c].ok => c \in {i} \cup K /\ c # x.cur)
      BY DEF Searching
    <3> QED
      BY <2>1, <2>3, <3>1
  <2>7. i \in Block /\ i \notin used /\ i # b /\ g0 \subseteq x.garbage /\ x.garbage \subseteq Block
    BY <2>1 DEF Findable, HeadsIn, Searching
  <2>8. CASE y = KeepNewer(x, b) /\ IsNewest(st, {i} \cup K, b)
    <3>1. /\ IsSearch(y) /\ y.used = used /\ y.garbage = x.garbage \cup {i}
          /\ y.cur = b /\ y.met = TRUE /\ y.ok = TRUE
      <4>1. IsSearch(x)
        BY DEF Searching
      <4>2. SearchIs(y, x.used, x.garbage \cup {x.cur}, b, TRUE, x.ok)
        BY <4>1, <2>8, NewerMet
      <4> QED
        BY <2>3, <4>2 DEF SearchIs
    <3> QED
      BY <2>1, <2>6, <2>7, <2>8, <3>1 DEF Searching
  <2>9. CASE y = KeepOlder(x, b) /\ IsNewest(st, {i} \cup K, i)
    <3>1. /\ IsSearch(y) /\ y.used = used /\ y.garbage = x.garbage \cup {b}
          /\ y.cur = i /\ y.met = TRUE /\ y.ok = TRUE
      <4>1. IsSearch(x)
        BY DEF Searching
      <4>2. SearchIs(y, x.used, x.garbage \cup {b}, x.cur, TRUE, x.ok)
        BY <4>1, <2>9, OlderMet
      <4> QED
        BY <2>3, <4>2 DEF SearchIs
    <3> QED
      <4>1. g0 \subseteq y.garbage /\ y.garbage \subseteq Block /\ y.cur \in {i} \cup K
        BY <2>1, <2>7, <3>1 DEF Findable
      <4>2. \A c \in y.garbage \ g0 : c \notin used /\ (st[c].ok => c \in {i} \cup K /\ c # y.cur)
        BY <2>1, <2>6, <2>7, <3>1
      <4>3. (\E r \in K : r <= b) /\ {i} \cup K \subseteq y.garbage \cup {y.cur}
        BY <2>1, <3>1
      <4> QED
        BY <2>9, <3>1, <4>1, <4>2, <4>3 DEF Searching
  <2> QED
    BY <2>5, <2>8, <2>9
<1>4. CASE b \in looked /\ st[b].ok /\ b \notin rivals
  BY <1>1, <1>4 DEF SearchStep, LookAt, Searching
<1>5. CASE b \notin looked
  BY <1>1, <1>5 DEF SearchStep
<1> QED
  BY <1>2, <1>3, <1>4, <1>5

LEMMA SearchFinds ==
  ASSUME StorageAssumption,
         NEW st, NEW used, NEW g0, NEW i, NEW K, Findable(st, used, g0, i, K),
         NEW scan, Searching(st, used, g0, i, K, scan, i), NEW looked, NEW rivals,
         \A b \in Block : b > i => (b \in K <=> b \in looked /\ b \in rivals)
  PROVE  Searching(st, used, g0, i, K, SearchRivals(st, scan, i, looked, rivals), NBlocks - 1)
<1>1. i \in Block /\ i \in Nat /\ NBlocks - 1 \in Nat /\ i <= NBlocks - 1 /\ Block = 1..(NBlocks - 1)
  BY Sizes DEF Findable, HeadsIn, Block
<1>2. PICK g : SearchRun(st, looked, rivals, scan, i, g)
  BY <1>1, SearchSteps
<1> DEFINE S == {n \in Nat : Searching(st, used, g0, i, K, g[n], n)}
<1>3. i \in S
  BY <1>1, <1>2 DEF SearchRun
<1>4. ASSUME NEW k \in Nat, i < k, k <= NBlocks - 1, k - 1 \in S PROVE k \in S
  <2>1. k \in Block /\ k > i /\ k - 1 \in Nat /\ i <= k - 1 /\ k = (k - 1) + 1
    BY <1>1, <1>4
  <2>2. g[k] = SearchStep(st, looked, rivals, g[k - 1], k)
    BY <1>2, <2>1 DEF SearchRun
  <2>3. Searching(st, used, g0, i, K, g[k - 1], k - 1)
    BY <1>4
  <2>4. k \in K <=> k \in looked /\ k \in rivals
    BY <2>1
  <2>5. Searching(st, used, g0, i, K, g[k], k)
    BY <2>1, <2>2, <2>3, <2>4, Searched
  <2> QED
    BY <2>5
<1> HIDE DEF S
<1>5. \A k \in i..(NBlocks - 1) : k \in S
  BY <1>1, <1>3, <1>4, IntervalInduction
<1>6. NBlocks - 1 \in S
  BY <1>1, <1>5
<1> QED
  BY <1>2, <1>6 DEF S, SearchRun

(* The chain that is found by following the blocks as long as Q allows.    *)
ChainAlong(st, start, Q, c) ==
  /\ c \in Seq(Block) /\ c # <<>> /\ Len(c) \in Nat /\ Len(c) >= 1 /\ c[1] = start
  /\ IsDistinct(c) /\ IsLinked(st, c) /\ Last(c) = c[Len(c)] /\ Last(c) \in Block
  /\ \A k \in 1..(Len(c) - 1) : k \in Q /\ Follow(st, start)[k + 1] = c[k + 1]
                                /\ Follow(st, start)[k] = c[k] 

LEMMA ChainGoes ==
  ASSUME StorageAssumption, NEW st, Linked(st), NEW start \in Block, NEW Q,
         NEW c, IsRunOf(c, st, start, Goes(st, start, Q))
  PROVE  ChainAlong(st, start, Q, c)
<1> DEFINE S == Goes(st, start, Q)
<1>1. GoesOn(st, start, S) /\ S \subseteq Q
  BY DEF GoesOn, Goes
<1>2. IsRunOf(c, st, start, S)
  OBVIOUS
<1> HIDE DEF S
<1>3. Shaped(st, start, S, c)
  BY <1>1, <1>2, ChainShape
<1>4. Len(c) <= NBlocks /\ Len(c) \in Nat /\ Len(c) >= 1 /\ c \in Seq(Block) /\ c # <<>>
  BY <1>3, Sizes DEF Shaped
<1>5. \A k \in 1..Len(c) : Follow(st, start)[k] = c[k]
  BY <1>3, <1>4, FollowAlong DEF Shaped
<1>6. ASSUME NEW k \in 1..(Len(c) - 1)
      PROVE  k \in Q /\ Follow(st, start)[k + 1] = c[k + 1] /\ Follow(st, start)[k] = c[k]
  <2>1. k \in 1..Len(c) /\ k + 1 \in 1..Len(c)
    BY <1>4
  <2>2. k \in Q
    BY <1>1, <1>3 DEF Shaped
  <2> QED
    BY <2>1, <2>2, <1>5
<1>7. Last(c) = c[Len(c)] /\ Last(c) \in Block
  BY <1>4 DEF Last
<1> QED
  BY <1>3, <1>4, <1>6, <1>7 DEF ChainAlong, Shaped

IsScan(x) == x = [used |-> x.used, garbage |-> x.garbage, list |-> x.list, ok |-> x.ok]
ScanIs(y, u, g, l, o) == IsScan(y) /\ y.used = u /\ y.garbage = g /\ y.list = l /\ y.ok = o

LEMMA ScanUsed ==
  ASSUME NEW x, IsScan(x), NEW b, NEW y, y = [x EXCEPT !.used = @ \cup b]
  PROVE  ScanIs(y, x.used \cup b, x.garbage, x.list, x.ok)
<1> DEFINE u == x.used
           g == x.garbage
           l == x.list
           o == x.ok
<1>1. x = [used |-> u, garbage |-> g, list |-> l, ok |-> o]
  BY DEF IsScan
<1> HIDE DEF u, g, l, o
<1>2. y.used = u \cup b /\ y.garbage = g /\ y.list = l /\ y.ok = o
  BY <1>1
<1>3. y = [used |-> y.used, garbage |-> y.garbage, list |-> y.list, ok |-> y.ok]
  BY <1>1
<1> QED
  BY <1>2, <1>3 DEF u, g, l, o, IsScan, ScanIs

LEMMA ScanGarbage ==
  ASSUME NEW x, IsScan(x), NEW b, NEW y, y = [x EXCEPT !.garbage = @ \cup b]
  PROVE  ScanIs(y, x.used, x.garbage \cup b, x.list, x.ok)
<1> DEFINE u == x.used
           g == x.garbage
           l == x.list
           o == x.ok
<1>1. x = [used |-> u, garbage |-> g, list |-> l, ok |-> o]
  BY DEF IsScan
<1> HIDE DEF u, g, l, o
<1>2. y.used = u /\ y.garbage = g \cup b /\ y.list = l /\ y.ok = o
  BY <1>1
<1>3. y = [used |-> y.used, garbage |-> y.garbage, list |-> y.list, ok |-> y.ok]
  BY <1>1
<1> QED
  BY <1>2, <1>3 DEF u, g, l, o, IsScan, ScanIs

LEMMA ScanList ==
  ASSUME NEW x, IsScan(x), NEW m, NEW y, y = [x EXCEPT !.list = m]
  PROVE  ScanIs(y, x.used, x.garbage, m, x.ok)
<1> DEFINE u == x.used
           g == x.garbage
           l == x.list
           o == x.ok
<1>1. x = [used |-> u, garbage |-> g, list |-> l, ok |-> o]
  BY DEF IsScan
<1> HIDE DEF u, g, l, o
<1>2. y.used = u /\ y.garbage = g /\ y.list = m /\ y.ok = o
  BY <1>1
<1>3. y = [used |-> y.used, garbage |-> y.garbage, list |-> y.list, ok |-> y.ok]
  BY <1>1
<1> QED
  BY <1>2, <1>3 DEF u, g, l, o, IsScan, ScanIs

LEMMA ScanDone ==
  ASSUME NEW x, IsScan(x), NEW u1, NEW g1, NEW o1, NEW y, y = [x EXCEPT !.used = u1, !.garbage = g1, !.ok = o1]
  PROVE  ScanIs(y, u1, g1, x.list, o1)
<1> DEFINE u == x.used
           g == x.garbage
           l == x.list
           o == x.ok
<1>1. x = [used |-> u, garbage |-> g, list |-> l, ok |-> o]
  BY DEF IsScan
<1> HIDE DEF u, g, l, o
<1>2. y.used = u1 /\ y.garbage = g1 /\ y.list = l /\ y.ok = o1
  BY <1>1
<1>3. y = [used |-> y.used, garbage |-> y.garbage, list |-> y.list, ok |-> y.ok]
  BY <1>1
<1> QED
  BY <1>2, <1>3 DEF u, g, l, o, IsScan, ScanIs

LEMMA ScanJoined ==
  ASSUME NEW x, IsScan(x), NEW a, NEW b, NEW e, x.list = [n |-> a, head |-> b, end |-> e],
         NEW k, NEW i, NEW y, y = [x EXCEPT !.list.n = @ + k, !.list.head = i]
  PROVE  ScanIs(y, x.used, x.garbage, [n |-> a + k, head |-> i, end |-> e], x.ok)
<1> DEFINE u == x.used
           g == x.garbage
           l == [n |-> a, head |-> b, end |-> e]
           o == x.ok
<1>1. x = [used |-> u, garbage |-> g, list |-> l, ok |-> o]
  BY DEF IsScan
<1> HIDE DEF u, g, o
<1>2. y.used = u /\ y.garbage = g /\ y.ok = o
  BY <1>1
<1>3. y.list = [n |-> a + k, head |-> i, end |-> e]
  BY <1>1
<1>4. y = [used |-> y.used, garbage |-> y.garbage, list |-> y.list, ok |-> y.ok]
  BY <1>1
<1> QED
  BY <1>2, <1>3, <1>4 DEF u, g, o, IsScan, ScanIs

LEMMA AtLeastTwo ==
  ASSUME NEW k \in Nat, k >= 1, k # 1
  PROVE  k >= 2
OBVIOUS

(* What the examination of the section of a head has done.                 *)
Examined(st, x, h, y) ==
  /\ y.ok = TRUE
  /\ \/ \E c : /\ IsSection(st, c) /\ IsDistinct(c) /\ c[1] = h
               /\ ToSet(c) \cap (x.used \cup x.garbage) = {}
               /\ y.used = x.used \cup ToSet(c) /\ y.garbage = x.garbage
     \/ /\ y.used = x.used
        /\ x.garbage \subseteq y.garbage /\ y.garbage \subseteq Block /\ h \in y.garbage
        /\ \A b \in y.garbage \ x.garbage : b \notin x.used /\ (b \in HeadsIn(st) => b = h)

LEMMA SectionExamined ==
  ASSUME StorageAssumption, NEW st, IsStorage(st), NEW x, IsSearch(x), x.ok = TRUE,
         x.garbage \subseteq Block, \A b \in x.used : st[b].ok,
         NEW h \in HeadsIn(st), h \notin x.used \cup x.garbage
  PROVE  Examined(st, x, h, ExamineSection(st, x, h))
<1> DEFINE nth == Follow(st, h)
           marked == x.used \cup x.garbage
           Q == {k \in 1..(NBlocks - 1) : /\ nth[k + 1] \notin x.used \cup x.garbage
                                          /\ IsReadable(st[nth[k + 1]], "data")
                                          /\ SeqNbOf(st[nth[k + 1]]) = k}
           c == [k \in 1..RunLength(Goes(st, h, Q)) |-> nth[k]]
           stop == st[Last(c)].next
           y == ExamineSection(st, x, h)
<1>1. Goes(st, h, Q) =
        {k \in 1..(NBlocks - 1) :
           /\ nth[k + 1] # NoBlock
           /\ \A j \in 1..k : nth[j] # nth[k + 1]
           /\ /\ nth[k + 1] \notin x.used \cup x.garbage
              /\ IsReadable(st[nth[k + 1]], "data") /\ SeqNbOf(st[nth[k + 1]]) = k}
  BY Zenon DEF Goes
<1>2. y = IF stop = NoBlock THEN [x EXCEPT !.used = @ \cup ToSet(c)]
          ELSE IF st[stop].ok THEN [x EXCEPT !.garbage = @ \cup ToSet(c)]
          ELSE [x EXCEPT !.garbage = @ \cup ToSet(c) \cup {stop}, !.ok = stop \notin x.used]
  BY <1>1 DEF ExamineSection, ChainFrom
<1>3. h \in Block /\ st[h].ok /\ st[h].type = "head" /\ st[h].next \in Block /\ Linked(st)
  <2>1. h \in Block /\ st[h].ok /\ st[h].type = "head"
    BY DEF HeadsIn, IsReadable
  <2> QED
    BY <2>1, StorageFields, StorageLinked, ContentFields
<1>4. \A k \in 1..(NBlocks - 1) : k \in Q =>
        /\ nth[k + 1] \notin marked
        /\ IsReadable(st[nth[k + 1]], "data")
        /\ SeqNbOf(st[nth[k + 1]]) = k
  OBVIOUS
<1>5. IsRunOf(c, st, h, Goes(st, h, Q))
  BY DEF IsRunOf
<1>6. \A k \in Q : k \in 1..(NBlocks - 1)
  OBVIOUS
<1> HIDE DEF Q, c, nth, y
<1>7. ChainAlong(st, h, Q, c)
  BY <1>3, <1>5, ChainGoes
<1>8. /\ c \in Seq(Block) /\ c # <<>> /\ Len(c) \in Nat /\ Len(c) >= 1 /\ c[1] = h
      /\ IsDistinct(c) /\ IsLinked(st, c) /\ Last(c) = c[Len(c)] /\ Last(c) \in Block
  BY <1>7 DEF ChainAlong
<1>9. ASSUME NEW k \in 2..Len(c)
      PROVE  c[k] \notin marked /\ IsReadable(st[c[k]], "data") /\ SeqNbOf(st[c[k]]) = k - 1
  <2>1. k - 1 \in 1..(Len(c) - 1) /\ (k - 1) + 1 = k
    BY <1>8
  <2>2. k - 1 \in Q /\ nth[k] = c[k]
    BY <1>7, <2>1 DEF ChainAlong, nth
  <2> QED
    BY <1>4, <1>6, <2>1, <2>2
<1>10. ASSUME NEW b \in ToSet(c)
       PROVE  b \in Block /\ b \notin marked /\ (b \in HeadsIn(st) => b = h)
  <2>1. PICK k \in 1..Len(c) : c[k] = b
    BY <1>8, SetOf
  <2>2. b \in Block
    BY <1>8, SetOf
  <2>3. CASE k = 1
    BY <1>8, <2>1, <2>2, <2>3
  <2>4. CASE k # 1
    <3>1. k \in 2..Len(c)
      BY <1>8, <2>4
    <3>2. st[b].type = "data" /\ b \notin marked
      BY <1>9, <2>1, <3>1 DEF IsReadable
    <3> QED
      BY <2>2, <3>2 DEF HeadsIn, IsReadable
  <2> QED
    BY <2>3, <2>4
<1>11. h \in ToSet(c) /\ stop \in Block \cup {NoBlock}
  <2>1. 1 \in 1..Len(c)
    BY <1>8
  <2>2. h \in ToSet(c)
    BY <1>8, <2>1, SetOf
  <2> QED
    BY <1>3, <1>8, <2>2 DEF Linked
<1> DEFINE u == x.used
           g == x.garbage
           m == x.cur
           f == x.met
<1>12. x = [used |-> u, garbage |-> g, cur |-> m, met |-> f, ok |-> TRUE]
  BY DEF IsSearch
<1> HIDE DEF stop, u, g, m, f
<1>13. CASE stop = NoBlock
  <2>1. y = [x EXCEPT !.used = @ \cup ToSet(c)]
    BY <1>2, <1>13
  <2>2. y.ok = TRUE /\ y.used = u \cup ToSet(c) /\ y.garbage = g
    BY <1>12, <2>1
  <2>3. Len(c) >= 2
    <3>0. Len(c) \in Nat /\ Len(c) >= 1
      BY <1>8
    <3>1. ASSUME Len(c) = 1 PROVE FALSE
      <4>1. Last(c) = h
        BY <1>8, <3>1
      <4> QED
        BY <1>3, <1>13, <4>1, Sizes DEF stop
    <3>2. Len(c) # 1
      BY <3>1
    <3> QED
      BY <3>0, <3>2, AtLeastTwo
  <2>4. st[c[1]].next = c[2]
    <3>1. 1 \in 1..(Len(c) - 1)
      BY <1>8, <2>3
    <3> QED
      BY <1>8, <3>1 DEF IsLinked
  <2>5. ASSUME NEW k \in 2..Len(c)
        PROVE  st[c[k]].next = IF k < Len(c) THEN c[k + 1] ELSE NoBlock
    <3>1. CASE k < Len(c)
      <4>1. k \in 1..(Len(c) - 1)
        BY <1>8, <3>1
      <4> QED
        BY <1>8, <3>1, <4>1 DEF IsLinked
    <3>2. CASE ~ (k < Len(c))
      <4>1. k = Len(c)
        BY <1>8, <3>2
      <4> QED
        BY <1>8, <1>13, <3>2, <4>1 DEF stop
    <3> QED
      BY <3>1, <3>2
  <2>6. IsReadable(st[c[1]], "head")
    BY <1>3, <1>8 DEF IsReadable
  <2>7. IsSection(st, c)
    BY <1>8, <1>9, <2>3, <2>4, <2>5, <2>6 DEF IsSection
  <2>8. ToSet(c) \cap (x.used \cup x.garbage) = {}
    BY <1>10
  <2> QED
    BY <1>8, <2>2, <2>7, <2>8 DEF Examined, y, u, g
<1>14. CASE stop # NoBlock /\ st[stop].ok
  <2>1. y = [x EXCEPT !.garbage = @ \cup ToSet(c)]
    BY <1>2, <1>14
  <2>2. y.ok = TRUE /\ y.used = u /\ y.garbage = g \cup ToSet(c)
    BY <1>12, <2>1
  <2>3. \A b \in y.garbage \ x.garbage : b \notin x.used /\ (b \in HeadsIn(st) => b = h)
    BY <1>10, <2>2 DEF g
  <2>4. x.garbage \subseteq y.garbage /\ y.garbage \subseteq Block /\ h \in y.garbage
    BY <1>10, <1>11, <2>2 DEF g
  <2> QED
    BY <2>2, <2>3, <2>4 DEF Examined, y, u
<1>15. CASE stop # NoBlock /\ ~st[stop].ok
  <2>1. y = [x EXCEPT !.garbage = @ \cup ToSet(c) \cup {stop}, !.ok = stop \notin x.used]
    BY <1>2, <1>15
  <2>2. y.used = u /\ y.garbage = g \cup ToSet(c) \cup {stop} /\ y.ok = (stop \notin u)
    BY <1>12, <2>1 
  <2>3. stop \in Block /\ stop \notin x.used /\ stop \notin HeadsIn(st)
    BY <1>11, <1>15 DEF HeadsIn, IsReadable
  <2>4. y.ok = TRUE
    BY <2>2, <2>3 DEF u
  <2>5. \A b \in y.garbage \ x.garbage : b \notin x.used /\ (b \in HeadsIn(st) => b = h)
    BY <1>10, <2>2, <2>3 DEF g
  <2>6. x.garbage \subseteq y.garbage /\ y.garbage \subseteq Block /\ h \in y.garbage
    BY <1>10, <1>11, <2>2, <2>3 DEF g
  <2> QED
    BY <2>2, <2>4, <2>5, <2>6 DEF Examined, y, u
<1> QED
  BY <1>13, <1>14, <1>15
(* The sections that count: H are their heads, C their chains.             *)
Intact(st, H, C) ==
  /\ IsStorage(st) /\ H \subseteq HeadsIn(st)
  /\ \A h \in H : C[h][1] = h /\ IsSection(st, C[h]) /\ IsDistinct(C[h])
  /\ \A g, h \in H : g # h => ToSet(C[g]) \cap ToSet(C[h]) = {} /\ ~Rivals(st, g, h)

(* Every other head loses against one of them. *)
Alive(st, H, C) ==
  /\ Intact(st, H, C)
  /\ \A c \in HeadsIn(st) \ H :
       /\ \E h \in H : Rivals(st, c, h)
       /\ \A h \in H : Rivals(st, c, h) => Loses(st, c, h)

LEMMA VersionsIn ==
  ASSUME NEW st, IsStorage(st), NEW b \in HeadsIn(st)
  PROVE  /\ b \in Block /\ VersionOf(st[b]) \in 0..MaxVersion /\ NameOf(st[b]) \in Names
         /\ st[b].next \in Block
<1>1. b \in Block /\ st[b].ok /\ st[b].type = "head"
  BY DEF HeadsIn, IsReadable
<1>2. st[b] \in Content \cup Damaged
  BY <1>1 DEF IsStorage
<1>3. st[b] \in Content
  BY <1>1, <1>2 DEF Damaged
<1> QED
  BY <1>1, <1>3, ContentFields

(* Of two rivals one loses.                                                *)
LEMMA OneLoses ==
  ASSUME NEW st, IsStorage(st), NEW b \in HeadsIn(st), NEW c \in HeadsIn(st), b # c
  PROVE  Loses(st, b, c) <=> ~Loses(st, c, b)
<1>1. b \in Nat /\ c \in Nat
  BY VersionsIn DEF Block
<1>2. b < c <=> ~(c < b)
  BY <1>1
<1> QED
  BY <1>2 DEF Loses

(* A section of blocks that are not marked yet is kept as it is. *)
LEMMA SectionKept ==
  ASSUME StorageAssumption, NEW st, NEW x, IsSearch(x), NEW c, IsSection(st, c), IsDistinct(c),
         ToSet(c) \cap (x.used \cup x.garbage) = {}, NEW h, h = c[1],
         NEW y, y = ExamineSection(st, x, h)
  PROVE  y.used = x.used \cup ToSet(c) /\ y.garbage = x.garbage
<1> DEFINE nth == Follow(st, h)
           Q == {k \in 1..(NBlocks - 1) : /\ nth[k + 1] \notin x.used \cup x.garbage
                                          /\ IsReadable(st[nth[k + 1]], "data")
                                          /\ SeqNbOf(st[nth[k + 1]]) = k}
           d == [k \in 1..RunLength(Goes(st, h, Q)) |-> nth[k]]
           stop == st[Last(d)].next
<1>1. Len(c) \in Nat /\ Len(c) >= 2 /\ c \in Seq(Block) /\ c # <<>> /\ c \in [1..Len(c) -> Block]
  BY SectionBlocks
<1>2. IsLinked(st, c)
  <2> SUFFICES ASSUME NEW k \in 1..(Len(c) - 1) PROVE st[c[k]].next = c[k + 1]
    BY DEF IsLinked
  <2>1. CASE k = 1
    BY <2>1 DEF IsSection
  <2>2. CASE k # 1
    <3>1. k \in 2..Len(c) /\ k < Len(c)
      BY <2>2, <1>1
    <3> QED
      BY <3>1 DEF IsSection
  <2> QED
    BY <2>1, <2>2
<1>3. Len(c) <= NBlocks - 1
  BY <1>1, DistinctBlocks DEF IsDistinct
<1>4. \A k \in 1..Len(c) : nth[k] = c[k]
  <2>1. c \in Seq(Block) /\ c # <<>> /\ Len(c) <= NBlocks
    BY <1>1, <1>3, Sizes
  <2> QED
    BY <2>1, <1>2, FollowAlong
<1>5. y = IF stop = NoBlock THEN [x EXCEPT !.used = @ \cup ToSet(d)]
          ELSE IF st[stop].ok THEN [x EXCEPT !.garbage = @ \cup ToSet(d)]
          ELSE [x EXCEPT !.garbage = @ \cup ToSet(d) \cup {stop}, !.ok = stop \notin x.used]
  <2>1. Goes(st, h, Q) =
          {k \in 1..(NBlocks - 1) :
             /\ nth[k + 1] # NoBlock
             /\ \A j \in 1..k : nth[j] # nth[k + 1]
             /\ /\ nth[k + 1] \notin x.used \cup x.garbage
                /\ IsReadable(st[nth[k + 1]], "data") /\ SeqNbOf(st[nth[k + 1]]) = k}
    BY Zenon DEF Goes
  <2> QED
    BY <2>1 DEF ExamineSection, ChainFrom
<1> HIDE DEF nth
<1>6. \A k \in 1..(Len(c) - 1) : k \in Q
  <2> TAKE k \in 1..(Len(c) - 1)
  <2>1. k \in 1..(NBlocks - 1) /\ k + 1 \in 1..Len(c) /\ k + 1 \in 2..Len(c) /\ (k + 1) - 1 = k
    BY <1>1, <1>3, Sizes
  <2>2. nth[k + 1] = c[k + 1]
    BY <1>4, <2>1
  <2>3. IsReadable(st[c[k + 1]], "data") /\ SeqNbOf(st[c[k + 1]]) = k
    BY <2>1 DEF IsSection
  <2>4. c[k + 1] \notin x.used \cup x.garbage
    <3>1. c[k + 1] \in ToSet(c)
      BY <1>1, <2>1, SetOf
    <3> QED
      BY <3>1
  <2> QED
    BY <2>1, <2>2, <2>3, <2>4
<1>7. st[c[Len(c)]].next = NoBlock
  <2>1. Len(c) \in 2..Len(c) /\ ~ (Len(c) < Len(c))
    BY <1>1
  <2> QED
    BY <2>1 DEF IsSection
<1> HIDE DEF Q
<1>8. d = c
  <2>1. c \in Seq(Block) /\ c # <<>>
    BY <1>1
  <2>2. [k \in 1..RunLength(Goes(st, c[1], Q)) |-> Follow(st, c[1])[k]] = c
    BY <2>1, <1>2, <1>6, <1>7, ChainFound, ZenonT(30)
  <2> QED
    BY <2>2 DEF nth
<1>9. stop = NoBlock
  <2>1. Last(c) = c[Len(c)]
    BY <1>1 DEF Last
  <2> QED
    BY <1>7, <1>8, <2>1
<1> HIDE DEF d, stop
<1>10. y = [x EXCEPT !.used = @ \cup ToSet(c)]
  BY <1>5, <1>8, <1>9
<1> DEFINE u == x.used
           g == x.garbage
           m == x.cur
           f == x.met
           o == x.ok
<1>11. x = [used |-> u, garbage |-> g, cur |-> m, met |-> f, ok |-> o]
  BY DEF IsSearch
<1> HIDE DEF u, g, m, f, o
<1>12. y.used = u \cup ToSet(c) /\ y.garbage = g
  BY <1>10, <1>11
<1> QED
  BY <1>12 DEF u, g

(* The sections that count are not taken for garbage.                      *)
Kept(st, used, garbage) ==
  \A H, C : Alive(st, H, C) =>
    \A h \in H : /\ ToSet(C[h]) \cap garbage = {}
                 /\ ToSet(C[h]) \subseteq used \/ ToSet(C[h]) \cap used = {}

(* A block that belongs to no section.                                     *)
Aside(st, b) == ~st[b].ok \/ st[b].type = "free"

Scanned(st, x, n) ==
  /\ IsScan(x) /\ x.ok = TRUE /\ HeadsMarked(st, x.used, x.garbage, n)
  /\ \E H, C : ScanShape(st, x.used, x.garbage, x.list, H, C)
  /\ Kept(st, x.used, x.garbage)

RivalsOf(st, i) == {r \in HeadsIn(st) : Rivals(st, i, r)}

LEMMA NewHeadsMarked ==
  ASSUME NEW st, FewRivals(st), NEW n \in Nat, NEW i \in HeadsIn(st), i = n + 1,
         NEW U, NEW G, HeadsMarked(st, U, G, n), i \notin U \cup G,
         NEW U2, NEW G2, U \subseteq U2, G \subseteq G2,
         {i} \cup RivalsOf(st, i) \subseteq U2 \cup G2,
         \A b \in HeadsIn(st) : b \in U2 \cup G2 => b \in U \cup G \/ b = i \/ b \in RivalsOf(st, i),
         NEW cur, cur \notin U \cup G, \A b \in HeadsIn(st) : b \in U2 => b \in U \/ b = cur
  PROVE  HeadsMarked(st, U2, G2, i)
<1>1. ASSUME NEW b \in HeadsIn(st), b <= i PROVE b \in U2 \cup G2
  <2>1. b \in Nat
    BY DEF HeadsIn, Block
  <2>2. b <= n \/ b = i
    BY <1>1, <2>1
  <2> QED
    BY <2>2 DEF HeadsMarked
<1>2. ASSUME NEW b \in HeadsIn(st), NEW c \in HeadsIn(st), b \in U2 \cup G2, Rivals(st, b, c)
      PROVE  c \in U2 \cup G2 /\ ~ (b \in U2 /\ c \in U2)
  <2>1. b # c /\ Rivals(st, c, b)
    BY <1>2 DEF Rivals
  <2>2. CASE b \in U \cup G
    <3>1. c \in U \cup G /\ ~ (b \in U /\ c \in U)
      BY <1>2, <2>2 DEF HeadsMarked
    <3>2. b # cur /\ c # cur
      BY <2>2, <3>1
    <3>3. (b \in U2 => b \in U) /\ (c \in U2 => c \in U)
      BY <3>2
    <3> QED
      BY <3>1, <3>3
  <2>3. CASE b \notin U \cup G
    <3>1. c \notin U \cup G
      BY <1>2, <2>1, <2>3 DEF HeadsMarked
    <3>2. b = i \/ Rivals(st, i, b)
      BY <1>2, <2>3 DEF RivalsOf
    <3>3. c = i \/ c \in RivalsOf(st, i)
      <4>1. CASE b = i
        BY <1>2, <4>1 DEF RivalsOf
      <4>2. CASE Rivals(st, i, b)
        <5>1. Rivals(st, b, i)
          BY <4>2 DEF Rivals
        <5>2. c = i
          BY <1>2, <5>1 DEF FewRivals
        <5> QED
          BY <5>2
      <4> QED
        BY <3>2, <4>1, <4>2
    <3>4. c \in U2 \cup G2
      BY <3>3
    <3>5. ~ (b \in U2 /\ c \in U2)
      BY <1>2, <2>1, <2>3, <3>1
    <3> QED
      BY <3>4, <3>5
  <2> QED
    BY <2>2, <2>3
<1> QED
  BY <1>1, <1>2 DEF HeadsMarked

(* What both searches together have found.                                 *)
SearchedFor(st, used, g0, i, K, x) ==
  /\ IsSearch(x) /\ x.ok = TRUE /\ x.used = used
  /\ g0 \subseteq x.garbage /\ x.garbage \subseteq Block
  /\ x.cur \in {i} \cup K /\ x.cur \notin x.garbage
  /\ \A b \in x.garbage \ g0 : b \notin used /\ (st[b].ok => b \in {i} \cup K)
  /\ {i} \cup K \subseteq x.garbage \cup {x.cur}
  /\ IsNewest(st, {i} \cup K, x.cur)

LEMMA SearchEnds ==
  ASSUME StorageAssumption,
         NEW st, NEW used, NEW g0, NEW i, NEW K, Findable(st, used, g0, i, K),
         NEW x, Searching(st, used, g0, i, K, x, NBlocks - 1)
  PROVE  SearchedFor(st, used, g0, i, K, x) /\ (x.met = FALSE => K = {})
<1>1. \A r \in K : ~ (r > NBlocks - 1)
  <2>1. \A r \in K : r \in Block
    BY DEF Findable, HeadsIn
  <2>2. \A r \in Block : ~ (r > NBlocks - 1)
    BY Sizes DEF Block
  <2> QED
    BY <2>1, <2>2
<1>2. x.met = FALSE => K = {} /\ x.cur = i
  BY <1>1 DEF Searching
<1>3. x.met = FALSE \/ {i} \cup K \subseteq x.garbage \cup {x.cur}
  BY DEF Searching
<1>4. {i} \cup K \subseteq x.garbage \cup {x.cur}
  BY <1>2, <1>3
<1>6. IsNewest(st, {i} \cup K, x.cur)
  <2>1. CASE x.met = FALSE
    BY <1>2, <2>1 DEF IsNewest
  <2>2. CASE x.met # FALSE
    BY <2>2 DEF Searching
  <2> QED
    BY <2>1, <2>2
<1>5. x.cur \notin x.garbage
  <2>1. x.cur \in {i} \cup K
    BY DEF Searching
  <2>2. x.cur \in HeadsIn(st) /\ x.cur \notin g0
    BY <2>1 DEF Findable
  <2>3. st[x.cur].ok
    BY <2>2 DEF HeadsIn, IsReadable
  <2> QED
    BY <2>2, <2>3 DEF Searching
<1> QED
  BY <1>2, <1>4, <1>5, <1>6 DEF Searching, SearchedFor

LEMMA RivalsFound ==
  ASSUME StorageAssumption, NEW st, IsStorage(st), FewRivals(st), NEW n \in Nat,
         NEW U, NEW G, U \subseteq Block, G \subseteq Block, \A b \in U : st[b].ok,
         HeadsMarked(st, U, G, n),
         NEW i \in HeadsIn(st), i = n + 1, i \notin U \cup G,
         NEW start, IsSearch(start), start.used = U, start.garbage = G, start.cur = i,
         start.met = FALSE, start.ok = TRUE,
         NEW heads, heads = {b \in Block : IsReadable(st[b], "head")},
         NEW byNext, byNext = SearchRivals(st, start, i, {b \in Block : st[b].next = st[i].next}, heads),
         NEW byName, byName = SearchRivals(st, byNext, i,
                       {b \in Block : st[b].type = "head" /\ st[b].hash = st[i].hash},
                       {b \in heads : NameOf(st[b]) = NameOf(st[i])})
  PROVE  SearchedFor(st, U, G, i, RivalsOf(st, i), IF byNext.met THEN byNext ELSE byName)
<1> DEFINE R == RivalsOf(st, i)
           K1 == {r \in R : st[r].next = st[i].next}
           K2 == {r \in R : NameOf(st[r]) = NameOf(st[i])}
           looked1 == {b \in Block : st[b].next = st[i].next}
           looked2 == {b \in Block : st[b].type = "head" /\ st[b].hash = st[i].hash}
           rivals2 == {b \in heads : NameOf(st[b]) = NameOf(st[i])}
           m == NBlocks - 1
<1>1. \A r \in R : r \in HeadsIn(st) /\ Rivals(st, i, r) /\ Rivals(st, r, i) /\ r # i
  BY DEF RivalsOf, Rivals
<1>2. \A r \in R : r \notin U \cup G
  BY <1>1 DEF HeadsMarked
<1>3. ASSUME NEW r \in R PROVE r > i
  <2>1. ~ (r <= n) /\ r # i
    BY <1>1, <1>2 DEF HeadsMarked
  <2>2. r \in Nat
    BY <1>1 DEF HeadsIn, Block
  <2> QED
    BY <2>1, <2>2
<1>4. \A r \in R : VersionOf(st[r]) # VersionOf(st[i])
  BY <1>1 DEF FewRivals
<1>5. \A r, s \in R : r = s
  BY <1>1 DEF FewRivals
<1>6. heads = HeadsIn(st)
  BY DEF HeadsIn
<1>7. ASSUME NEW b \in Block, b > i
      PROVE  /\ b \in K1 <=> b \in looked1 /\ b \in heads
             /\ b \in K2 <=> b \in looked2 /\ b \in rivals2
  <2>1. b # i
    <3>1. i \in Nat
      BY DEF HeadsIn, Block
    <3> QED
      BY <1>7, <3>1
  <2>2. b \in K1 <=> b \in looked1 /\ b \in heads
    BY <1>6, <2>1 DEF RivalsOf, Rivals
  <2>3. \A h \in HeadsIn(st) : st[h].type = "head" /\ st[h].hash = Hash[NameOf(st[h])]
    BY StorageFields, ContentFields DEF HeadsIn, IsReadable
  <2>4. b \in K2 <=> b \in looked2 /\ b \in rivals2
    BY <1>6, <2>1, <2>3 DEF RivalsOf, Rivals
  <2> QED
    BY <2>2, <2>4
<1>8. R = K1 \cup K2
  BY <1>1 DEF Rivals
<1>9. K1 \subseteq R /\ K2 \subseteq R
  OBVIOUS
<1>10. byNext = SearchRivals(st, start, i, looked1, heads)
       /\ byName = SearchRivals(st, byNext, i, looked2, rivals2)
  OBVIOUS
<1> HIDE DEF R, K1, K2, looked1, looked2, rivals2
<1>11. ASSUME NEW K, K \subseteq R PROVE Findable(st, U, G, i, K)
  BY <1>1, <1>2, <1>3, <1>4, <1>5, <1>11 DEF Findable
<1>12. ASSUME NEW b \in Block, b > i
       PROVE  (b \in K1 <=> b \in looked1 /\ b \in heads)
              /\ (b \in K2 <=> b \in looked2 /\ b \in rivals2)
  BY <1>7, <1>12
<1>13. Findable(st, U, G, i, K1) /\ Findable(st, U, G, i, K2)
  BY <1>9, <1>11
<1>14. Searching(st, U, G, i, K1, start, i)
  BY <1>2, <1>3, <1>9 DEF Searching
<1>15. Searching(st, U, G, i, K1, byNext, m)
  BY <1>10, <1>12, <1>13, <1>14, SearchFinds
<1>16. SearchedFor(st, U, G, i, K1, byNext) /\ (byNext.met = FALSE => K1 = {})
  BY <1>13, <1>15, SearchEnds
<1>17. byNext.met \in BOOLEAN
  BY <1>15 DEF Searching
<1>18. CASE byNext.met = TRUE
  <2>1. \E r \in K1 : TRUE
    BY <1>15, <1>18 DEF Searching
  <2>2. R = K1
    BY <1>5, <1>9, <2>1
  <2> QED
    BY <1>16, <1>18, <2>2 DEF R
<1>19. CASE byNext.met = FALSE
  <2>1. K1 = {} /\ R = K2
    BY <1>8, <1>16, <1>19
  <2>2. byNext.cur = i /\ IsSearch(byNext) /\ byNext.ok = TRUE /\ byNext.used = U
        /\ G \subseteq byNext.garbage /\ byNext.garbage \subseteq Block
    BY <1>15, <1>19 DEF Searching
  <2>3. \A b \in byNext.garbage \ G : b \notin U /\ ~st[b].ok
    <3>1. \A b \in byNext.garbage \ G : b \notin U /\ (st[b].ok => b \in {i} \cup K1 /\ b # byNext.cur)
      BY <1>15 DEF Searching
    <3> QED
      BY <2>1, <2>2, <3>1
  <2>4. \A r \in K2 : r > i /\ r \notin byNext.garbage
    <3>1. \A r \in K2 : st[r].ok /\ r \notin G /\ r > i
      BY <1>1, <1>2, <1>3, <1>9 DEF HeadsIn, IsReadable
    <3> QED
      BY <2>3, <3>1
  <2>5. Searching(st, U, G, i, K2, byNext, i)
    BY <1>19, <2>2, <2>3, <2>4 DEF Searching
  <2>6. Searching(st, U, G, i, K2, byName, m)
    BY <1>10, <1>12, <1>13, <2>5, SearchFinds
  <2>7. SearchedFor(st, U, G, i, K2, byName)
    BY <1>13, <2>6, SearchEnds
  <2> QED
    BY <1>19, <2>1, <2>7 DEF R
<1> QED
  BY <1>17, <1>18, <1>19
(* Of two rivals that is the newest one that counts. *)
LEMMA NewestCounts ==
  ASSUME StorageAssumption, NEW st, FewRivals(st), NEW H, NEW C, Alive(st, H, C),
         NEW i \in HeadsIn(st), NEW cur \in {i} \cup RivalsOf(st, i),
         IsNewest(st, {i} \cup RivalsOf(st, i), cur)
  PROVE  /\ cur \in H
         /\ \A h \in H : h \in {i} \cup RivalsOf(st, i) => h = cur
<1> DEFINE R == RivalsOf(st, i)
<1>1. \A r \in R : r \in HeadsIn(st) /\ Rivals(st, i, r) /\ Rivals(st, r, i)
  BY DEF RivalsOf, Rivals
<1>2. \A a, b \in {i} \cup R : a # b => Rivals(st, a, b)
  BY <1>1 DEF FewRivals
<1>3. cur \in HeadsIn(st) /\ IsStorage(st) /\ H \subseteq HeadsIn(st)
  BY <1>1 DEF Alive, Intact
<1>4. ASSUME cur \notin H PROVE FALSE
  <2>1. PICK h \in H : Rivals(st, cur, h)
    BY <1>3, <1>4 DEF Alive
  <2>2. Loses(st, cur, h) /\ h # cur
    BY <1>3, <1>4, <2>1 DEF Alive
  <2>3. h \in {i} \cup R
    <3>1. CASE cur = i
      BY <1>3, <2>1, <3>1 DEF RivalsOf
    <3>2. CASE cur \in R
      BY <1>1, <1>3, <2>1, <3>2 DEF FewRivals
    <3> QED
      BY <3>1, <3>2
  <2>4. Loses(st, h, cur)
    BY <2>2, <2>3 DEF IsNewest
  <2> QED
    BY <1>3, <2>2, <2>4, OneLoses
<1>5. ASSUME NEW h \in H, h \in {i} \cup R, h # cur PROVE FALSE
  BY <1>2, <1>4, <1>5 DEF Alive, Intact
<1> QED
  BY <1>4, <1>5

LEMMA HeadKept ==
  ASSUME StorageAssumption, NEW st, FewRivals(st), NEW i \in HeadsIn(st),
         NEW U, NEW G, Kept(st, U, G),
         \A r \in {i} \cup RivalsOf(st, i) : r \notin U \cup G,
         NEW found, SearchedFor(st, U, G, i, RivalsOf(st, i), found),
         NEW done, done = ExamineSection(st, found, found.cur)
  PROVE  Kept(st, done.used, done.garbage)
<1> SUFFICES ASSUME NEW H, NEW C, Alive(st, H, C)
             PROVE  \A h \in H : /\ ToSet(C[h]) \cap done.garbage = {}
                                 /\ ToSet(C[h]) \subseteq done.used \/ ToSet(C[h]) \cap done.used = {}
  BY DEF Kept
<1> DEFINE R == RivalsOf(st, i)
           cur == found.cur
           c == C[cur]
           g == found.garbage
<1>1. \A h \in H : ToSet(C[h]) \cap G = {} /\ (ToSet(C[h]) \subseteq U \/ ToSet(C[h]) \cap U = {})
  BY DEF Kept
<1>2. /\ IsSearch(found) /\ found.used = U /\ cur \in {i} \cup R /\ cur \notin g
      /\ \A b \in g \ G : st[b].ok => b \in {i} \cup R
      /\ IsNewest(st, {i} \cup R, cur)
  BY DEF SearchedFor
<1>3. cur \in H /\ \A h \in H : h \in {i} \cup R => h = cur
  BY <1>2, NewestCounts
<1>4. ASSUME NEW h \in H PROVE C[h][1] = h /\ IsSection(st, C[h]) /\ IsDistinct(C[h])
  BY DEF Alive, Intact
<1>5. \A r \in {i} \cup R : r \in HeadsIn(st) /\ st[r].type = "head"
  BY DEF RivalsOf, HeadsIn, IsReadable
<1>6. cur \notin U \cup G
  BY <1>2
<1>7. ASSUME NEW h \in H, NEW b \in ToSet(C[h]), b \in g PROVE FALSE
  <2>1. b \notin G
    BY <1>1, <1>7
  <2>2. st[b].ok /\ st[b].type = IF b = h THEN "head" ELSE "data"
    BY <1>4, SectionBlocks
  <2>3. b \in {i} \cup R
    BY <1>2, <1>7, <2>1, <2>2
  <2>4. b = h
    BY <1>5, <2>2, <2>3
  <2> QED
    BY <1>2, <1>3, <1>7, <2>3, <2>4
<1> HIDE DEF R, cur, g
<1>8. IsSection(st, c) /\ IsDistinct(c) /\ cur = c[1] /\ cur \in ToSet(c)
  BY <1>3, <1>4, SectionBlocks
<1>9. ToSet(c) \cap U = {}
  BY <1>1, <1>3, <1>6, <1>8
<1>10. ToSet(c) \cap (found.used \cup found.garbage) = {}
  BY <1>2, <1>3, <1>7, <1>9 DEF g
<1>11. done = ExamineSection(st, found, cur)
  BY DEF cur
<1>12. \A h \in H : h # cur => ToSet(C[h]) \cap ToSet(c) = {}
  BY <1>3 DEF Alive, Intact
<1> HIDE DEF c
<1>13. done.used = U \cup ToSet(c) /\ done.garbage = g
  <2>1. IsSearch(found) /\ found.used = U /\ found.garbage = g
    BY <1>2 DEF g
  <2>2. done.used = found.used \cup ToSet(c) /\ done.garbage = found.garbage
    BY <1>8, <1>10, <1>11, <2>1, SectionKept
  <2> QED
    BY <2>1, <2>2
<1>14. ASSUME NEW h \in H
       PROVE  /\ ToSet(C[h]) \cap done.garbage = {}
              /\ ToSet(C[h]) \subseteq done.used \/ ToSet(C[h]) \cap done.used = {}
  <2>1. ToSet(C[h]) \cap done.garbage = {}
    BY <1>7, <1>13
  <2>2. CASE h = cur
    BY <1>13, <2>1, <2>2 DEF c
  <2>3. CASE h # cur
    BY <1>1, <1>12, <1>13, <2>1, <2>3
  <2> QED
    BY <2>2, <2>3
<1> QED
  BY <1>14

(* Neither do damaged blocks and free ones belong to them.                 *)
LEMMA OthersKept ==
  ASSUME NEW st, NEW U, NEW G, Kept(st, U, G), NEW U2, NEW G2,
         \A b \in U2 : b \in U \/ Aside(st, b),
         \A b \in G2 : b \in G \/ Aside(st, b),
         U \subseteq U2
  PROVE  Kept(st, U2, G2)
<1> SUFFICES ASSUME NEW H, NEW C, Alive(st, H, C), NEW h \in H
             PROVE  /\ ToSet(C[h]) \cap G2 = {}
                    /\ ToSet(C[h]) \subseteq U2 \/ ToSet(C[h]) \cap U2 = {}
  BY DEF Kept
<1>1. ToSet(C[h]) \cap G = {} /\ (ToSet(C[h]) \subseteq U \/ ToSet(C[h]) \cap U = {})
  BY DEF Kept
<1>2. \A b \in ToSet(C[h]) : st[b].ok /\ st[b].type # "free"
  <2>1. IsSection(st, C[h])
    BY DEF Alive, Intact
  <2> QED
    BY <2>1, SectionBlocks
<1> QED
  BY <1>1, <1>2 DEF Aside

LEMMA HeadScanned ==
  ASSUME StorageAssumption, NEW st, IsStorage(st), FewRivals(st), NEW n \in Nat,
         NEW x, Scanned(st, x, n), NEW i \in HeadsIn(st), i = n + 1, i \notin x.used \cup x.garbage
  PROVE  Scanned(st, ScanHead(st, x, i), i)
<1> DEFINE U == x.used
           G == x.garbage
           head == st[i]
           start == [used |-> x.used, garbage |-> x.garbage, cur |-> i, met |-> FALSE, ok |-> TRUE]
           heads == {b \in Block : IsReadable(st[b], "head")}
           byNext == SearchRivals(st, start, i, {b \in Block : st[b].next = head.next}, heads)
           byName == SearchRivals(st, byNext, i,
                       {b \in Block : st[b].type = "head" /\ st[b].hash = head.hash},
                       {b \in heads : NameOf(st[b]) = NameOf(head)})
           found == IF byNext.met THEN byNext ELSE byName
           done == IF found.ok THEN ExamineSection(st, found, found.cur) ELSE found
           y == [x EXCEPT !.used = done.used, !.garbage = done.garbage, !.ok = done.ok]
           R == RivalsOf(st, i)
<1>1. ScanHead(st, x, i) = y
  BY DEF ScanHead
<1>2. PICK H, C : ScanShape(st, U, G, x.list, H, C)
  BY DEF Scanned
<1>3. U \cap G = {} /\ G \subseteq Block
  BY <1>2 DEF ScanShape
<1>4. \A b \in U : b \in Block /\ st[b].ok
  BY <1>2, ShapeBlocks
<1>5. U \subseteq Block
  BY <1>4
<1>6. HeadsMarked(st, U, G, n)
  BY DEF Scanned
<1>7. IsSearch(start) /\ start.used = U /\ start.garbage = G /\ start.cur = i
      /\ start.met = FALSE /\ start.ok = TRUE
  BY DEF IsSearch
<1>8. /\ heads = {b \in Block : IsReadable(st[b], "head")}
      /\ byNext = SearchRivals(st, start, i, {b \in Block : st[b].next = st[i].next}, heads)
      /\ byName = SearchRivals(st, byNext, i,
                       {b \in Block : st[b].type = "head" /\ st[b].hash = st[i].hash},
                       {b \in heads : NameOf(st[b]) = NameOf(st[i])})
  OBVIOUS
<1>9. i \notin U \cup G
  OBVIOUS
<1> HIDE DEF start, heads, byNext, byName, U, G, R
<1>10. SearchedFor(st, U, G, i, R, found)
  BY <1>3, <1>4, <1>5, <1>6, <1>7, <1>8, <1>9, RivalsFound DEF R
<1> HIDE DEF found
<1>11. /\ IsSearch(found) /\ found.ok = TRUE /\ found.used = U
       /\ G \subseteq found.garbage /\ found.garbage \subseteq Block
       /\ found.cur \in {i} \cup R /\ found.cur \notin found.garbage
       /\ \A b \in found.garbage \ G : b \notin U /\ (st[b].ok => b \in {i} \cup R)
       /\ {i} \cup R \subseteq found.garbage \cup {found.cur}
  BY <1>10 DEF SearchedFor
<1>12. \A r \in R : r \in HeadsIn(st) /\ r \notin U \cup G
  <2>1. \A r \in R : r \in HeadsIn(st) /\ Rivals(st, r, i)
    BY DEF R, RivalsOf, Rivals
  <2> QED
    BY <2>1, <1>6, <1>9 DEF HeadsMarked
<1> DEFINE cur == found.cur
<1>13. cur \in HeadsIn(st) /\ cur \notin U \cup G /\ cur \in {i} \cup R
  BY <1>9, <1>11, <1>12
<1>14. \A b \in found.used : st[b].ok
  BY <1>4, <1>11
<1>15. cur \notin found.used \cup found.garbage
  BY <1>11, <1>13
<1>16. done = ExamineSection(st, found, cur)
  BY <1>11
<1> HIDE DEF done
<1>17. Examined(st, found, cur, done)
  <2>1. cur = found.cur
    OBVIOUS
  <2> HIDE DEF cur
  <2>2. Examined(st, found, cur, ExamineSection(st, found, cur))
    BY <1>11, <1>13, <1>14, <1>15, SectionExamined
  <2> QED
    BY <2>2, <1>16
<1> HIDE DEF cur
<1>18. done.ok = TRUE
  BY <1>17 DEF Examined
<1>19. IsScan(x)
  BY DEF Scanned
<1>20. ScanIs(y, done.used, done.garbage, x.list, done.ok)
  BY <1>19, ScanDone
<1> HIDE DEF y
<1>21. IsScan(y) /\ y.used = done.used /\ y.garbage = done.garbage /\ y.list = x.list /\ y.ok = TRUE
  BY <1>18, <1>20 DEF ScanIs
<1>22. ASSUME NEW b \in HeadsIn(st), b \in found.garbage PROVE b \in U \cup G \/ b = i \/ b \in R
  BY <1>11, <1>22 DEF HeadsIn, IsReadable
<1>23. {i} \cup R \subseteq found.garbage \cup {cur}
  BY <1>11 DEF cur
<1>26. Kept(st, y.used, y.garbage)
  <2>1. Kept(st, U, G)
    BY DEF Scanned, U, G
  <2>2. \A r \in {i} \cup R : r \notin U \cup G
    BY <1>9, <1>12
  <2>3. done = ExamineSection(st, found, found.cur)
    BY <1>16 DEF cur
  <2>4. Kept(st, done.used, done.garbage)
    BY <1>10, <2>1, <2>2, <2>3, HeadKept DEF R
  <2> QED
    BY <1>21, <2>4
<1>24. CASE \E c : /\ IsSection(st, c) /\ IsDistinct(c) /\ c[1] = cur
                   /\ ToSet(c) \cap (found.used \cup found.garbage) = {}
                   /\ done.used = found.used \cup ToSet(c) /\ done.garbage = found.garbage
  <2>1. PICK c : /\ IsSection(st, c) /\ IsDistinct(c) /\ c[1] = cur
                 /\ ToSet(c) \cap (found.used \cup found.garbage) = {}
                 /\ done.used = found.used \cup ToSet(c) /\ done.garbage = found.garbage
    BY <1>24
  <2>2. \A b \in ToSet(c) : b \in HeadsIn(st) => b = cur
    BY <2>1, SectionBlocks DEF HeadsIn, IsReadable
  <2>3. cur \in ToSet(c)
    BY <2>1, SectionBlocks
  <2>4. /\ ToSet(c) \cap U = {} /\ y.used = U \cup ToSet(c) /\ y.garbage \subseteq Block
        /\ y.used \cap y.garbage = {}
    BY <1>3, <1>11, <1>21, <2>1
  <2>5. \E H2, C2 : ScanShape(st, y.used, y.garbage, x.list, H2, C2)
    BY <1>2, <2>1, <2>4, ShapeSection
  <2>6. U \subseteq y.used /\ G \subseteq y.garbage /\ {i} \cup R \subseteq y.used \cup y.garbage
    BY <1>11, <1>21, <1>23, <2>1, <2>3
  <2>7. \A b \in HeadsIn(st) : b \in y.used \cup y.garbage => b \in U \cup G \/ b = i \/ b \in R
    BY <1>13, <1>21, <1>22, <2>1, <2>2, <2>4
  <2>8. \A b \in HeadsIn(st) : b \in y.used => b \in U \/ b = cur
    BY <2>2, <2>4
  <2>9. HeadsMarked(st, y.used, y.garbage, i)
    BY <1>6, <1>9, <1>13, <2>6, <2>7, <2>8, NewHeadsMarked DEF R
  <2> QED
    BY <1>1, <1>21, <1>26, <2>5, <2>9 DEF Scanned
<1>25. CASE /\ done.used = found.used
            /\ found.garbage \subseteq done.garbage /\ done.garbage \subseteq Block /\ cur \in done.garbage
            /\ \A b \in done.garbage \ found.garbage :
                 b \notin found.used /\ (b \in HeadsIn(st) => b = cur)
  <2>1. y.used = U /\ y.garbage \subseteq Block /\ U \cap y.garbage = {}
    BY <1>3, <1>11, <1>21, <1>25
  <2>2. ScanShape(st, U, y.garbage, x.list, H, C)
    BY <1>2, <2>1, ShapeGarbage
  <2>3. U \subseteq y.used /\ G \subseteq y.garbage /\ {i} \cup R \subseteq y.used \cup y.garbage
    BY <1>11, <1>21, <1>23, <1>25
  <2>4. \A b \in HeadsIn(st) : b \in y.used \cup y.garbage => b \in U \cup G \/ b = i \/ b \in R
    BY <1>13, <1>21, <1>22, <1>25, <2>1
  <2>5. \A b \in HeadsIn(st) : b \in y.used => b \in U \/ b = cur
    BY <2>1
  <2>6. HeadsMarked(st, y.used, y.garbage, i)
    BY <1>6, <1>9, <1>13, <2>3, <2>4, <2>5, NewHeadsMarked DEF R
  <2> QED
    BY <1>1, <1>21, <1>26, <2>1, <2>2, <2>6 DEF Scanned
<1> QED
  BY <1>17, <1>24, <1>25 DEF Examined

LEMMA FreeRunJoined ==
  ASSUME NEW st, NEW l, NEW F, IsFreeRun(st, l, F), F # <<>>,
         NEW c \in Seq(Block), c # <<>>, IsDistinct(c), IsLinked(st, c),
         \A i \in 1..Len(c) : IsReadable(st[c[i]], "free"),
         ToSet(c) \cap ToSet(F) = {}, st[c[Len(c)]].next = F[1],
         NEW l2, l2 = [n |-> Len(F) + Len(c), head |-> c[1], end |-> F[Len(F)]]
  PROVE  IsFreeRun(st, l2, c \o F) /\ ToSet(c \o F) = ToSet(F) \cup ToSet(c)
<1> DEFINE d == c \o F
<1>1. F \in Seq(Block) /\ IsDistinct(F) /\ IsLinked(st, F)
      /\ \A i \in 1..Len(F) : IsReadable(st[F[i]], "free")
  BY DEF IsFreeRun
<1>2. /\ d \in Seq(Block) /\ Len(d) = Len(c) + Len(F) /\ Len(c) \in Nat /\ Len(F) \in Nat
      /\ \A i \in 1..Len(c) : d[i] = c[i]
      /\ \A i \in 1..Len(F) : d[Len(c) + i] = F[i]
      /\ \A i \in 1..Len(d) : i \notin 1..Len(c) => i - Len(c) \in 1..Len(F) /\ d[i] = F[i - Len(c)]
  BY <1>1, Concat
<1>3. IsDistinct(d) /\ ToSet(d) = ToSet(c) \cup ToSet(F)
  BY <1>1, DistinctBoth, SetOfBoth
<1> HIDE DEF d
<1>4. Len(c) >= 1 /\ Len(F) >= 1
  BY <1>1
<1>5. \A i \in 1..Len(d) : IsReadable(st[d[i]], "free")
  <2> TAKE i \in 1..Len(d)
  <2>1. CASE i \in 1..Len(c)
    BY <1>2, <2>1
  <2>2. CASE i \notin 1..Len(c)
    BY <1>1, <1>2, <2>2
  <2> QED
    BY <2>1, <2>2
<1>6. ASSUME NEW k \in 1..(Len(d) - 1) PROVE st[d[k]].next = d[k + 1]
  <2>1. CASE k < Len(c)
    <3>1. k \in 1..(Len(c) - 1) /\ k \in 1..Len(c) /\ k + 1 \in 1..Len(c)
      BY <1>2, <2>1
    <3> QED
      BY <1>2, <3>1 DEF IsLinked
  <2>2. CASE k = Len(c)
    <3>1. k \in 1..Len(c) /\ 1 \in 1..Len(F)
      BY <1>2, <1>4, <2>2
    <3>2. d[k] = c[Len(c)] /\ d[k + 1] = F[1]
      BY <1>2, <2>2, <3>1
    <3> QED
      BY <3>2
  <2>3. CASE k > Len(c)
    <3> DEFINE j == k - Len(c)
    <3>1. j \in 1..(Len(F) - 1) /\ j \in 1..Len(F) /\ j + 1 \in 1..Len(F)
          /\ k = Len(c) + j /\ k + 1 = Len(c) + (j + 1)
      BY <1>2, <2>3
    <3> HIDE DEF j
    <3>2. d[k] = F[j] /\ d[k + 1] = F[j + 1]
      BY <1>2, <3>1
    <3> QED
      BY <1>1, <3>1, <3>2 DEF IsLinked
  <2> QED
    BY <1>2, <2>1, <2>2, <2>3
<1>7. d # <<>> /\ d[1] = c[1] /\ d[Len(d)] = F[Len(F)]
  <2>1. 1 \in 1..Len(c) /\ Len(F) \in 1..Len(F) /\ Len(d) # 0
    BY <1>2, <1>4
  <2> QED
    BY <1>2, <2>1
<1>8. l2 = [n |-> Len(d), head |-> d[1], end |-> d[Len(d)]]
  BY <1>2, <1>7
<1>9. IsLinked(st, d)
  BY <1>6 DEF IsLinked
<1>10. IsFreeRun(st, l2, d)
  BY <1>2, <1>3, <1>5, <1>7, <1>8, <1>9 DEF IsFreeRun
<1> QED
  BY <1>3, <1>10 DEF d

(* No head was marked, and block n + 1 is none.                            *)
LEMMA ScannedOne ==
  ASSUME NEW st, NEW n \in Nat, NEW x, Scanned(st, x, n), n + 1 \notin HeadsIn(st),
         NEW y, NEW u, NEW g, NEW l, ScanIs(y, u, g, l, TRUE),
         \E H, C : ScanShape(st, u, g, l, H, C),
         x.used \subseteq u, x.garbage \subseteq g,
         \A b \in u : b \in x.used \/ Aside(st, b),
         \A b \in g : b \in x.garbage \/ Aside(st, b)
  PROVE  Scanned(st, y, n + 1)
<1>1. IsScan(y) /\ y.used = u /\ y.garbage = g /\ y.list = l /\ y.ok = TRUE
  BY DEF ScanIs
<1>2. HeadsMarked(st, x.used, x.garbage, n)
  BY DEF Scanned
<1>0. \A b \in HeadsIn(st) : ~ Aside(st, b)
  BY DEF HeadsIn, IsReadable, Aside
<1>3. \A b \in u \cup g : b \in HeadsIn(st) => b \in x.used \cup x.garbage
  BY <1>0
<1>4. \A b \in u : b \in HeadsIn(st) => b \in x.used
  BY <1>0
<1>6. Kept(st, u, g)
  <2>1. Kept(st, x.used, x.garbage)
    BY DEF Scanned
  <2> QED
    BY <2>1, OthersKept
<1>5. HeadsMarked(st, u, g, n + 1)
  BY <1>2, <1>3, <1>4, NoHeadMarked
<1> QED
  BY <1>1, <1>5, <1>6 DEF Scanned

LEMMA FreeScanned ==
  ASSUME StorageAssumption, NEW st, IsStorage(st), NEW n \in Nat,
         NEW x, Scanned(st, x, n), NEW i \in Block, i = n + 1, i \notin x.used \cup x.garbage,
         IsReadable(st[i], "free")
  PROVE  Scanned(st, ScanFree(st, x, i), i)
<1> DEFINE U == x.used
           G == x.garbage
           l == x.list
           nth == Follow(st, i)
           Q == {k \in 1..(NBlocks - 1) : /\ nth[k + 1] # x.list.head
                                          /\ nth[k + 1] \notin x.used \cup x.garbage
                                          /\ IsReadable(st[nth[k + 1]], "free")}
           c == [k \in 1..RunLength(Goes(st, i, Q)) |-> nth[k]]
           stop == st[Last(c)].next
           joins == stop = x.list.head
           clash == stop # NoBlock /\ ~joins /\ IsReadable(st[stop], "free")
           garbage == [x EXCEPT !.garbage = @ \cup ToSet(c)]
           used == [x EXCEPT !.used = @ \cup ToSet(c)]
           y == ScanFree(st, x, i)
<1>1. Goes(st, i, Q) =
        {k \in 1..(NBlocks - 1) :
           /\ nth[k + 1] # NoBlock
           /\ \A j \in 1..k : nth[j] # nth[k + 1]
           /\ /\ nth[k + 1] # x.list.head
              /\ nth[k + 1] \notin x.used \cup x.garbage
              /\ IsReadable(st[nth[k + 1]], "free")}
  BY Zenon DEF Goes
<1>2. y = IF clash THEN garbage
          ELSE IF x.list.n = 0
          THEN [used EXCEPT !.list = [n |-> Len(c), head |-> i, end |-> Last(c)]]
          ELSE IF joins THEN [used EXCEPT !.list.n = @ + Len(c), !.list.head = i]
          ELSE garbage
  BY <1>1 DEF ScanFree, ChainFrom
<1>3. IsRunOf(c, st, i, Goes(st, i, Q))
  BY DEF IsRunOf
<1>4. \A k \in Q : nth[k + 1] \notin U \cup G /\ IsReadable(st[nth[k + 1]], "free")
  OBVIOUS
<1>5. Linked(st)
  BY StorageLinked
<1> HIDE DEF Q, c, nth, y, U, G
<1>6. ChainAlong(st, i, Q, c)
  BY <1>3, <1>5, ChainGoes
<1>7. /\ c \in Seq(Block) /\ c # <<>> /\ Len(c) \in Nat /\ Len(c) >= 1 /\ c[1] = i
      /\ IsDistinct(c) /\ IsLinked(st, c) /\ Last(c) = c[Len(c)] /\ Last(c) \in Block
  BY <1>6 DEF ChainAlong
<1>8. ASSUME NEW k \in 1..Len(c) PROVE c[k] \notin U \cup G /\ IsReadable(st[c[k]], "free")
  <2>1. CASE k = 1
    BY <1>7, <2>1 DEF U, G
  <2>2. CASE k # 1
    <3>1. k - 1 \in 1..(Len(c) - 1) /\ (k - 1) + 1 = k
      BY <1>7, <2>2
    <3>2. k - 1 \in Q /\ nth[k] = c[k]
      BY <1>6, <3>1 DEF ChainAlong, nth
    <3> QED
      BY <1>4, <3>1, <3>2
  <2> QED
    BY <2>1, <2>2
<1>9. ASSUME NEW b \in ToSet(c) PROVE b \in Block /\ b \notin U \cup G /\ Aside(st, b)
  <2>1. PICK k \in 1..Len(c) : c[k] = b
    BY <1>7, SetOf
  <2>2. b \in Block
    BY <1>7, SetOf
  <2>3. b \notin U \cup G /\ st[b].type = "free"
    BY <1>8, <2>1 DEF IsReadable
  <2> QED
    BY <2>2, <2>3 DEF Aside
<1>10. PICK H, C : ScanShape(st, U, G, l, H, C)
  BY DEF Scanned, U, G
<1>11. IsScan(x) /\ x.ok = TRUE
  BY DEF Scanned
<1>12. n + 1 \notin HeadsIn(st)
  BY DEF HeadsIn, IsReadable
<1>13. U \cap G = {} /\ G \subseteq Block /\ IsFreeRun(st, l, C[0])
  BY <1>10 DEF ScanShape
<1> DEFINE F == C[0]
           X == ToSet(c)
<1>14. X \cap (U \cup G) = {} /\ X \subseteq Block /\ \A b \in X : Aside(st, b)
  BY <1>9
<1>15. ToSet(F) \subseteq U
  BY <1>10, ShapeBlocks
<1> HIDE DEF F, X, stop
<1>16. ASSUME y = garbage PROVE Scanned(st, y, i)
  <2>1. ScanIs(y, x.used, x.garbage \cup ToSet(c), x.list, x.ok)
    BY <1>11, <1>16, ScanGarbage
  <2>2. ScanIs(y, U, G \cup X, l, TRUE)
    BY <1>11, <2>1 DEF U, G, X
  <2>3. ScanShape(st, U, G \cup X, l, H, C)
    BY <1>10, <1>13, <1>14, ShapeGarbage
  <2> HIDE DEF y, l
  <2>4. Scanned(st, y, n + 1)
    <3>1. \A b \in G \cup X : b \in x.garbage \/ Aside(st, b)
      BY <1>14 DEF G
    <3>2. x.used \subseteq U /\ x.garbage \subseteq G \cup X /\ \A b \in U : b \in x.used \/ Aside(st, b)
      BY DEF U, G
    <3>3. \E H2, C2 : ScanShape(st, U, G \cup X, l, H2, C2)
      BY <2>3
    <3> QED
      BY <1>12, <2>2, <3>1, <3>2, <3>3, ScannedOne
  <2> QED
    BY <2>4
<1>17. ASSUME NEW l2, NEW F2, IsFreeRun(st, l2, F2), ToSet(F2) = ToSet(F) \cup X,
              ScanIs(y, x.used \cup ToSet(c), x.garbage, l2, TRUE)
       PROVE  Scanned(st, y, i)
  <2>1. ScanIs(y, U \cup X, G, l2, TRUE)
    BY <1>17 DEF U, G, X
  <2>2. \E H2, C2 : ScanShape(st, U \cup X, G, l2, H2, C2)
    BY <1>10, <1>14, <1>17, ShapeFree DEF F
  <2>3. \A b \in G : b \in x.garbage \/ Aside(st, b)
    BY DEF G
  <2>4. x.used \subseteq U \cup X /\ x.garbage \subseteq G /\ \A b \in U \cup X : b \in x.used \/ Aside(st, b)
    BY <1>14 DEF U, G
  <2>5. Scanned(st, y, n + 1)
    BY <1>12, <2>1, <2>2, <2>3, <2>4, ScannedOne
  <2> QED
    BY <2>5
<1>18. ScanIs(used, x.used \cup ToSet(c), x.garbage, x.list, x.ok)
  BY <1>11, ScanUsed
<1>19. IsScan(used) /\ used.used = x.used \cup ToSet(c) /\ used.garbage = x.garbage
       /\ used.list = x.list /\ used.ok = TRUE
  BY <1>11, <1>18 DEF ScanIs
<1> HIDE DEF used
<1>20. CASE ~clash /\ x.list.n = 0
  <2> DEFINE l2 == [n |-> Len(c), head |-> i, end |-> Last(c)]
  <2>1. y = [used EXCEPT !.list = l2]
    BY <1>2, <1>20
  <2>2. l2 = [n |-> Len(c), head |-> c[1], end |-> c[Len(c)]]
    BY <1>7
  <2> HIDE DEF l2
  <2>3. ScanIs(y, used.used, used.garbage, l2, used.ok)
    BY <1>19, <2>1, ScanList
  <2>4. ScanIs(y, x.used \cup ToSet(c), x.garbage, l2, TRUE)
    BY <1>19, <2>3
  <2>5. IsFreeRun(st, l2, c)
    BY <1>7, <1>8, <2>2 DEF IsFreeRun
  <2>6. F = <<>>
    <3>1. SUFFICES ASSUME F # <<>> PROVE FALSE
      OBVIOUS
    <3>2. F \in Seq(Block) /\ l.n = Len(F)
      BY <1>13, <3>1 DEF IsFreeRun, F
    <3>3. Len(F) # 0
      BY <3>1, <3>2
    <3> QED
      BY <1>20, <3>2, <3>3
  <2>7. ToSet(F) = {}
    BY <2>6 DEF ToSet
  <2>8. ToSet(c) = ToSet(F) \cup X
    BY <2>7 DEF X
  <2>9. Scanned(st, y, i)
    BY <1>17, <2>4, <2>5, <2>8
  <2> QED
    BY <2>9 DEF y
<1>21. CASE ~clash /\ x.list.n # 0 /\ joins
  <2>1. y = [used EXCEPT !.list.n = @ + Len(c), !.list.head = i]
    BY <1>2, <1>21
  <2>2. F # <<>>
    <3>1. F = <<>> => l.n = 0
      BY <1>13 DEF IsFreeRun, F, EmptyList
    <3> QED
      BY <1>21, <3>1
  <2>3. l = [n |-> Len(F), head |-> F[1], end |-> F[Len(F)]]
    BY <1>13, <2>2 DEF IsFreeRun, F
  <2>4. used.list = [n |-> Len(F), head |-> F[1], end |-> F[Len(F)]]
    BY <1>19, <2>3
  <2> DEFINE l2 == [n |-> Len(F) + Len(c), head |-> i, end |-> F[Len(F)]]
  <2>5. ScanIs(y, used.used, used.garbage, l2, used.ok)
    BY <1>19, <2>1, <2>4, ScanJoined
  <2>6. ScanIs(y, x.used \cup ToSet(c), x.garbage, l2, TRUE)
    BY <1>19, <2>5
  <2>7. l2 = [n |-> Len(F) + Len(c), head |-> c[1], end |-> F[Len(F)]]
    BY <1>7
  <2>8. st[c[Len(c)]].next = F[1]
    BY <1>7, <1>21, <2>3 DEF stop
  <2>9. ToSet(c) \cap ToSet(F) = {}
    BY <1>14, <1>15 DEF X
  <2>10. IsFreeRun(st, l, F)
    BY <1>13 DEF F
  <2> HIDE DEF l2, l
  <2>11. \A k \in 1..Len(c) : IsReadable(st[c[k]], "free")
    BY <1>8
  <2>12. IsFreeRun(st, l2, c \o F) /\ ToSet(c \o F) = ToSet(F) \cup ToSet(c)
    BY <1>7, <2>2, <2>7, <2>8, <2>9, <2>10, <2>11, FreeRunJoined
  <2>13. ToSet(c \o F) = ToSet(F) \cup X
    BY <2>12 DEF X
  <2>14. Scanned(st, y, i)
    BY <1>17, <2>6, <2>12, <2>13
  <2> QED
    BY <2>14 DEF y
<1> HIDE DEF clash, joins
<1> QED
  <2>1. CASE y = garbage
    BY <1>16, <2>1 DEF y
  <2>2. CASE y # garbage
    <3>1. ~clash /\ (x.list.n = 0 \/ joins)
      BY <1>2, <2>2
    <3> QED
      BY <3>1, <1>20, <1>21
  <2> QED
    BY <2>1, <2>2

LEMMA BlockScanned ==
  ASSUME StorageAssumption, NEW st, IsStorage(st), FewRivals(st), NEW n \in Nat,
         NEW x, Scanned(st, x, n), NEW i \in Block, i = n + 1
  PROVE  Scanned(st, ScanBlock(st, x, i), i)
<1> DEFINE y == ScanBlock(st, x, i)
<1>1. IsScan(x) /\ x.ok = TRUE
  BY DEF Scanned
<1>2. PICK H, C : ScanShape(st, x.used, x.garbage, x.list, H, C)
  BY DEF Scanned
<1>3. st[i].type \in {"free", "head", "data"}
  BY StorageFields
<1>4. CASE i \in x.used \cup x.garbage
  <2>1. ScanBlock(st, x, i) = x
    BY <1>4 DEF ScanBlock
  <2>2. HeadsMarked(st, x.used, x.garbage, n)
    BY DEF Scanned
  <2>3. HeadsMarked(st, x.used, x.garbage, n + 1)
    BY <1>4, <2>2, NoHeadMarked
  <2> QED
    BY <1>1, <1>2, <2>1, <2>3 DEF Scanned
<1>5. CASE i \notin x.used \cup x.garbage /\ st[i].type = "data"
  <2>1. ScanBlock(st, x, i) = x
    BY <1>5 DEF ScanBlock
  <2>2. HeadsMarked(st, x.used, x.garbage, n)
    BY DEF Scanned
  <2>3. i \notin HeadsIn(st)
    BY <1>5 DEF HeadsIn, IsReadable
  <2>4. HeadsMarked(st, x.used, x.garbage, n + 1)
    BY <2>2, <2>3, NoHeadMarked
  <2> QED
    BY <1>1, <1>2, <2>1, <2>4 DEF Scanned
<1>6. CASE i \notin x.used \cup x.garbage /\ st[i].type # "data" /\ ~st[i].ok
  <2>1. ScanBlock(st, x, i) = [x EXCEPT !.garbage = @ \cup {i}]
    BY <1>1, <1>6 DEF ScanBlock
  <2>2. ScanIs(ScanBlock(st, x, i), x.used, x.garbage \cup {i}, x.list, x.ok)
    BY <1>1, <2>1, ScanGarbage
  <2>3. i \notin HeadsIn(st)
    BY <1>6 DEF HeadsIn, IsReadable
  <2>4. ScanShape(st, x.used, x.garbage \cup {i}, x.list, H, C)
    <3>1. x.garbage \cup {i} \subseteq Block /\ x.used \cap (x.garbage \cup {i}) = {}
      BY <1>2, <1>6 DEF ScanShape
    <3> QED
      BY <1>2, <3>1, ShapeGarbage
  <2> DEFINE g == x.garbage \cup {i}
  <2>5. ScanIs(y, x.used, g, x.list, TRUE) /\ \E H2, C2 : ScanShape(st, x.used, g, x.list, H2, C2)
    BY <1>1, <2>2, <2>4
  <2>6. (\A b \in g : b \in x.garbage \/ Aside(st, b)) /\ x.garbage \subseteq g
    BY <1>6 DEF Aside
  <2> HIDE DEF y, g
  <2>7. Scanned(st, y, n + 1)
    BY <2>3, <2>5, <2>6, ScannedOne
  <2> QED
    BY <2>7 DEF y
<1>7. CASE i \notin x.used \cup x.garbage /\ st[i].ok /\ st[i].type = "free"
  <2>1. ScanBlock(st, x, i) = ScanFree(st, x, i)
    BY <1>1, <1>7 DEF ScanBlock
  <2>2. IsReadable(st[i], "free")
    BY <1>7 DEF IsReadable
  <2>3. i \notin x.used \cup x.garbage
    BY <1>7
  <2>4. Scanned(st, ScanFree(st, x, i), i)
    BY <2>2, <2>3, FreeScanned
  <2> QED
    BY <2>1, <2>4
<1>8. CASE i \notin x.used \cup x.garbage /\ st[i].ok /\ st[i].type = "head"
  <2>1. ScanBlock(st, x, i) = ScanHead(st, x, i)
    BY <1>1, <1>8 DEF ScanBlock
  <2>2. i \in HeadsIn(st)
    BY <1>8 DEF HeadsIn, IsReadable
  <2>3. i \notin x.used \cup x.garbage
    BY <1>8
  <2>4. Scanned(st, ScanHead(st, x, i), i)
    BY <2>2, <2>3, HeadScanned
  <2> QED
    BY <2>1, <2>4
<1> QED
  BY <1>3, <1>4, <1>5, <1>6, <1>7, <1>8

IsScanRun(st, m, g) ==
  g = [i \in 0..m |-> IF i = 0 THEN NotExamined ELSE ScanBlock(st, g[i - 1], i)]

LEMMA ScanRunExists ==
  ASSUME NEW st, NEW m \in Nat
  PROVE  \E g : IsScanRun(st, m, g)
<1> DEFINE step(k, x) == ScanBlock(st, x, k)
           IsRun(g, n) == g = [k \in 0..n |-> IF k = 0 THEN NotExamined ELSE step(k, g[k - 1])]
           T == {n \in Nat : \E g : IsRun(g, n)}
<1> HIDE DEF step
<1>1. 0 \in T
  <2>1. IsRun([k \in 0..0 |-> NotExamined], 0)
    OBVIOUS
  <2> QED
    BY <2>1
<1>2. ASSUME NEW n \in Nat, n \in T PROVE n + 1 \in T
  <2>1. PICK g : IsRun(g, n)
    BY <1>2
  <2> DEFINE h == [k \in 0..(n + 1) |-> IF k = 0 THEN NotExamined ELSE step(k, g[k - 1])]
  <2>2. \A k \in 0..n : g[k] = IF k = 0 THEN NotExamined ELSE step(k, g[k - 1])
    BY <2>1
  <2>3. \A k \in 0..n : h[k] = g[k]
    BY <2>2
  <2>4. ASSUME NEW k \in 0..(n + 1)
        PROVE  h[k] = IF k = 0 THEN NotExamined ELSE step(k, h[k - 1])
    <3>1. CASE k = 0
      BY <3>1
    <3>2. CASE k # 0
      <4>1. k - 1 \in 0..n
        BY <3>2
      <4>2. h[k - 1] = g[k - 1]
        BY <4>1, <2>3
      <4> QED
        BY <3>2, <4>2
    <3> QED
      BY <3>1, <3>2
  <2>5. IsRun(h, n + 1)
    BY <2>4
  <2> HIDE DEF h, IsRun
  <2> QED
    BY <2>5
<1> HIDE DEF T
<1>3. \A n \in Nat : n \in T
  BY <1>1, <1>2, SetInduction
<1> QED
  BY <1>3 DEF T, step, IsScanRun

(* The examination of all blocks.                                          *)
LEMMA AllScanned ==
  ASSUME StorageAssumption, NEW st, IsStorage(st), FewRivals(st)
  PROVE  Scanned(st, Scan(st), NBlocks - 1)
<1> DEFINE m == NBlocks - 1
           g == CHOOSE g : g = [i \in 0..m |-> IF i = 0 THEN NotExamined ELSE ScanBlock(st, g[i - 1], i)]
<1>1. m \in Nat /\ Block = 1..m
  BY DEF StorageAssumption, Block
<1>2. Scan(st) = g[m]
  BY Zenon DEF Scan
<1> HIDE DEF m
<1>3. g = [i \in 0..m |-> IF i = 0 THEN NotExamined ELSE ScanBlock(st, g[i - 1], i)]
  <2>1. \E f : IsScanRun(st, m, f)
    BY <1>1, ScanRunExists
  <2>2. IsScanRun(st, m, CHOOSE f : IsScanRun(st, m, f))
    BY <2>1
  <2> QED
    BY <2>2 DEF IsScanRun
<1> HIDE DEF g
<1>4. g[0] = NotExamined /\ \A i \in 1..m : g[i] = ScanBlock(st, g[i - 1], i)
  <2>1. 0 \in 0..m /\ \A i \in 1..m : i \in 0..m /\ i # 0
    BY <1>1
  <2> QED
    BY <1>3, <2>1
<1> DEFINE S == {n \in Nat : Scanned(st, g[n], n)}
<1>5. 0 \in S
  <2> DEFINE x == NotExamined
             C == [a \in {0} |-> <<>>]
  <2>1. IsScan(x) /\ x.used = {} /\ x.garbage = {} /\ x.list = EmptyList /\ x.ok = TRUE
    BY DEF NotExamined, IsScan
  <2>2. IsFreeRun(st, EmptyList, <<>>)
    BY DEF IsFreeRun, IsDistinct, IsLinked
  <2>3. ScanShape(st, {}, {}, EmptyList, {}, C)
    <3>1. C[0] = <<>> /\ ToSet(C[0]) = {}
      BY DEF ToSet
    <3> HIDE DEF C
    <3> QED
      BY <2>2, <3>1 DEF ScanShape
  <2>4. HeadsMarked(st, {}, {}, 0)
    <3>1. \A b \in HeadsIn(st) : ~ (b <= 0)
      BY <1>1 DEF HeadsIn
    <3> QED
      BY <3>1 DEF HeadsMarked
  <2>6. Kept(st, {}, {})
    BY DEF Kept
  <2> HIDE DEF x, C
  <2>5. Scanned(st, x, 0)
    BY <2>1, <2>3, <2>4, <2>6 DEF Scanned
  <2> QED
    BY <1>4, <2>5 DEF x
<1>6. ASSUME NEW k \in Nat, 0 < k, k <= m, k - 1 \in S PROVE k \in S
  <2>1. k \in 1..m /\ k - 1 \in Nat /\ k = (k - 1) + 1 /\ k \in Block
    BY <1>1, <1>6
  <2>2. g[k] = ScanBlock(st, g[k - 1], k) /\ Scanned(st, g[k - 1], k - 1)
    BY <1>4, <1>6, <2>1
  <2>3. Scanned(st, ScanBlock(st, g[k - 1], k), k)
    BY <2>1, <2>2, BlockScanned
  <2> QED
    BY <2>2, <2>3
<1> HIDE DEF S
<1>7. \A k \in 0..m : k \in S
  BY <1>1, <1>5, <1>6, IntervalInduction
<1>8. m \in S
  BY <1>1, <1>7
<1> QED
  BY <1>2, <1>8 DEF S, m

IsAscendingRun(S, m, g) ==
  g = [i \in 0..m |-> IF i = 0 THEN <<>> ELSE IF i \in S THEN Append(g[i - 1], i) ELSE g[i - 1]]

LEMMA AscendingRunExists ==
  ASSUME NEW S, NEW m \in Nat
  PROVE  \E g : IsAscendingRun(S, m, g)
<1> DEFINE step(k, x) == IF k \in S THEN Append(x, k) ELSE x
           IsRun(g, n) == g = [k \in 0..n |-> IF k = 0 THEN <<>> ELSE step(k, g[k - 1])]
           T == {n \in Nat : \E g : IsRun(g, n)}
<1> HIDE DEF step
<1>1. 0 \in T
  <2>1. IsRun([k \in 0..0 |-> <<>>], 0)
    OBVIOUS
  <2> QED
    BY <2>1
<1>2. ASSUME NEW n \in Nat, n \in T PROVE n + 1 \in T
  <2>1. PICK g : IsRun(g, n)
    BY <1>2
  <2> DEFINE h == [k \in 0..(n + 1) |-> IF k = 0 THEN <<>> ELSE step(k, g[k - 1])]
  <2>2. \A k \in 0..n : g[k] = IF k = 0 THEN <<>> ELSE step(k, g[k - 1])
    BY <2>1
  <2>3. \A k \in 0..n : h[k] = g[k]
    BY <2>2
  <2>4. ASSUME NEW k \in 0..(n + 1)
        PROVE  h[k] = IF k = 0 THEN <<>> ELSE step(k, h[k - 1])
    <3>1. CASE k = 0
      BY <3>1
    <3>2. CASE k # 0
      <4>1. k - 1 \in 0..n
        BY <3>2
      <4>2. h[k - 1] = g[k - 1]
        BY <4>1, <2>3
      <4> QED
        BY <3>2, <4>2
    <3> QED
      BY <3>1, <3>2
  <2>5. IsRun(h, n + 1)
    BY <2>4
  <2> HIDE DEF h, IsRun
  <2> QED
    BY <2>5
<1> HIDE DEF T
<1>3. \A n \in Nat : n \in T
  BY <1>1, <1>2, SetInduction
<1> QED
  BY <1>3 DEF T, step, IsAscendingRun

LEMMA AscendingIs ==
  ASSUME StorageAssumption, NEW S, S \subseteq Block
  PROVE  Ascending(S) \in Seq(Block) /\ IsDistinct(Ascending(S)) /\ ToSet(Ascending(S)) = S
<1> DEFINE m == NBlocks - 1
           g == CHOOSE g : g = [i \in 0..m |-> IF i = 0 THEN <<>>
                                  ELSE IF i \in S THEN Append(g[i - 1], i) ELSE g[i - 1]]
<1>1. m \in Nat /\ Block = 1..m
  BY DEF StorageAssumption, Block
<1>2. Ascending(S) = g[m]
  BY Zenon DEF Ascending
<1> HIDE DEF m
<1>3. g = [i \in 0..m |-> IF i = 0 THEN <<>>
                          ELSE IF i \in S THEN Append(g[i - 1], i) ELSE g[i - 1]]
  <2>1. \E f : IsAscendingRun(S, m, f)
    BY <1>1, AscendingRunExists
  <2>2. IsAscendingRun(S, m, CHOOSE f : IsAscendingRun(S, m, f))
    BY <2>1
  <2> QED
    BY <2>2 DEF IsAscendingRun
<1> HIDE DEF g
<1>4. g[0] = <<>> /\ \A i \in 1..m : g[i] = IF i \in S THEN Append(g[i - 1], i) ELSE g[i - 1]
  <2>1. 0 \in 0..m /\ \A i \in 1..m : i \in 0..m /\ i # 0
    BY <1>1
  <2> QED
    BY <1>3, <2>1
<1> DEFINE IsUpTo(c, n) == c \in Seq(Block) /\ IsDistinct(c) /\ ToSet(c) = {b \in S : b <= n}
           T == {n \in Nat : IsUpTo(g[n], n)}
<1>5. 0 \in T
  <2>1. ToSet(<<>>) = {} /\ \A b \in S : ~ (b <= 0)
    BY <1>1 DEF ToSet
  <2>2. <<>> \in Seq(Block) /\ IsDistinct(<<>>)
    BY DEF IsDistinct
  <2> QED
    BY <1>4, <2>1, <2>2
<1>6. ASSUME NEW k \in Nat, 0 < k, k <= m, k - 1 \in T PROVE k \in T
  <2> DEFINE c == g[k - 1]
  <2>1. k \in 1..m /\ k \in Block /\ ~ (k <= k - 1)
    BY <1>1, <1>6
  <2>2. IsUpTo(c, k - 1)
    BY <1>6
  <2>3. g[k] = IF k \in S THEN Append(c, k) ELSE c
    BY <1>4, <2>1
  <2>4. \A b \in S : b <= k <=> b <= k - 1 \/ b = k
    BY <1>1, <2>1
  <2> HIDE DEF c
  <2>5. CASE k \in S
    <3>1. k \notin ToSet(c)
      BY <2>1, <2>2
    <3>2. Append(c, k) \in Seq(Block) /\ ToSet(Append(c, k)) = ToSet(c) \cup {k} /\ IsDistinct(Append(c, k))
      BY <2>1, <2>2, <3>1, Appended
    <3> QED
      BY <2>2, <2>3, <2>4, <2>5, <3>2
  <2>6. CASE k \notin S
    BY <2>2, <2>3, <2>4, <2>6
  <2> QED
    BY <2>5, <2>6
<1> HIDE DEF T
<1>7. \A k \in 0..m : k \in T
  BY <1>1, <1>5, <1>6, IntervalInduction
<1>8. m \in T
  BY <1>1, <1>7
<1>9. \A b \in S : b <= m
  BY <1>1
<1> QED
  BY <1>2, <1>8, <1>9 DEF T

(* Mount_CheckLastFreeBlock makes a list of the free blocks found.         *)
LEMMA LastFreeBlockChecked ==
  ASSUME StorageAssumption, NEW st, IsStorage(st), NEW l, NEW F, IsFreeRun(st, l, F),
         NEW r, r = CheckLastFreeBlock(Begin(st, l))
  PROVE  Freed(st, Begin(st, l), r, F, ToSet(F))
<1> DEFINE work == Begin(st, l)
<1>1. IsWork(st, work) /\ work.list = l /\ work.writes = <<>> /\ work.st = st /\ work.ok = TRUE
  BY BeginWork DEF Begin
<1>2. r = IF ~work.ok \/ work.list.n = 0 THEN work
          ELSE IF ~IsReadable(work.st[work.list.end], "free") THEN [work EXCEPT !.ok = FALSE]
          ELSE IF work.st[work.list.end].next = NoBlock THEN work
          ELSE Store(work, work.list.end, FreeBlock(NoBlock))
  BY DEF CheckLastFreeBlock
<1> HIDE DEF work
<1>3. /\ F \in Seq(Block) /\ IsDistinct(F) /\ IsLinked(st, F) /\ Len(F) \in Nat
      /\ \A i \in 1..Len(F) : IsReadable(st[F[i]], "free")
      /\ F = <<>> => l = EmptyList
      /\ F # <<>> => l = [n |-> Len(F), head |-> F[1], end |-> F[Len(F)]]
  BY DEF IsFreeRun
<1>4. ASSUME NEW i \in 1..Len(F) PROVE st[F[i]] = FreeBlock(st[F[i]].next) /\ F[i] \in Block
  <2>1. F[i] \in Block
    BY <1>3
  <2>2. st[F[i]].ok /\ st[F[i]].type = "free"
    BY <1>3 DEF IsReadable
  <2> QED
    BY <2>1, <2>2, StorageFields, ContentFields
<1>5. ASSUME NEW i \in 1..Len(F), i < Len(F) PROVE st[F[i]] = FreeBlock(F[i + 1])
  <2>1. i \in 1..(Len(F) - 1)
    BY <1>3, <1>5
  <2>2. st[F[i]].next = F[i + 1]
    BY <1>3, <2>1 DEF IsLinked
  <2> QED
    BY <1>4, <2>2
<1>6. CASE F = <<>>
  <2>1. l = EmptyList
    BY <1>3, <1>6
  <2>2. l.n = 0
    BY <2>1 DEF EmptyList
  <2>3. r = work
    BY <1>1, <1>2, <2>2
  <2>4. Len(F) = 0 /\ l.n = Len(F)
    BY <1>6, <2>2
  <2>5. IsFreeList(r.st, r.list, F)
    BY <1>1, <1>3, <1>6, <2>1, <2>3, <2>4 DEF IsFreeList
  <2> QED
    BY <1>1, <2>3, <2>5 DEF Freed, work
<1>7. CASE F # <<>>
  <2> DEFINE k == Len(F)
             e == F[k]
  <2>1. k \in Nat /\ k >= 1 /\ k \in 1..Len(F) /\ k # 0
    BY <1>3, <1>7
  <2>2. e \in Block /\ IsReadable(st[e], "free") /\ st[e] = FreeBlock(st[e].next)
    BY <1>3, <1>4, <2>1
  <2>3. l = [n |-> k, head |-> F[1], end |-> e]
    BY <1>3, <1>7
  <2>4. l.n = k /\ l.end = e
    BY <2>3
  <2>5. \A i \in 1..Len(F) : ~ (i < Len(F)) => i = k
    BY <2>1
  <2>6. e \in ToSet(F) /\ k = Len(F)
    BY <1>3, <2>1, SetOf
  <2>7. \A i \in 1..Len(F) : i < Len(F) => F[i] # e
    BY <1>3, <2>1 DEF IsDistinct
  <2>8. e = F[k]
    OBVIOUS
  <2> HIDE DEF k, e
  <2>9. CASE st[e].next = NoBlock
    <3>1. r = work
      BY <1>1, <1>2, <2>1, <2>2, <2>4, <2>9
    <3>2. \A i \in 1..Len(F) : st[F[i]] = FreeBlock(IF i < Len(F) THEN F[i + 1] ELSE NoBlock)
      BY <1>5, <2>2, <2>5, <2>8, <2>9
    <3>3. IsFreeList(st, l, F)
      BY <1>3, <1>7, <2>4, <2>6, <3>2 DEF IsFreeList
    <3> QED
      BY <1>1, <3>1, <3>3 DEF Freed, work
  <2>10. CASE st[e].next # NoBlock
    <3>1. r = Store(work, e, FreeBlock(NoBlock))
      BY <1>1, <1>2, <2>1, <2>2, <2>4, <2>10
    <3>2. FreeBlock(NoBlock) \in Content
      BY FreeContent DEF Link
    <3>3. /\ IsWork(st, r)
          /\ r.writes = work.writes \o <<<<e, FreeBlock(NoBlock)>>>>
          /\ r.st[e] = FreeBlock(NoBlock)
          /\ \A c \in Block : c # e => r.st[c] = work.st[c]
          /\ r.list = work.list
      <4> DEFINE x == FreeBlock(NoBlock)
      <4>1. IsWork(st, work) /\ e \in Block /\ x \in Content /\ r = Store(work, e, x)
        BY <1>1, <2>2, <3>1, <3>2
      <4> HIDE DEF x
      <4>2. /\ IsWork(st, r)
            /\ r.writes = work.writes \o <<<<e, x>>>>
            /\ r.st[e] = x
            /\ \A c \in Block : c # e => r.st[c] = work.st[c]
            /\ r.list = work.list
        BY <4>1, StoreWork
      <4> QED
        BY <4>2 DEF x
    <3>4. \A i \in 1..Len(F) : r.st[F[i]] = FreeBlock(IF i < Len(F) THEN F[i + 1] ELSE NoBlock)
      BY <1>1, <1>4, <1>5, <2>5, <2>7, <2>8, <3>3
    <3>5. IsFreeList(r.st, r.list, F)
      BY <1>1, <1>3, <1>7, <2>4, <2>6, <3>3, <3>4 DEF IsFreeList
    <3>6. \A w \in ToSet(r.writes) : w \in ToSet(work.writes) \/ w[2].type = "free"
      <4> DEFINE w0 == <<e, FreeBlock(NoBlock)>>
      <4>1. r.writes = <<w0>>
        BY <1>1, <3>3
      <4>2. w0[2].type = "free"
        BY FreeFields
      <4> HIDE DEF w0
      <4> QED
        BY <4>1, <4>2 DEF ToSet
    <3>7. \A b \in Block \ ToSet(F) : r.st[b] = work.st[b]
      BY <2>6, <3>3
    <3> QED
      BY <3>3, <3>5, <3>6, <3>7 DEF Freed, work
  <2> QED
    BY <2>9, <2>10
<1> QED
  BY <1>6, <1>7

LEMMA StillRight ==
  ASSUME NEW a, NEW b, NEW c, NEW x, x = [st |-> a, list |-> b, writes |-> c, ok |-> TRUE],
         NEW y, y = [x EXCEPT !.ok = TRUE]
  PROVE  y = x
<1>1. y = [[st |-> a, list |-> b, writes |-> c, ok |-> TRUE] EXCEPT !.ok = TRUE]
  BY Zenon
<1>2. y.st = a /\ y.list = b /\ y.writes = c /\ y.ok = TRUE
  BY <1>1
<1>3. y = [st |-> y.st, list |-> y.list, writes |-> y.writes, ok |-> y.ok]
  BY <1>1
<1> QED
  BY <1>2, <1>3

(* What MountStep2 has found becomes the sections and the free list.       *)
LEMMA RepairLayout ==
  ASSUME StorageAssumption, NEW st, NEW U, NEW G, NEW l, NEW H, NEW C,
         ScanShape(st, U, G, l, H, C), HeadsMarked(st, U, G, NBlocks - 1),
         NEW E, E \in Seq(Block), IsDistinct(E), ToSet(E) = ToSet(C[0]) \cup (Block \ U),
         NEW st2, IsStorage(st2), NEW l2, IsFreeList(st2, l2, E),
         \A b \in Block : b \notin ToSet(E) => st2[b] = st[b],
         NEW ws, DOMAIN ws = {}
  PROVE  IsMounted(st2, l2, ws)
<1> DEFINE C2 == [a \in {0} \cup H |-> IF a = 0 THEN E ELSE C[a]]
<1>1. 0 \notin H /\ H = HeadsIn(st) \cap U
  BY ShapeBlocks
<1>2. C2[0] = E /\ \A a \in H : C2[a] = C[a]
  BY <1>1
<1> HIDE DEF C2
<1>3. Labels(H, ws) = {0} \cup H
  BY DEF Labels, HeadsOf
<1>4. /\ \A h \in H : C[h][1] = h /\ IsSection(st, C[h]) /\ IsDistinct(C[h])
      /\ \A a, b \in {0} \cup H : a # b => ToSet(C[a]) \cap ToSet(C[b]) = {}
      /\ U = UNION {ToSet(C[a]) : a \in {0} \cup H}
  BY DEF ScanShape
<1>5. ASSUME NEW h \in H
      PROVE  /\ ToSet(C[h]) \cap ToSet(E) = {} /\ C[h] \in Seq(Block) /\ h \in ToSet(C[h])
             /\ IsSection(st2, C[h])
  <2>a. h \in {0} \cup H /\ 0 \in {0} \cup H /\ h # 0
    BY <1>1
  <2>b. ToSet(C[h]) \cap ToSet(C[0]) = {}
    BY <2>a, <1>4
  <2>c. ToSet(C[h]) \subseteq U
    BY <2>a, <1>4
  <2>1. ToSet(C[h]) \cap ToSet(C[0]) = {} /\ ToSet(C[h]) \subseteq U
    BY <2>b, <2>c
  <2>2. ToSet(C[h]) \cap ToSet(E) = {}
    BY <2>1
  <2>3. C[h] \in Seq(Block) /\ h \in ToSet(C[h]) /\ \A b \in ToSet(C[h]) : b \in Block
    BY <1>4, SectionBlocks
  <2>4. \A b \in ToSet(C[h]) : st2[b] = st[b]
    BY <2>2, <2>3
  <2>5. IsSection(st2, C[h])
    BY <1>4, <2>4, SectionStays
  <2> QED
    BY <2>2, <2>3, <2>5
<1>6. IsPartition({0} \cup H, C2)
  <2>1. \A a \in {0} \cup H : C2[a] \in Seq(Block) /\ IsDistinct(C2[a])
    BY <1>2, <1>4, <1>5
  <2>2. ASSUME NEW a \in {0} \cup H, NEW b \in {0} \cup H, a # b
        PROVE  ToSet(C2[a]) \cap ToSet(C2[b]) = {}
    <3>1. CASE a = 0
      <4>1. b \in H
        BY <2>2, <3>1
      <4> QED
        BY <3>1, <4>1, <1>2, <1>5
    <3>2. CASE b = 0
      <4>1. a \in H
        BY <2>2, <3>2
      <4> QED
        BY <3>2, <4>1, <1>2, <1>5
    <3>3. CASE a \in H /\ b \in H
      BY <2>2, <3>3, <1>2, <1>4
    <3> QED
      BY <3>1, <3>2, <3>3
  <2>3. ASSUME NEW x \in Block PROVE \E a \in {0} \cup H : x \in ToSet(C2[a])
    <3>1. CASE x \in ToSet(E)
      BY <3>1, <1>2
    <3>2. CASE x \notin ToSet(E)
      <4>1. x \in U /\ x \notin ToSet(C[0])
        BY <3>2
      <4>2. PICK a \in {0} \cup H : x \in ToSet(C[a])
        BY <4>1, <1>4
      <4>3. a \in H
        BY <4>1, <4>2
      <4> QED
        BY <4>2, <4>3, <1>2
    <3> QED
      BY <3>1, <3>2
  <2> QED
    BY <2>1, <2>2, <2>3 DEF IsPartition
<1>7. ASSUME NEW g \in H, NEW h \in H, NameOf(st2[g]) = NameOf(st2[h]) PROVE g = h
  <2>1. g \in HeadsIn(st) /\ h \in HeadsIn(st) /\ g \in U /\ h \in U
    BY <1>1
  <2>2. st2[g] = st[g] /\ st2[h] = st[h]
    BY <1>5, <2>1 DEF HeadsIn
  <2>3. g # h => Rivals(st, g, h)
    BY <1>7, <2>2 DEF Rivals
  <2> QED
    BY <2>1, <2>3 DEF HeadsMarked
<1>8. H \subseteq Block
  BY <1>1 DEF HeadsIn
<1>9. \A h \in H : C2[h][1] = h /\ IsSection(st2, C2[h])
  BY <1>2, <1>4, <1>5
<1>10. IsFreeList(st2, l2, C2[0])
  BY <1>2
<1>11. DistinctNames(st2, H)
  BY <1>7 DEF DistinctNames
<1>12. IsLayout(st2, l2, ws, H, C2)
  BY <1>3, <1>6, <1>8, <1>9, <1>10, <1>11 DEF IsLayout
<1> QED
  BY <1>12 DEF IsMounted

(* MountStep2 repairs every storage whose heads come in rival pairs of     *)
(* different versions at most, whatever else crashes and failed writes     *)
(* have left in it: it succeeds, and what it writes leads to a layout.     *)
THEOREM RepairKeeps ==
  ASSUME StorageAssumption, NEW st, IsStorage(st), FewRivals(st), NEW ws, DOMAIN ws = {},
         NEW work, work = Repair(st)
  PROVE  IsCall(st, work, ws) /\ \A y \in ToSet(work.writes) : y[2].type = "free"
<1> DEFINE scan == Scan(st)
           U == scan.used
           G == scan.garbage
           l == scan.list
           begun == Begin(st, l)
           checked == CheckLastFreeBlock(begun)
           E == Ascending(Block \ U)
<1>1. Scanned(st, scan, NBlocks - 1)
  BY AllScanned
<1>2. scan.ok = TRUE /\ HeadsMarked(st, U, G, NBlocks - 1) /\ \E H, C : ScanShape(st, U, G, l, H, C)
  BY <1>1 DEF Scanned
<1>a. begun = [st |-> st, list |-> l, writes |-> <<>>, ok |-> TRUE]
  BY DEF Begin
<1>b. [begun EXCEPT !.ok = TRUE] = begun
  BY <1>a, StillRight
<1>3. [begun EXCEPT !.ok = scan.ok] = begun
  BY <1>2, <1>b
<1>4. work = AddInPieces(checked, E, MountChunk)
  BY <1>3 DEF Repair
<1>5. E \in Seq(Block) /\ IsDistinct(E) /\ ToSet(E) = Block \ U
  BY AscendingIs
<1> HIDE DEF E, U, G, l, scan
<1>6. PICK H, C : ScanShape(st, U, G, l, H, C)
  BY <1>2
<1> DEFINE F == C[0]
<1>7. IsFreeRun(st, l, F)
  BY <1>6 DEF ScanShape
<1>8. Freed(st, begun, checked, F, ToSet(F))
  BY <1>7, LastFreeBlockChecked
<1>9. \A b \in ToSet(F) : b \in U
  BY <1>6, ShapeBlocks
<1>10. begun.st = st /\ begun.writes = <<>>
  BY DEF Begin
<1> HIDE DEF begun, checked, F
<1>11. F \in Seq(Block) /\ IsDistinct(F)
  BY <1>7 DEF IsFreeRun
<1>12. ToSet(F) \cap ToSet(E) = {}
  BY <1>5, <1>9
<1>13. IsDistinct(F \o E) /\ ToSet(F \o E) = ToSet(F) \cup ToSet(E)
  BY <1>5, <1>11, <1>12, DistinctBoth, SetOfBoth
<1>14. MountChunk \in Nat \ {0}
  BY DEF StorageAssumption
<1>15. IsWork(st, checked) /\ IsFreeList(checked.st, checked.list, F)
       /\ (\A b \in Block \ ToSet(F) : checked.st[b] = st[b])
       /\ \A w \in ToSet(checked.writes) : w \in ToSet(<<>>) \/ w[2].type = "free"
  BY <1>8, <1>10 DEF Freed
<1>16. Freed(st, checked, AddInPieces(checked, E, MountChunk), F \o E, ToSet(F) \cup ToSet(E))
  BY <1>5, <1>13, <1>14, <1>15, AddInPiecesAdds
<1>17. Freed(st, checked, work, F \o E, ToSet(F) \cup ToSet(E))
  BY <1>4, <1>16
<1>18. /\ IsWork(st, work) /\ IsFreeList(work.st, work.list, F \o E)
       /\ \A b \in Block \ (ToSet(F) \cup ToSet(E)) : work.st[b] = checked.st[b]
       /\ \A w \in ToSet(work.writes) : w \in ToSet(checked.writes) \/ w[2].type = "free"
  BY <1>17 DEF Freed
<1>19. \A b \in Block : b \notin ToSet(F \o E) => work.st[b] = st[b]
  BY <1>13, <1>15, <1>18
<1>20. F \o E \in Seq(Block)
  BY <1>5, <1>11, Concat
<1>21. ToSet(F \o E) = ToSet(C[0]) \cup (Block \ U)
  BY <1>5, <1>13 DEF F
<1>22. IsStorage(work.st)
  BY <1>18, WorkStorage
<1> DEFINE D == F \o E
           st2 == work.st
           l2 == work.list
<1>23. /\ D \in Seq(Block) /\ IsDistinct(D) /\ ToSet(D) = ToSet(C[0]) \cup (Block \ U)
       /\ IsStorage(st2) /\ IsFreeList(st2, l2, D)
       /\ \A b \in Block : b \notin ToSet(D) => st2[b] = st[b]
  BY <1>13, <1>18, <1>19, <1>20, <1>21, <1>22
<1> HIDE DEF D, st2, l2
<1>24. IsMounted(st2, l2, ws)
  BY <1>2, <1>6, <1>23, RepairLayout
<1>25. IsMounted(work.st, work.list, ws)
  BY <1>24 DEF st2, l2
<1>26. IsCall(st, work, ws)
  BY <1>18, <1>25, CallBegins
<1>27. ToSet(<<>>) = {}
  BY DEF ToSet
<1> QED
  BY <1>15, <1>18, <1>26, <1>27

LEMMA HashFields ==
  ASSUME StorageAssumption, NEW x \in Content
  PROVE  x.hash \in Nat
<1>1. \A n \in Names : Hash[n] \in Nat
  BY DEF StorageAssumption
<1>2. x.type \in {"free", "head", "data"}
  BY ContentFields
<1>3. CASE x.type = "head"
  <2>1. NameOf(x) \in Names /\ x.hash = Hash[NameOf(x)]
    BY <1>3, ContentFields
  <2> QED
    BY <1>1, <2>1
<1>4. CASE x.type # "head"
  <2>1. x.hash = 0
    BY <1>2, <1>4, ContentFields
  <2> QED
    BY <2>1
<1> QED
  BY <1>3, <1>4

(* What a write leaves that is cut off. *)
LEMMA TornFields ==
  ASSUME StorageAssumption, NEW st, IsStorage(st), NEW b \in Block, NEW new \in Content,
         NEW x \in Torn(st[b], new)
  PROVE  x \in Damaged /\ x.ok = FALSE
<1>1. st[b].hash \in Nat
  <2>1. CASE st[b] \in Damaged
    BY <2>1 DEF Damaged
  <2>2. CASE st[b] \in Content
    BY <2>2, HashFields
  <2> QED
    BY <2>1, <2>2 DEF IsStorage
<1>2. new.hash \in Nat
  BY HashFields
<1>3. new.type \in {"free", "head", "data"} /\ new.next \in Link /\ st[b].next \in Link
  BY ContentFields, StorageFields
<1> DEFINE old == st[b]
<1>4. old.hash \in Nat /\ old.next \in Link
  BY <1>1, <1>3
<1>5. \E h \in Nat, n \in Link :
        x = [type |-> new.type, hash |-> h, next |-> n, body |-> <<>>, ok |-> FALSE]
  <2>1. x \in Torn(old, new)
    OBVIOUS
  <2> HIDE DEF old
  <2>2. \/ x = [type |-> new.type, hash |-> old.hash, next |-> old.next, body |-> <<>>, ok |-> FALSE]
        \/ \E n \in IF old.next = new.next THEN {new.next} ELSE Block \cup {NoBlock} :
             x = [type |-> new.type, hash |-> new.hash, next |-> n, body |-> <<>>, ok |-> FALSE]
    BY <2>1 DEF Torn
  <2>3. CASE x = [type |-> new.type, hash |-> old.hash, next |-> old.next, body |-> <<>>, ok |-> FALSE]
    BY <1>4, <2>3
  <2>4. ASSUME NEW n \in IF old.next = new.next THEN {new.next} ELSE Block \cup {NoBlock},
               x = [type |-> new.type, hash |-> new.hash, next |-> n, body |-> <<>>, ok |-> FALSE]
        PROVE  \E h \in Nat, m \in Link :
                 x = [type |-> new.type, hash |-> h, next |-> m, body |-> <<>>, ok |-> FALSE]
    <3>1. n \in Link
      BY <1>3 DEF Link
    <3> QED
      BY <1>2, <2>4, <3>1
  <2> QED
    BY <2>2, <2>3, <2>4
<1>6. PICK h \in Nat, n \in Link :
        x = [type |-> new.type, hash |-> h, next |-> n, body |-> <<>>, ok |-> FALSE]
  BY <1>5
<1> QED
  BY <1>3, <1>6 DEF Damaged

(* st2 is st with x in block b. *)
IsStored(st2, st, b, x) == st2 = [st EXCEPT ![b] = x]

LEMMA TornKeeps ==
  ASSUME StorageAssumption, NEW st, IsStorage(st), NEW y \in Writes,
         NEW x \in Torn(st[y[1]], y[2]), NEW st2, IsStored(st2, st, y[1], x)
  PROVE  IsStorage(st2) /\ HeadPairs(st2) \subseteq HeadPairs(st)
<1> DEFINE b == y[1]
<1>1. b \in 0..(NBlocks - 1) /\ (b \in Block => y[2] \in Content)
  BY WriteFields
<1>2. DOMAIN st = 0..(NBlocks - 1) /\ \A c \in Block : st[c] \in Content \cup Damaged
  BY DEF IsStorage
<1>3. Block \subseteq 0..(NBlocks - 1)
  BY Sizes DEF Block
<1>4. /\ DOMAIN st2 = 0..(NBlocks - 1) /\ st2[b] = x
      /\ \A c \in Block : c # b => st2[c] = st[c]
  BY <1>1, <1>2, <1>3 DEF IsStored
<1>5. IsFunction(st2)
  BY DEF IsFunction, IsStored
<1>6. ASSUME b \in Block PROVE x \in Damaged /\ x.ok = FALSE
  <2> DEFINE new == y[2]
  <2>1. new \in Content /\ x \in Torn(st[b], new)
    BY <1>1, <1>6
  <2> HIDE DEF new, b
  <2>2. new \in Content
    BY <2>1
  <2>3. \A z \in Torn(st[b], new) : z \in Damaged /\ z.ok = FALSE
    BY <1>6, <2>2, TornFields
  <2> QED
    BY <2>1, <2>3
<1> HIDE DEF b
<1>7. \A c \in Block : st2[c] \in Content \cup Damaged
  BY <1>2, <1>4, <1>6
<1>8. b \in Block => ~ IsReadable(st2[b], "head")
  BY <1>4, <1>6 DEF IsReadable
<1> DEFINE P == {}
<1>10. b \in Block => ~ IsReadable(st2[b], "head") \/ <<b, st2[b]>> \in P
  BY <1>8
<1>11. \A c \in Block : c # b => st2[c] = st[c]
  BY <1>4
<1> HIDE DEF P
<1>12. HeadPairs(st2) \subseteq HeadPairs(st) \cup P
  BY <1>10, <1>11, WrittenHeads
<1>9. HeadPairs(st2) \subseteq HeadPairs(st)
  BY <1>12 DEF P
<1> QED
  BY <1>4, <1>5, <1>7, <1>9 DEF IsStorage

(* One block of a call is written. *)
LEMMA StoreKeeps ==
  ASSUME StorageAssumption, NEW st, IsStorage(st), NEW vs \in Seq(Writes), vs # <<>>,
         NEW st2, IsStored(st2, st, Head(vs)[1], Head(vs)[2])
  PROVE  /\ IsStorage(st2) /\ Head(vs) \in Writes
         /\ After(st2, Tail(vs)) = After(st, vs)
         /\ Tail(vs) \in Seq(Writes)
         /\ HeadsAhead(st2, Tail(vs)) \subseteq HeadsAhead(st, vs)
         /\ HeadPairs(st2) \subseteq HeadsAhead(st, vs)
<1> DEFINE y == Head(vs)
<1>1. /\ y \in Writes /\ y = <<y[1], y[2]>> /\ y \in ToSet(vs)
      /\ st2[y[1]] = y[2] /\ \A c \in Block : c # y[1] => st2[c] = st[c]
  BY StoreOne DEF IsStored
<1>2. /\ Tail(vs) \in Seq(Writes) /\ \A z \in ToSet(Tail(vs)) : z \in ToSet(vs)
  BY HeadTailSet
<1>3. y[1] \in 0..(NBlocks - 1) /\ (y[1] \in Block => y[2] \in Content)
  BY <1>1, WriteFields
<1>4. IsFunction(st) /\ DOMAIN st = 0..(NBlocks - 1)
      /\ \A c \in Block : st[c] \in Content \cup Damaged
  BY DEF IsStorage
<1>5. After(st2, Tail(vs)) = After(st, vs)
  BY <1>1, <1>4, AfterHead DEF IsStored
<1>6. DOMAIN st2 = 0..(NBlocks - 1) /\ IsFunction(st2)
  BY <1>4 DEF IsFunction, IsStored
<1> HIDE DEF y
<1>7. \A c \in Block : st2[c] \in Content \cup Damaged
  BY <1>1, <1>3, <1>4
<1>8. HeadsAhead(st2, Tail(vs)) \subseteq HeadsAhead(st, vs)
         /\ HeadPairs(st2) \subseteq HeadsAhead(st, vs)
  <2> DEFINE rest == Tail(vs)
  <2>1. \A z \in ToSet(rest) : z \in ToSet(vs)
    BY <1>2
  <2>2. y \in ToSet(vs) /\ y = <<y[1], y[2]>> /\ st2[y[1]] = y[2]
        /\ \A c \in Block : c # y[1] => st2[c] = st[c]
    BY <1>1
  <2> HIDE DEF rest
  <2>3. HeadsAhead(st2, rest) \subseteq HeadsAhead(st, vs)
         /\ HeadPairs(st2) \subseteq HeadsAhead(st, vs)
    BY <2>1, <2>2, StoredHeads, ZenonT(60)
  <2> QED
    BY <2>3 DEF rest
<1>9. Head(vs) \in Writes
  BY <1>1 DEF y
<1> QED
  BY <1>2, <1>5, <1>6, <1>7, <1>8, <1>9 DEF IsStorage

LEMMA LastWrite ==
  ASSUME NEW S, NEW vs \in Seq(S), vs # <<>>, ~ (Len(vs) > 1)
  PROVE  Tail(vs) = <<>>
  OBVIOUS

LEMMA MoreWrites ==
  ASSUME NEW S, NEW vs \in Seq(S), vs # <<>>, Len(vs) > 1
  PROVE  Tail(vs) # <<>>
<1>1. Tail(vs) \in Seq(S) /\ Len(Tail(vs)) = Len(vs) - 1 /\ Len(vs) \in Nat
  OBVIOUS
<1>2. Len(Tail(vs)) # 0
  BY <1>1
<1>3. Len(<<>>) = 0
  OBVIOUS
<1> QED
  BY <1>2, <1>3

(* A call in progress: what it has still to write brings the storage in     *)
(* order, as its list of free blocks and its writers say.                   *)
IsPending(c, st) ==
  /\ c = [writes |-> c.writes, change |-> c.change, state |-> "mounted",
          list |-> c.list, writer |-> c.writer, lost |-> c.lost]
  /\ c.writes \in Seq(Writes) /\ c.writes # <<>>
  /\ IsMounted(After(st, c.writes), c.list, c.writer)

BetweenCalls ==
  /\ state = "mounted" => IsMounted(storage, list, writer)
  /\ DOMAIN writer # {} => state \in {"mounted", "defect"}

DuringCall ==
  /\ IsPending(call, storage)
  /\ state = "not_mounted" => DOMAIN call.lost = {}

StorageInv ==
  /\ IsStorage(storage)
  /\ Compatible(HeadsAhead(storage, call.writes))
  /\ call = Idle => BetweenCalls
  /\ call # Idle => DuringCall

LEMMA IdleWrites ==
  /\ Idle.writes = <<>> /\ \A st : HeadsAhead(st, Idle.writes) = HeadPairs(st)
BY NothingAhead DEF Idle

LEMMA Pending ==
  ASSUME NEW st, NEW ws, ws \in Seq(Writes), ws # <<>>, NEW l, NEW wr, NEW ch, NEW lo,
         IsMounted(After(st, ws), l, wr),
         NEW c, c = [writes |-> ws, change |-> ch, state |-> "mounted",
                     list |-> l, writer |-> wr, lost |-> lo]
  PROVE  IsPending(c, st) /\ c.writes = ws /\ c.lost = lo /\ c # Idle
<1>1. /\ c.writes = ws /\ c.change = ch /\ c.list = l /\ c.writer = wr /\ c.lost = lo
  OBVIOUS
<1>2. c # Idle
  BY <1>1, IdleWrites
<1> QED
  BY <1>1, <1>2 DEF IsPending

(* The section system is as before, but for what must be said of it. *)
LEMMA StaysIdle ==
  ASSUME StorageInv, call = Idle, UNCHANGED <<storage, call>>, BetweenCalls'
  PROVE  StorageInv'
BY DEF StorageInv

(* A call begins. *)
LEMMA BeginsKeeps ==
  ASSUME StorageAssumption, StorageInv, call = Idle, state = "mounted",
         NEW work, NEW change, NEW ws, NEW lost, Begins(work, change, ws, lost),
         IsCall(storage, work, ws), Compatible(HeadsAhead(storage, work.writes))
  PROVE  StorageInv' /\ state' = "mounted"
<1>1. work.ok /\ work.writes \in Seq(Writes)
      /\ IsMounted(After(storage, work.writes), work.list, ws)
  BY DEF IsCall
<1>2. IsStorage(storage)
  BY DEF StorageInv
<1>3. CASE work.writes = <<>>
  <2>1. /\ state' = "mounted" /\ list' = work.list /\ writer' = ws
        /\ UNCHANGED <<storage, aux, reader, call>>
    BY <1>1, <1>3 DEF Begins
  <2>2. After(storage, work.writes) = storage
    BY <1>2, <1>3, AfterNothing DEF IsStorage
  <2>3. IsMounted(storage, work.list, ws)
    BY <1>1, <2>2
  <2>4. BetweenCalls'
    BY <2>1, <2>3 DEF BetweenCalls
  <2> QED
    BY <2>1, <2>4, StaysIdle
<1>4. CASE work.writes # <<>>
  <2>1. /\ call' = [writes |-> work.writes, change |-> change, state |-> "mounted",
                    list |-> work.list, writer |-> ws, lost |-> lost]
        /\ UNCHANGED <<storage, aux, state, list, writer, reader>>
    BY <1>1, <1>4 DEF Begins
  <2> DEFINE c == [writes |-> work.writes, change |-> change, state |-> "mounted",
                   list |-> work.list, writer |-> ws, lost |-> lost]
  <2>5. IsPending(c, storage) /\ c.writes = work.writes /\ c # Idle
    BY <1>1, <1>4, Pending
  <2>6. call' = c
    BY <2>1
  <2> HIDE DEF c
  <2>2. IsPending(call', storage) /\ call'.writes = work.writes /\ call' # Idle
    BY <2>5, <2>6
  <2>3. state' = "mounted" /\ storage' = storage
    BY <2>1
  <2> QED
    BY <1>2, <2>2, <2>3 DEF StorageInv, DuringCall
<1> QED
  BY <1>3, <1>4

LEMMA InitInv ==
  ASSUME StorageAssumption, Init
  PROVE  StorageInv
<1>1. /\ storage = Formatted /\ state = "mounted" /\ list = AllFree /\ writer = Nothing
      /\ call = Idle
  BY DEF Init
<1>2. DOMAIN Formatted = 0..(NBlocks - 1) /\ IsFunction(Formatted)
      /\ \A b \in Block : Formatted[b] = FreeBlock(b + 1)
  BY DEF Formatted, IsFunction, Block
<1>3. DOMAIN Nothing = {}
  BY DEF Nothing
<1>4. IsMounted(storage, list, writer)
  BY <1>1, <1>2, <1>3, FormattedLayout
<1>5. PICK H, C : IsLayout(storage, list, writer, H, C)
  BY <1>4 DEF IsMounted
<1>6. IsStorage(storage)
  BY <1>5 DEF IsLayout
<1>7. Compatible(HeadsAhead(storage, call.writes))
  <2>1. Compatible(HeadPairs(storage))
    BY <1>5, LayoutHeads
  <2> QED
    BY <1>1, <2>1, IdleWrites
<1> QED
  BY <1>1, <1>4, <1>6, <1>7 DEF StorageInv, BetweenCalls

(* What a call and a failure find. *)
LEMMA Layouts ==
  ASSUME StorageInv, call = Idle, state = "mounted"
  PROVE  /\ IsMounted(storage, list, writer) /\ IsStorage(storage)
         /\ Compatible(HeadPairs(storage))
         /\ \E H, C : IsLayout(storage, list, writer, H, C)
<1>1. IsMounted(storage, list, writer) /\ IsStorage(storage)
  BY DEF StorageInv, BetweenCalls
<1>2. Compatible(HeadPairs(storage))
  BY IdleWrites DEF StorageInv
<1> QED
  BY <1>1, <1>2 DEF IsMounted

LEMMA CreateInv ==
  ASSUME StorageAssumption, StorageInv, NEW n \in Names, NEW tag \in Tags,
         NEW overwrite \in BOOLEAN, Create(n, overwrite, tag)
  PROVE  StorageInv' /\ state' = "mounted"
<1> DEFINE old == FindHead(storage, n)
           taken == TakeBlocks(storage, list, 2)
           w == [head |-> taken.blocks[1], first |-> taken.blocks[2], next |-> taken.blocks[2],
                 old |-> old, seqNb |-> 1, tag |-> tag, open |-> TRUE,
                 version |-> IF old = NoBlock THEN 1 ELSE NextVersion(VersionOf(storage[old]))]
           ws2 == With(writer, n, w)
<1>1. /\ call = Idle /\ state = "mounted" /\ ~ IsLocked(n) /\ list.n >= 2
      /\ UNCHANGED <<storage, aux, reader, call>>
      /\ IF taken.ok THEN list' = taken.list /\ writer' = ws2 /\ UNCHANGED state
         ELSE state' = "defect" /\ UNCHANGED <<list, writer>>
  BY DEF Create
<1>2. IsMounted(storage, list, writer)
  BY <1>1, Layouts
<1>3. n \notin DOMAIN writer
  BY <1>1 DEF IsLocked
<1>4. taken.ok /\ IsMounted(storage, taken.list, ws2)
  BY <1>1, <1>2, <1>3, CreateKeeps
<1> HIDE DEF taken, ws2, w, old
<1>5. /\ list' = taken.list /\ writer' = ws2 /\ state' = "mounted"
      /\ UNCHANGED <<storage, call>>
  BY <1>1, <1>4
<1>6. BetweenCalls'
  BY <1>4, <1>5 DEF BetweenCalls
<1> QED
  BY <1>1, <1>5, <1>6, StaysIdle

(* A writer crashes, and nothing else happens. *)
IsCrashed(w, v) == w = [v EXCEPT !.open = FALSE]

LEMMA CrashLayout ==
  ASSUME NEW st, NEW l, NEW ws, IsMounted(st, l, ws), NEW n \in DOMAIN ws,
         NEW w, IsCrashed(w, ws[n]), NEW ws2, ws2 = With(ws, n, w)
  PROVE  IsMounted(st, l, ws2)
<1>1. PICK H, C : IsLayout(st, l, ws, H, C)
  BY DEF IsMounted
<1>2. IsWritten(st, ws[n], C[ws[n].head]) /\ IsReplaced(st, H, n, ws[n])
      /\ \A m, k \in DOMAIN ws : ws[m].head = ws[k].head => m = k
  BY <1>1 DEF IsLayout
<1>3. DOMAIN ws[n] = WriterFields
  BY <1>2 DEF IsReplaced
<1>4. DOMAIN w = WriterFields /\ \A f \in WriterFields : f # "open" => w[f] = ws[n][f]
  BY <1>3 DEF IsCrashed
<1>5. /\ w.head = ws[n].head /\ w.first = ws[n].first /\ w.next = ws[n].next
      /\ w.old = ws[n].old /\ w.seqNb = ws[n].seqNb /\ w.tag = ws[n].tag
      /\ w.version = ws[n].version
  BY <1>4 DEF WriterFields
<1>6. IsWritten(st, w, C[w.head]) /\ IsReplaced(st, H, n, w)
  BY <1>2, <1>4, <1>5 DEF IsWritten, IsReplaced
<1>7. /\ HeadsOf(ws2) = HeadsOf(ws) \cup {w.head}
      /\ \A m \in DOMAIN ws2 :
           (m = n /\ ws2[m] = w)
           \/ (m # n /\ m \in DOMAIN ws /\ ws2[m] = ws[m] /\ ws[m].head # w.head)
      /\ \A m, k \in DOMAIN ws2 : ws2[m].head = ws2[k].head => m = k
  BY <1>2, <1>5, WriterSet
<1>8. w.head \in HeadsOf(ws)
  BY <1>5 DEF HeadsOf
<1>9. Labels(H, ws2) = Labels(H, ws)
  BY <1>7, <1>8 DEF Labels
<1>10. \A m \in DOMAIN ws2 : IsWritten(st, ws2[m], C[ws2[m].head]) /\ IsReplaced(st, H, m, ws2[m])
  BY <1>1, <1>6, <1>7 DEF IsLayout
<1>11. IsLayout(st, l, ws2, H, C)
  BY <1>1, <1>7, <1>9, <1>10 DEF IsLayout
<1> QED
  BY <1>11 DEF IsMounted

(* A step keeps the invariant, and it does not make the section system      *)
(* defect, unless it is a failed write.                                     *)
Fine ==
  /\ StorageInv'
  /\ state # "defect" /\ state' = "defect" => call # Idle /\ call.state # "defect"

(* The writes of a call without a head *)
LEMMA HeadlessFine ==
  ASSUME StorageAssumption, StorageInv, call = Idle, state = "mounted",
         NEW work, NEW change, NEW ws, NEW lost, Begins(work, change, ws, lost),
         IsCall(storage, work, ws), \A y \in ToSet(work.writes) : y[2].type # "head"
  PROVE  Fine
<1>1. Compatible(HeadsAhead(storage, work.writes))
  BY Layouts, HeadsSame
<1>2. StorageInv' /\ state' = "mounted"
  BY <1>1, BeginsKeeps
<1> QED
  BY <1>2 DEF Fine

(* The writes of a call with one head *)
LEMMA HeadedFine ==
  ASSUME StorageAssumption, StorageInv, call = Idle, state = "mounted",
         NEW work, NEW change, NEW ws, NEW lost, Begins(work, change, ws, lost),
         IsCall(storage, work, ws),
         NEW p, \A y \in ToSet(work.writes) : y[2].type = "head" => y = p,
         Compatible(HeadPairs(storage) \cup {p})
  PROVE  Fine
<1>1. HeadsAhead(storage, work.writes) \subseteq HeadPairs(storage) \cup {p}
  BY HeadsOneMore
<1>2. Compatible(HeadsAhead(storage, work.writes))
  BY <1>1, CompatibleSubset
<1>3. StorageInv' /\ state' = "mounted"
  BY <1>2, BeginsKeeps
<1> QED
  BY <1>3 DEF Fine

(* A writer that is no longer mounted *)
LEMMA WriterDefect ==
  ASSUME StorageInv, call = Idle, NEW n \in DOMAIN writer, state # "mounted"
  PROVE  state = "defect"
BY DEF StorageInv, BetweenCalls

LEMMA DefectStays ==
  ASSUME StorageInv, call = Idle, state = "defect", state' = "defect",
         UNCHANGED <<storage, call>>
  PROVE  Fine
<1>1. BetweenCalls'
  BY DEF BetweenCalls
<1>2. StorageInv'
  BY <1>1, StaysIdle
<1> QED
  BY <1>2 DEF Fine

LEMMA CreateFine ==
  ASSUME StorageAssumption, StorageInv, NEW n \in Names, NEW tag \in Tags,
         NEW overwrite \in BOOLEAN, Create(n, overwrite, tag)
  PROVE  Fine
BY CreateInv DEF Fine

LEMMA PushFine ==
  ASSUME StorageAssumption, StorageInv, NEW n \in Names, Push(n)
  PROVE  Fine
<1> DEFINE w == writer[n]
           open == [w EXCEPT !.open = FALSE]
           crashed == With(writer, n, open)
           taken == TakeBlocks(storage, list, 1)
           next == taken.blocks[1]
           work == Store(Begin(storage, taken.list), w.next, DataBlock(w.seqNb, w.tag, next))
           w2 == [w EXCEPT !.next = next, !.seqNb = @ + 1]
           ws2 == With(writer, n, w2)
<1>1. /\ call = Idle /\ n \in DOMAIN writer
      /\ IF state = "mounted" /\ list.n > 0 /\ taken.ok
         THEN Begins(work, Nothing, ws2, crashed)
         ELSE /\ writer' = crashed
              /\ state' = IF state = "mounted" /\ list.n > 0 THEN "defect" ELSE state
              /\ UNCHANGED <<storage, aux, list, reader, call>>
  BY DEF Push
<1>2. CASE state = "mounted" /\ list.n > 0
  <2>1. IsMounted(storage, list, writer)
    BY <1>1, <1>2, Layouts
  <2>2. taken.ok /\ IsCall(storage, work, ws2) /\ \A y \in ToSet(work.writes) : y[2].type # "head"
    <3>1. w = writer[n] /\ taken = TakeBlocks(storage, list, 1) /\ next = taken.blocks[1]
      OBVIOUS
    <3>2. work = Store(Begin(storage, taken.list), w.next, DataBlock(w.seqNb, w.tag, next))
      OBVIOUS
    <3>3. w2 = Advanced(w, next)
      BY DEF Advanced
    <3>4. ws2 = With(writer, n, w2)
      OBVIOUS
    <3>5. n \in DOMAIN writer /\ list.n > 0
      BY <1>1, <1>2
    <3> HIDE DEF w, taken, next, work, w2, ws2, crashed, open
    <3> QED
      BY <2>1, <3>1, <3>2, <3>3, <3>4, <3>5, PushKeeps
  <2>3. Begins(work, Nothing, ws2, crashed)
    BY <1>1, <1>2, <2>2
  <2> HIDE DEF work, ws2, crashed, taken, w
  <2> QED
    BY <1>1, <1>2, <2>2, <2>3, HeadlessFine
<1>3. CASE state = "mounted" /\ ~ (list.n > 0)
  <2>1. IsMounted(storage, list, writer)
    BY <1>1, <1>3, Layouts
  <2>2. writer' = crashed /\ state' = state /\ UNCHANGED <<storage, aux, list, reader, call>>
    BY <1>1, <1>3
  <2>3. IsMounted(storage, list, crashed)
    BY <1>1, <2>1, CrashLayout DEF IsCrashed
  <2> HIDE DEF crashed
  <2>4. BetweenCalls'
    BY <1>3, <2>2, <2>3 DEF BetweenCalls
  <2>5. StorageInv'
    BY <1>1, <2>2, <2>4, StaysIdle
  <2> QED
    BY <1>3, <2>2, <2>5 DEF Fine
<1>4. CASE state # "mounted"
  <2>1. state = "defect"
    BY <1>1, <1>4, WriterDefect
  <2>2. state' = state /\ UNCHANGED <<storage, call>>
    BY <1>1, <1>4
  <2> QED
    BY <1>1, <2>1, <2>2, DefectStays
<1> QED
  BY <1>2, <1>3, <1>4

LEMMA CloseOpenFine ==
  ASSUME StorageAssumption, StorageInv, NEW n \in Names, CloseOpen(n)
  PROVE  Fine
<1> DEFINE w == writer[n]
           data == Store(Begin(storage, list), w.next, DataBlock(w.seqNb, w.tag, NoBlock))
           headed == Store(data, w.head, HeadBlock(n, w.version, w.first))
           work == IF w.old = NoBlock THEN headed ELSE AddChain(headed, w.old, NoBlock)
           ws2 == Without(writer, n)
           change == [m \in {n} |-> [i \in 1..w.seqNb |-> w.tag]]
           p == <<w.head, HeadBlock(n, w.version, w.first)>>
<1>1. /\ call = Idle /\ n \in DOMAIN writer
      /\ IF state = "mounted" THEN Begins(work, change, ws2, ws2)
         ELSE state' = "defect" /\ UNCHANGED <<storage, aux, list, reader, call>>
  BY DEF CloseOpen
<1>2. CASE state = "mounted"
  <2>1. PICK H, C : IsLayout(storage, list, writer, H, C)
    BY <1>1, <1>2, Layouts
  <2>2. IsCall(storage, work, ws2) /\ \A y \in ToSet(work.writes) : y[2].type = "head" => y = p
    BY <1>1, <2>1, CloseOpenKeeps
  <2>3. Compatible(HeadPairs(storage) \cup {p})
    BY <1>1, <2>1, CloseHeads
  <2>4. Begins(work, change, ws2, ws2)
    BY <1>1, <1>2
  <2> HIDE DEF work, ws2, change, p
  <2> QED
    BY <1>1, <1>2, <2>2, <2>3, <2>4, HeadedFine
<1>3. CASE state # "mounted"
  <2>1. state = "defect" /\ state' = "defect" /\ UNCHANGED <<storage, call>>
    BY <1>1, <1>3, WriterDefect
  <2> QED
    BY <1>1, <2>1, DefectStays
<1> QED
  BY <1>2, <1>3

LEMMA CloseCrashedFine ==
  ASSUME StorageAssumption, StorageInv, NEW n \in Names, CloseCrashed(n)
  PROVE  Fine
<1> DEFINE w == writer[n]
           work == AddBlocks(AddChain(Begin(storage, list), w.first, w.next), <<w.head>>)
           ws2 == Without(writer, n)
<1>1. /\ call = Idle /\ n \in DOMAIN writer
      /\ IF state = "mounted" THEN Begins(work, Nothing, ws2, ws2)
         ELSE state' = "defect" /\ UNCHANGED <<storage, aux, list, reader, call>>
  BY DEF CloseCrashed
<1>2. CASE state = "mounted"
  <2>1. PICK H, C : IsLayout(storage, list, writer, H, C)
    BY <1>1, <1>2, Layouts
  <2>2. IsCall(storage, work, ws2) /\ \A y \in ToSet(work.writes) : y[2].type # "head"
    BY <1>1, <2>1, CloseCrashedKeeps
  <2>3. Begins(work, Nothing, ws2, ws2)
    BY <1>1, <1>2
  <2> HIDE DEF work, ws2
  <2> QED
    BY <1>1, <1>2, <2>2, <2>3, HeadlessFine
<1>3. CASE state # "mounted"
  <2>1. state = "defect" /\ state' = "defect" /\ UNCHANGED <<storage, call>>
    BY <1>1, <1>3, WriterDefect
  <2> QED
    BY <1>1, <2>1, DefectStays
<1> QED
  BY <1>2, <1>3

LEMMA DeleteFine ==
  ASSUME StorageAssumption, StorageInv, NEW n \in Names, Delete(n)
  PROVE  Fine
<1> DEFINE h == FindHead(storage, n)
           work == AddChain(Begin(storage, list), h, NoBlock)
           change == [m \in {n} |-> <<>>]
<1>1. /\ call = Idle /\ state = "mounted" /\ n \notin DOMAIN writer /\ h \in Block
      /\ Begins(work, change, writer, writer)
  BY DEF Delete, IsLocked
<1>2. PICK H, C : IsLayout(storage, list, writer, H, C)
  BY <1>1, Layouts
<1>3. h \in H /\ NameOf(storage[h]) = n
  BY <1>1, <1>2, FindHeadFinds, Sizes
<1>4. NameOf(storage[h]) \notin DOMAIN writer
  BY <1>1, <1>3
<1>5. IsCall(storage, work, writer) /\ \A y \in ToSet(work.writes) : y[2].type # "head"
  BY <1>2, <1>3, <1>4, DeleteKeeps
<1> HIDE DEF work, change
<1> QED
  BY <1>1, <1>5, HeadlessFine

LEMMA RenameFine ==
  ASSUME StorageAssumption, StorageInv, NEW n \in Names, NEW to \in Names, Rename(n, to)
  PROVE  Fine
<1> DEFINE h == FindHead(storage, n)
           taken == TakeBlocks(storage, list, 1)
           t == taken.blocks[1]
           head == RenameHead(storage, h, to)
           work == AddBlocks(Store(Begin(storage, taken.list), t, head), <<h>>)
           change == [m \in {n, to} |-> IF m = to THEN ContentOf(storage, h) ELSE <<>>]
           p == <<t, head>>
<1>1. /\ call = Idle /\ state = "mounted" /\ n \notin DOMAIN writer /\ to \notin DOMAIN writer
      /\ h \in Block /\ FindHead(storage, to) = NoBlock /\ list.n > 0
      /\ IF taken.ok THEN Begins(work, change, writer, writer)
         ELSE state' = "defect" /\ UNCHANGED <<storage, aux, list, writer, reader, call>>
  BY DEF Rename, IsLocked, RenameHead
<1>2. PICK H, C : IsLayout(storage, list, writer, H, C)
  BY <1>1, Layouts
<1>3. h \in H /\ NameOf(storage[h]) = n
  BY <1>1, <1>2, FindHeadFinds, Sizes
<1>4. NameOf(storage[h]) \notin DOMAIN writer
  BY <1>1, <1>3
<1>5. \A g \in H : NameOf(storage[g]) # to
  <2>1. H \subseteq Block
    BY <1>2 DEF IsLayout
  <2> QED
    BY <1>1, <1>2, <2>1, FindHeadFinds, Sizes
<1> HIDE DEF h
<1>6. /\ taken.ok /\ IsCall(storage, work, writer)
      /\ \A y \in ToSet(work.writes) : y[2].type = "head" => y = p
  BY <1>1, <1>2, <1>3, <1>4, <1>5, RenameKeeps
<1>7. Compatible(HeadPairs(storage) \cup {p})
  BY <1>2, <1>3, <1>5, RenameHeads
<1>8. Begins(work, change, writer, writer)
  BY <1>1, <1>6
<1> HIDE DEF work, change, p
<1> QED
  BY <1>1, <1>6, <1>7, <1>8, HeadedFine

(* No call is in progress and the storage is left alone. *)
LEMMA AloneFine ==
  ASSUME StorageInv, call = Idle, UNCHANGED <<storage, call>>,
         state' = "mounted" => IsMounted(storage, list', writer'),
         DOMAIN writer' # {} => state' \in {"mounted", "defect"},
         state' = "defect" => state = "defect"
  PROVE  Fine
<1>1. BetweenCalls'
  BY DEF BetweenCalls
<1>2. StorageInv'
  BY <1>1, StaysIdle
<1> QED
  BY <1>2 DEF Fine

LEMMA OpenFine ==
  ASSUME StorageAssumption, StorageInv, NEW n \in Names, Open(n)
  PROVE  Fine
<1> DEFINE h == IF state = "mounted" THEN FindHead(storage, n) ELSE FindNewestHead(storage, n)
<1>1. /\ call = Idle /\ state \in {"ro_mount", "mounted"}
      /\ h = Ambiguous \/ UNCHANGED state
      /\ UNCHANGED <<storage, aux, list, writer, call>>
  BY DEF Open
<1>2. h # Ambiguous
  <2>1. CASE state = "mounted"
    <3>1. PICK H, C : IsLayout(storage, list, writer, H, C)
      BY <1>1, <2>1, Layouts
    <3>2. H \subseteq Block
      BY <3>1 DEF IsLayout
    <3>3. FindHead(storage, n) \in Block \/ FindHead(storage, n) = NoBlock
      BY <3>1, <3>2, FindHeadFinds
    <3> QED
      BY <2>1, <3>3, Sizes
  <2>2. CASE state # "mounted"
    <3>1. IsStorage(storage) /\ FewRivals(storage)
      BY CompatibleFew DEF StorageInv
    <3>2. FindNewestHead(storage, n) # Ambiguous
      BY <3>1, NeverAmbiguous
    <3> QED
      BY <2>2, <3>2
  <2> QED
    BY <2>1, <2>2
<1> HIDE DEF h
<1>3. UNCHANGED <<storage, state, list, writer, call>>
  BY <1>1, <1>2
<1>4. /\ state = "mounted" => IsMounted(storage, list, writer)
      /\ DOMAIN writer # {} => state \in {"mounted", "defect"}
  BY <1>1 DEF StorageInv, BetweenCalls
<1> QED
  BY <1>1, <1>3, <1>4, AloneFine

(* Steps of readers *)
LEMMA ReaderFine ==
  ASSUME StorageInv, call = Idle, UNCHANGED <<storage, state, list, writer, call>>
  PROVE  Fine
<1>1. /\ state = "mounted" => IsMounted(storage, list, writer)
      /\ DOMAIN writer # {} => state \in {"mounted", "defect"}
  BY DEF StorageInv, BetweenCalls
<1> QED
  BY <1>1, AloneFine

LEMMA MountStep1Fine ==
  ASSUME StorageInv, MountStep1
  PROVE  Fine
<1>1. /\ call = Idle /\ state = "not_mounted" /\ state' = "ro_mount"
      /\ UNCHANGED <<storage, aux, list, writer, reader, call>>
  BY DEF MountStep1
<1>2. DOMAIN writer = {}
  BY <1>1 DEF StorageInv, BetweenCalls
<1> QED
  BY <1>1, <1>2, AloneFine

LEMMA UnmountFine ==
  ASSUME StorageInv, Unmount
  PROVE  Fine
<1>1. /\ call = Idle /\ DOMAIN writer = {} /\ state' = "not_mounted"
      /\ UNCHANGED <<storage, aux, list, writer, reader, call>>
  BY DEF Unmount, AnyLocks
<1> QED
  BY <1>1, AloneFine

IsNewCall(c, ws, ch, l, wr, lo) ==
  c = [writes |-> ws, change |-> ch, state |-> "mounted", list |-> l, writer |-> wr, lost |-> lo]

(* A call begins whose storage is not mounted until it is complete. *)
LEMMA BeginsUnmounted ==
  ASSUME StorageAssumption, StorageInv, call = Idle,
         NEW ws \in Seq(Writes), ws # <<>>, NEW l, NEW wr, NEW ch, NEW lo, DOMAIN lo = {},
         IsMounted(After(storage, ws), l, wr), \A y \in ToSet(ws) : y[2].type # "head",
         NEW c, IsNewCall(c, ws, ch, l, wr, lo),
         call' = c, UNCHANGED storage, state' # "defect"
  PROVE  Fine
<1>1. IsPending(c, storage) /\ c.writes = ws /\ c.lost = lo /\ c # Idle
  BY Pending DEF IsNewCall
<1>2. IsPending(call', storage') /\ call'.writes = ws /\ call'.lost = lo /\ call' # Idle
  BY <1>1
<1>3. IsStorage(storage) /\ Compatible(HeadPairs(storage))
  BY IdleWrites DEF StorageInv
<1>4. Compatible(HeadsAhead(storage', call'.writes)) /\ IsStorage(storage')
  BY <1>2, <1>3, HeadsSame
<1>5. DuringCall'
  BY <1>2 DEF DuringCall
<1>6. StorageInv'
  BY <1>2, <1>4, <1>5 DEF StorageInv
<1> QED
  BY <1>6 DEF Fine

LEMMA MountStep2Fine ==
  ASSUME StorageAssumption, StorageInv, MountStep2
  PROVE  Fine
<1> DEFINE work == Repair(storage)
           c == [writes |-> work.writes, change |-> Nothing, state |-> "mounted",
                 list |-> work.list, writer |-> writer, lost |-> writer]
<1>1. call = Idle /\ DOMAIN writer = {}
  BY DEF MountStep2, AnyLocks
<1>2. IsStorage(storage) /\ FewRivals(storage)
  BY CompatibleFew DEF StorageInv
<1>3. IsCall(storage, work, writer) /\ \A y \in ToSet(work.writes) : y[2].type = "free"
  BY <1>1, <1>2, RepairKeeps
<1>4. /\ work.ok /\ work.writes \in Seq(Writes)
      /\ IsMounted(After(storage, work.writes), work.list, writer)
  BY <1>3 DEF IsCall
<1>5. /\ UNCHANGED <<storage, sections, writer, reader>>
      /\ IF work.writes = <<>>
         THEN state' = "mounted" /\ list' = work.list /\ UNCHANGED call
         ELSE state' = "checking" /\ call' = c
  BY <1>4 DEF MountStep2
<1> HIDE DEF work
<1>6. CASE work.writes = <<>>
  <2>1. After(storage, work.writes) = storage
    BY <1>2, <1>6, AfterNothing DEF IsStorage
  <2>2. IsMounted(storage, list', writer')
    BY <1>4, <1>5, <1>6, <2>1
  <2> QED
    BY <1>1, <1>5, <1>6, <2>2, AloneFine
<1>7. CASE work.writes # <<>>
  <2>1. state' = "checking" /\ call' = c /\ UNCHANGED storage
    BY <1>5, <1>7
  <2>2. \A y \in ToSet(work.writes) : y[2].type # "head"
    BY <1>3
  <2> QED
    BY <1>1, <1>4, <1>7, <2>1, <2>2, BeginsUnmounted DEF IsNewCall
<1> QED
  BY <1>6, <1>7

LEMMA FormatFine ==
  ASSUME StorageAssumption, StorageInv, Format
  PROVE  Fine
<1> DEFINE change == [n \in Names |-> <<>>]
           c == [writes |-> FormatWrites, change |-> change, state |-> "mounted",
                 list |-> AllFree, writer |-> Nothing, lost |-> Nothing]
<1>1. call = Idle /\ state = "not_mounted" /\ call' = c /\ UNCHANGED <<storage, state>>
  BY DEF Format, FormatWrites
<1>2. IsStorage(storage) /\ DOMAIN Nothing = {}
  BY DEF StorageInv, Nothing
<1>3. FormatWrites \in Seq(Writes) /\ FormatWrites # <<>>
      /\ IsMounted(After(storage, FormatWrites), AllFree, Nothing)
      /\ \A y \in ToSet(FormatWrites) : y[2].type # "head"
  BY <1>2, FormatKeeps
<1> HIDE DEF change
<1> QED
  BY <1>1, <1>2, <1>3, BeginsUnmounted DEF IsNewCall

LEMMA CallExcept ==
  ASSUME NEW a, NEW b, NEW c, NEW d, NEW e, NEW f, NEW t, NEW r,
         r = [[writes |-> a, change |-> b, state |-> c, list |-> d, writer |-> e, lost |-> f]
                EXCEPT !.writes = t]
  PROVE  r = [writes |-> t, change |-> b, state |-> c, list |-> d, writer |-> e, lost |-> f]
<1>1. r.writes = t /\ r.change = b /\ r.state = c /\ r.list = d /\ r.writer = e /\ r.lost = f
  OBVIOUS
<1>2. r = [writes |-> r.writes, change |-> r.change, state |-> r.state, list |-> r.list,
           writer |-> r.writer, lost |-> r.lost]
  OBVIOUS
<1> QED
  BY <1>1, <1>2

IsCallRecord(c) ==
  c = [writes |-> c.writes, change |-> c.change, state |-> "mounted",
       list |-> c.list, writer |-> c.writer, lost |-> c.lost]
IsRest(r, c, t) == r = [c EXCEPT !.writes = t]

LEMMA CallGoesOn ==
  ASSUME NEW c, IsCallRecord(c), NEW t, NEW r, IsRest(r, c, t)
  PROVE  r = [writes |-> t, change |-> c.change, state |-> "mounted",
              list |-> c.list, writer |-> c.writer, lost |-> c.lost]
<1> DEFINE ch == c.change
           li == c.list
           wr == c.writer
           lo == c.lost
           vs == c.writes
           d == [writes |-> vs, change |-> ch, state |-> "mounted", list |-> li,
                 writer |-> wr, lost |-> lo]
<1>1. c = d
  BY DEF IsCallRecord
<1>2. r = [d EXCEPT !.writes = t]
  BY <1>1, Zenon DEF IsRest
<1> HIDE DEF ch, li, wr, lo, vs
<1>3. r = [writes |-> t, change |-> ch, state |-> "mounted", list |-> li, writer |-> wr, lost |-> lo]
  BY <1>2, CallExcept
<1> QED
  BY <1>3 DEF ch, li, wr, lo

LEMMA StoreBlockFine ==
  ASSUME StorageAssumption, StorageInv, StoreBlock
  PROVE  Fine
<1> DEFINE vs == call.writes
           st2 == [storage EXCEPT ![Head(vs)[1]] = Head(vs)[2]]
<1>1. /\ call # Idle /\ storage' = st2
      /\ IF Len(vs) > 1
         THEN call' = [call EXCEPT !.writes = Tail(@)] /\ UNCHANGED <<state, list, writer>>
         ELSE call' = Idle /\ state' = call.state /\ list' = call.list /\ writer' = call.writer
  BY DEF StoreBlock
<1>2. IsStorage(storage) /\ Compatible(HeadsAhead(storage, vs)) /\ DuringCall
  BY <1>1 DEF StorageInv
<1>3. /\ vs \in Seq(Writes) /\ vs # <<>> /\ IsMounted(After(storage, vs), call.list, call.writer)
      /\ call = [writes |-> call.writes, change |-> call.change, state |-> "mounted",
                 list |-> call.list, writer |-> call.writer, lost |-> call.lost]
  BY <1>2 DEF DuringCall, IsPending
<1>4. /\ IsStorage(st2) /\ After(st2, Tail(vs)) = After(storage, vs) /\ Tail(vs) \in Seq(Writes)
      /\ HeadsAhead(st2, Tail(vs)) \subseteq HeadsAhead(storage, vs)
      /\ HeadPairs(st2) \subseteq HeadsAhead(storage, vs)
  BY <1>2, <1>3, StoreKeeps DEF IsStored
<1> HIDE DEF st2
<1>5. Compatible(HeadsAhead(st2, Tail(vs))) /\ Compatible(HeadPairs(st2))
  BY <1>2, <1>4, CompatibleSubset
<1>6. CASE Len(vs) > 1
  <2> DEFINE t == Tail(vs)
             c == [writes |-> t, change |-> call.change, state |-> "mounted",
                   list |-> call.list, writer |-> call.writer, lost |-> call.lost]
  <2>1. t # <<>>
    BY <1>3, <1>6, MoreWrites
  <2>2. call' = [call EXCEPT !.writes = t] /\ state' = state
    BY <1>1, <1>6
  <2>3. call' = c
    <3>1. call = [writes |-> call.writes, change |-> call.change, state |-> "mounted",
                  list |-> call.list, writer |-> call.writer, lost |-> call.lost]
      BY <1>3
    <3> HIDE DEF t
    <3> QED
      BY <2>2, <3>1, CallGoesOn DEF IsCallRecord, IsRest
  <2>4. t \in Seq(Writes) /\ IsMounted(After(st2, t), call.list, call.writer)
    BY <1>3, <1>4
  <2> DEFINE ch == call.change
             li == call.list
             wr == call.writer
             lo == call.lost
  <2>9. IsMounted(After(st2, t), li, wr) /\ t \in Seq(Writes)
    BY <2>4
  <2>10. c = [writes |-> t, change |-> ch, state |-> "mounted", list |-> li, writer |-> wr,
              lost |-> lo]
    OBVIOUS
  <2> HIDE DEF t, ch, li, wr, lo, c
  <2>11. IsPending(c, st2) /\ c.writes = t /\ c.lost = lo /\ c # Idle
    BY <2>1, <2>9, <2>10, Pending
  <2>5. IsPending(c, st2) /\ c.writes = t /\ c.lost = call.lost /\ c # Idle
    BY <2>11 DEF lo
  <2> HIDE DEF c
  <2>6. DuringCall'
    BY <1>1, <1>2, <2>2, <2>3, <2>5 DEF DuringCall
  <2>7. Compatible(HeadsAhead(storage', call'.writes)) /\ IsStorage(storage') /\ call' # Idle
    BY <1>1, <1>4, <1>5, <2>3, <2>5 DEF t
  <2>8. StorageInv'
    BY <2>6, <2>7 DEF StorageInv
  <2> QED
    BY <2>2, <2>8 DEF Fine
<1>7. CASE ~ (Len(vs) > 1)
  <2>1. Tail(vs) = <<>>
    BY <1>3, <1>7, LastWrite
  <2>2. After(st2, <<>>) = st2
    BY <1>4, AfterNothing DEF IsStorage
  <2>3. IsMounted(st2, call.list, call.writer)
    BY <1>3, <1>4, <2>1, <2>2
  <2>4. /\ call' = Idle /\ state' = "mounted" /\ list' = call.list /\ writer' = call.writer
        /\ storage' = st2
    BY <1>1, <1>3, <1>7
  <2>5. BetweenCalls'
    BY <2>3, <2>4 DEF BetweenCalls
  <2>6. Compatible(HeadsAhead(storage', call'.writes)) /\ IsStorage(storage')
    BY <1>4, <1>5, <2>4, IdleWrites
  <2>7. StorageInv'
    BY <2>4, <2>5, <2>6 DEF StorageInv
  <2> QED
    BY <2>4, <2>7 DEF Fine
<1> QED
  BY <1>6, <1>7

(* What is left when a write is cut off *)
LEMMA CutOffKeeps ==
  ASSUME StorageAssumption, StorageInv, NEW st2 \in CutOff
  PROVE  IsStorage(st2) /\ Compatible(HeadPairs(st2))
<1>1. IsStorage(storage) /\ Compatible(HeadsAhead(storage, call.writes))
  BY DEF StorageInv
<1>2. HeadPairs(storage) \subseteq HeadsAhead(storage, call.writes)
  BY DEF HeadsAhead
<1>3. Compatible(HeadPairs(storage))
  BY <1>1, <1>2, CompatibleSubset
<1>4. CASE st2 = storage
  BY <1>1, <1>3, <1>4
<1>5. CASE st2 # storage
  <2> DEFINE y == Head(call.writes)
  <2>1. call # Idle /\ \E b \in Torn(storage[y[1]], y[2]) : st2 = [storage EXCEPT ![y[1]] = b]
    BY <1>5 DEF CutOff
  <2>2. call.writes \in Seq(Writes) /\ call.writes # <<>>
    BY <2>1 DEF StorageInv, DuringCall, IsPending
  <2>3. y \in Writes
    BY <2>2, HeadTailSet
  <2> HIDE DEF y
  <2>4. IsStorage(st2) /\ HeadPairs(st2) \subseteq HeadPairs(storage)
    BY <1>1, <2>1, <2>3, TornKeeps DEF IsStored
  <2> QED
    BY <1>3, <2>4, CompatibleSubset
<1> QED
  BY <1>4, <1>5

LEMMA PowerFailFine ==
  ASSUME StorageAssumption, StorageInv, PowerFail
  PROVE  Fine
<1>1. /\ storage' \in CutOff /\ state' = "not_mounted" /\ writer' = Nothing /\ call' = Idle
  BY DEF PowerFail
<1>2. IsStorage(storage') /\ Compatible(HeadPairs(storage'))
  BY <1>1, CutOffKeeps
<1>3. DOMAIN Nothing = {}
  BY DEF Nothing
<1>4. BetweenCalls'
  BY <1>1, <1>3 DEF BetweenCalls
<1>5. Compatible(HeadsAhead(storage', call'.writes))
  BY <1>1, <1>2, IdleWrites
<1>6. StorageInv'
  BY <1>1, <1>2, <1>4, <1>5 DEF StorageInv
<1> QED
  BY <1>1, <1>6 DEF Fine

LEMMA WriteFailsFine ==
  ASSUME StorageAssumption, StorageInv, WriteFails
  PROVE  Fine
<1> DEFINE vs == call.writes
           st2 == [storage EXCEPT ![Head(vs)[1]] = Head(vs)[2]]
<1>1. /\ call # Idle /\ storage' \in CutOff \cup {st2}
      /\ state' = IF state = "not_mounted" THEN "not_mounted" ELSE "defect"
      /\ writer' = call.lost /\ call' = Idle
  BY DEF WriteFails
<1>2. IsStorage(storage) /\ Compatible(HeadsAhead(storage, vs)) /\ DuringCall
  BY <1>1 DEF StorageInv
<1>3. /\ vs \in Seq(Writes) /\ vs # <<>>
      /\ call = [writes |-> call.writes, change |-> call.change, state |-> "mounted",
                 list |-> call.list, writer |-> call.writer, lost |-> call.lost]
      /\ state = "not_mounted" => DOMAIN call.lost = {}
  BY <1>2 DEF DuringCall, IsPending
<1>4. call.state = "mounted"
  BY <1>3
<1>5. IsStorage(storage') /\ Compatible(HeadPairs(storage'))
  <2>1. CASE storage' \in CutOff
    BY <2>1, CutOffKeeps
  <2>2. CASE storage' = st2
    <3>1. IsStorage(st2) /\ HeadPairs(st2) \subseteq HeadsAhead(storage, vs)
      BY <1>2, <1>3, StoreKeeps DEF IsStored
    <3> HIDE DEF st2
    <3>2. Compatible(HeadPairs(st2))
      BY <1>2, <3>1, CompatibleSubset
    <3> QED
      BY <2>2, <3>1, <3>2
  <2> QED
    BY <1>1, <2>1, <2>2
<1>6. BetweenCalls'
  BY <1>1, <1>3 DEF BetweenCalls
<1>7. Compatible(HeadsAhead(storage', call'.writes))
  BY <1>1, <1>5, IdleWrites
<1>8. StorageInv'
  BY <1>1, <1>5, <1>6, <1>7 DEF StorageInv
<1> QED
  BY <1>1, <1>4, <1>8 DEF Fine

LEMMA StepFine ==
  ASSUME StorageAssumption, StorageInv, Next
  PROVE  Fine
<1>1. ASSUME NEW n \in Names, NEW tag \in Tags, NEW overwrite \in BOOLEAN,
             Create(n, overwrite, tag)
      PROVE  Fine
  BY <1>1, CreateFine
<1>2. ASSUME NEW n \in Names, Push(n) PROVE Fine
  BY <1>2, PushFine
<1>3. ASSUME NEW n \in Names, CloseOpen(n) PROVE Fine
  BY <1>3, CloseOpenFine
<1>4. ASSUME NEW n \in Names, CloseCrashed(n) PROVE Fine
  BY <1>4, CloseCrashedFine
<1>5. ASSUME NEW n \in Names, Delete(n) PROVE Fine
  BY <1>5, DeleteFine
<1>6. ASSUME NEW n \in Names, NEW to \in Names, Rename(n, to) PROVE Fine
  BY <1>6, RenameFine
<1>7. ASSUME NEW n \in Names, Open(n) PROVE Fine
  BY <1>7, OpenFine
<1>8. ASSUME NEW n \in Names, Read(n) \/ CloseReader(n) PROVE Fine
  <2>1. call = Idle /\ UNCHANGED <<storage, state, list, writer, call>>
    BY <1>8 DEF Read, CloseReader
  <2> QED
    BY <2>1, ReaderFine
<1> QED
  BY <1>1, <1>2, <1>3, <1>4, <1>5, <1>6, <1>7, <1>8, MountStep1Fine, MountStep2Fine,
     UnmountFine, FormatFine, StoreBlockFine, PowerFailFine, WriteFailsFine DEF Next

LEMMA StutterFine ==
  ASSUME StorageInv, UNCHANGED vars
  PROVE  Fine
<1>1. UNCHANGED <<storage, state, list, writer, call>>
  BY DEF vars
<1>2. StorageInv'
  BY <1>1 DEF StorageInv, BetweenCalls, DuringCall
<1> QED
  BY <1>1, <1>2 DEF Fine

(* The invariant of the storage: it holds in every reachable state. *)
THEOREM StorageIsSound == Spec => []StorageInv
<1>1. Init => StorageInv
  BY StorageAssumption, InitInv
<1>2. StorageInv /\ [Next]_vars => StorageInv'
  BY StorageAssumption, StepFine, StutterFine DEF Fine
<1> QED
  BY <1>1, <1>2, PTL DEF Spec

THEOREM BlocksAreAccounted == Spec => []BlocksAccounted
<1>1. ASSUME StorageInv, call = Idle, state = "mounted"
      PROVE  /\ Len(FreeChain) = list.n
             /\ list.n > 0 => /\ Last(FreeChain) = list.end
                              /\ storage[list.end].next = NoBlock
             /\ \A p \in Places : \A q \in Places : p = q \/ p \cap q = {}
             /\ UNION Places = Block
             /\ LiveHeads(storage) = HeadsIn(storage)
             /\ \A n \in DOMAIN writer : writer[n].old = FindHead(storage, n)
  <2>1. PICK H, C : IsLayout(storage, list, writer, H, C)
    BY <1>1, Layouts
  <2> QED
    BY <2>1, StorageAssumption, LayoutAccounts
<1>2. StorageInv => BlocksAccounted
  BY <1>1 DEF BlocksAccounted
<1> QED
  BY <1>2, StorageIsSound, PTL

THEOREM OnlyTheDeviceMakesDefect == Spec => DefectOnlyByDevice
<1>1. StorageInv /\ [Next]_vars =>
        [state # "defect" /\ state' = "defect" => call # Idle /\ call.state # "defect"]_vars
  BY StorageAssumption, StepFine, StutterFine DEF Fine
<1> QED
  BY <1>1, StorageIsSound, PTL DEF Spec, DefectOnlyByDevice
=============================================================================
