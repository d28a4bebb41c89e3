------------------------- MODULE SectionStore_proofs -------------------------
(***************************************************************************)
(* Proofs that EEPROMSectionSystem implements SectionStore, and that       *)
(* readers see what it promises.  They rest on the invariant of the        *)
(* storage, StorageInv (EEPROMSectionSystem_proofs).                       *)
(*                                                                         *)
(* What a storage shows is the image of the heads that count (Alive): at   *)
(* which blocks each section is and what it contains (Image, Quiet).  The  *)
(* blocks that a call writes change this image at once (Atomic): all       *)
(* writes before that of the new head, or before the old one is            *)
(* overwritten, and all writes after it leave the image alone, and a torn  *)
(* block is no head.  The lemmas ...Changes say so of each call            *)
(* (Changes), RepairQuiet says that mounting changes nothing, and          *)
(* NewestFinds says what Open() finds before the storage is repaired.      *)
(*                                                                         *)
(* SectionInv, the invariant, relates the image to the auxiliary sections, *)
(* to the pending writes of the call in progress and to what the readers   *)
(* have read so far.                                                       *)
(***************************************************************************)
EXTENDS EEPROMSectionSystem_proofs

(* Where a section is, and what it contains. *)
TagsAlong(st, c) == [i \in 1..(Len(c) - 1) |-> TagOf(st[c[i + 1]])]
Named(st, H, n) == {h \in H : NameOf(st[h]) = n}
NoSection == [at |-> <<>>, is |-> <<>>]
SectionAt(st, c) == [at |-> c, is |-> TagsAlong(st, c)]
Image(st, H, C) ==
  [n \in Names |-> IF Named(st, H, n) = {} THEN NoSection
                   ELSE SectionAt(st, C[CHOOSE h \in Named(st, H, n) : TRUE])]
Contents(T) == [n \in Names |-> T[n].is]

LEMMA SectionWhole ==
  ASSUME StorageAssumption, NEW st, NEW c, IsSection(st, c), IsDistinct(c)
  PROVE  SectionOf(st, c[1]) = c /\ IsWhole(st, c[1]) /\ ContentOf(st, c[1]) = TagsAlong(st, c)
<1>1. SectionOf(st, c[1]) = c
  BY SectionFound
<1>2. c \in Seq(Block) /\ Len(c) \in Nat /\ Len(c) >= 2 /\ c # <<>>
  BY SectionBlocks
<1>3. IsWhole(st, c[1])
  <2>1. Last(c) = c[Len(c)]
    BY <1>2 DEF Last
  <2>2. Len(c) \in 2..Len(c) /\ ~ (Len(c) < Len(c))
    BY <1>2
  <2>3. st[c[Len(c)]].next = NoBlock
    BY <2>2 DEF IsSection
  <2> QED
    BY <1>1, <2>1, <2>3 DEF IsWhole
<1>4. ContentOf(st, c[1]) = TagsAlong(st, c)
  <2> DEFINE d == Tail(c)
  <2>1. DataBlocksOf(st, c[1]) = d
    BY <1>1 DEF DataBlocksOf
  <2>2. Len(d) = Len(c) - 1 /\ \A i \in 1..(Len(c) - 1) : d[i] = c[i + 1]
    BY <1>2
  <2> HIDE DEF d
  <2>3. ContentOf(st, c[1]) = [i \in 1..Len(d) |-> TagOf(st[d[i]])]
    BY <2>1 DEF ContentOf
  <2>4. [i \in 1..Len(d) |-> TagOf(st[d[i]])] = [i \in 1..(Len(c) - 1) |-> TagOf(st[c[i + 1]])]
    BY <2>2
  <2> QED
    BY <2>3, <2>4 DEF TagsAlong
<1> QED
  BY <1>1, <1>3, <1>4

(* These are the live heads. *)
LEMMA AliveLive ==
  ASSUME StorageAssumption, NEW st, NEW H, NEW C, Alive(st, H, C)
  PROVE  /\ LiveHeads(st) = H
         /\ \A h \in H : SectionOf(st, h) = C[h] /\ ContentOf(st, h) = TagsAlong(st, C[h])
<1>1. H \subseteq HeadsIn(st) /\ IsStorage(st)
  BY DEF Alive, Intact
<1>2. ASSUME NEW h \in H
      PROVE  SectionOf(st, h) = C[h] /\ IsWhole(st, h) /\ ContentOf(st, h) = TagsAlong(st, C[h])
  <2>1. C[h][1] = h /\ IsSection(st, C[h]) /\ IsDistinct(C[h])
    BY DEF Alive, Intact
  <2>2. SectionOf(st, C[h][1]) = C[h] /\ IsWhole(st, C[h][1])
        /\ ContentOf(st, C[h][1]) = TagsAlong(st, C[h])
    BY <2>1, SectionWhole
  <2> QED
    BY <2>1, <2>2
<1>3. ASSUME NEW h \in H, NEW c \in HeadsIn(st), Rivals(st, h, c) PROVE ~Loses(st, h, c)
  <2>1. Rivals(st, c, h) /\ c # h
    BY <1>3 DEF Rivals
  <2>2. c \notin H
    BY <1>3, <2>1 DEF Alive, Intact
  <2>3. Loses(st, c, h)
    BY <2>1, <2>2 DEF Alive
  <2> QED
    BY <1>1, <2>1, <2>3, OneLoses
<1>4. ASSUME NEW c \in HeadsIn(st), c \notin H PROVE c \notin LiveHeads(st)
  <2>1. PICK h \in H : Rivals(st, c, h)
    BY <1>4 DEF Alive
  <2>2. Loses(st, c, h)
    BY <1>4, <2>1 DEF Alive
  <2> QED
    BY <1>1, <2>1, <2>2 DEF LiveHeads
<1>5. \A h \in H : h \in LiveHeads(st)
  BY <1>1, <1>2, <1>3 DEF LiveHeads
<1>6. LiveHeads(st) \subseteq HeadsIn(st)
  BY DEF LiveHeads
<1> QED
  BY <1>2, <1>4, <1>5, <1>6

LEMMA ImageFields ==
  ASSUME NEW st, NEW H, NEW C, Intact(st, H, C), NEW n \in Names
  PROVE  /\ (\A h \in H : NameOf(st[h]) # n) => Image(st, H, C)[n] = NoSection
         /\ \A h \in H : NameOf(st[h]) = n => Image(st, H, C)[n] = SectionAt(st, C[h])
<1>1. ASSUME \A h \in H : NameOf(st[h]) # n PROVE Image(st, H, C)[n] = NoSection
  <2>1. Named(st, H, n) = {}
    BY <1>1 DEF Named
  <2> QED
    BY <2>1 DEF Image
<1>2. ASSUME NEW h \in H, NameOf(st[h]) = n
      PROVE  Image(st, H, C)[n] = SectionAt(st, C[h])
  <2>1. \A g \in H : NameOf(st[g]) = n => g = h
    BY <1>2 DEF Intact, Rivals
  <2>2. Named(st, H, n) = {h}
    BY <1>2, <2>1 DEF Named
  <2> DEFINE S == Named(st, H, n)
             k == CHOOSE g \in S : TRUE
  <2>3. k = h
    BY <2>2
  <2>4. S # {}
    BY <2>2
  <2>5. Image(st, H, C)[n] = SectionAt(st, C[k])
    BY <2>4 DEF Image
  <2> HIDE DEF k
  <2> QED
    BY <2>3, <2>5
<1> QED
  BY <1>1, <1>2

LEMMA ImageDomain ==
  ASSUME NEW st, NEW H, NEW C, NEW T, T = Image(st, H, C)
  PROVE  T = [n \in Names |-> T[n]]
BY DEF Image

(* What the storage contains. *)
LEMMA AliveSections ==
  ASSUME StorageAssumption, NEW st, NEW H, NEW C, Alive(st, H, C)
  PROVE  Sections(st) = Contents(Image(st, H, C))
<1>1. LiveHeads(st) = H /\ Intact(st, H, C)
  BY AliveLive DEF Alive
<1>2. ASSUME NEW h \in H PROVE ContentOf(st, h) = TagsAlong(st, C[h])
  BY AliveLive
<1>3. ASSUME NEW n \in Names
      PROVE  Image(st, H, C)[n].is =
               LET hs == {b \in LiveHeads(st) : NameOf(st[b]) = n}
               IN  IF hs = {} THEN <<>> ELSE ContentOf(st, CHOOSE b \in hs : TRUE)
  <2> DEFINE hs == {b \in LiveHeads(st) : NameOf(st[b]) = n}
             h == CHOOSE b \in hs : TRUE
  <2>1. hs = Named(st, H, n)
    BY <1>1 DEF Named
  <2>2. CASE hs = {}
    <3>1. \A g \in H : NameOf(st[g]) # n
      BY <2>1, <2>2 DEF Named
    <3>2. Image(st, H, C)[n] = NoSection
      BY <3>1, <1>1, ImageFields
    <3> QED
      BY <2>2, <3>2 DEF NoSection
  <2>3. CASE hs # {}
    <3>1. h \in hs
      BY <2>3
    <3>2. h \in H /\ NameOf(st[h]) = n
      BY <3>1, <2>1 DEF Named
    <3> HIDE DEF h
    <3>3. Image(st, H, C)[n] = SectionAt(st, C[h])
      BY <3>2, <1>1, ImageFields
    <3>4. SectionAt(st, C[h]).is = TagsAlong(st, C[h])
      BY DEF SectionAt
    <3>5. Image(st, H, C)[n].is = ContentOf(st, h)
      BY <3>2, <3>3, <3>4, <1>2
    <3> HIDE DEF hs
    <3> QED
      BY <2>3, <3>5 DEF h, hs
  <2> QED
    BY <2>2, <2>3
<1> QED
  BY <1>3, Zenon DEF Sections, Contents

(* There is one way only to say which sections count. *)
LEMMA ImageUnique ==
  ASSUME StorageAssumption, NEW st, NEW H, NEW C, Alive(st, H, C), NEW H2, NEW C2, Alive(st, H2, C2)
  PROVE  Image(st, H, C) = Image(st, H2, C2)
<1>1. H2 = H /\ \A h \in H : C2[h] = C[h]
  <2>1. LiveHeads(st) = H /\ \A h \in H : SectionOf(st, h) = C[h]
    BY AliveLive
  <2>2. LiveHeads(st) = H2 /\ \A h \in H2 : SectionOf(st, h) = C2[h]
    BY AliveLive
  <2> QED
    BY <2>1, <2>2
<1>2. Intact(st, H, C) /\ Intact(st, H2, C2)
  BY DEF Alive
<1>3. ASSUME NEW n \in Names PROVE Image(st, H, C)[n] = Image(st, H2, C2)[n]
  <2>1. CASE \A h \in H : NameOf(st[h]) # n
    BY <2>1, <1>1, <1>2, ImageFields
  <2>2. CASE \E h \in H : NameOf(st[h]) = n
    <3>1. PICK h \in H : NameOf(st[h]) = n
      BY <2>2
    <3>2. Image(st, H, C)[n] = SectionAt(st, C[h]) /\ Image(st, H2, C2)[n] = SectionAt(st, C2[h])
      BY <3>1, <1>1, <1>2, ImageFields
    <3> QED
      BY <3>2, <1>1
  <2> QED
    BY <2>1, <2>2
<1> DEFINE T == Image(st, H, C)
           T2 == Image(st, H2, C2)
<1>4. T = [n \in Names |-> T[n]] /\ T2 = [n \in Names |-> T2[n]]
  BY ImageDomain
<1>5. \A n \in Names : T[n] = T2[n]
  BY <1>3
<1> HIDE DEF T, T2
<1>6. T = T2
  BY <1>4, <1>5
<1> QED
  BY <1>6 DEF T, T2

(* Two storages show the same if the blocks of the sections are the same. *)
LEMMA ImageSame ==
  ASSUME NEW st, NEW H, NEW C, Intact(st, H, C), NEW st2, Intact(st2, H, C),
         \A h \in H : \A b \in ToSet(C[h]) : st2[b] = st[b]
  PROVE  Image(st2, H, C) = Image(st, H, C)
<1>1. ASSUME NEW h \in H
      PROVE  NameOf(st2[h]) = NameOf(st[h]) /\ SectionAt(st2, C[h]) = SectionAt(st, C[h])
  <2> DEFINE c == C[h]
  <2>1. c[1] = h /\ IsSection(st, c)
    BY DEF Intact
  <2>2. Len(c) \in Nat /\ c \in Seq(Block) /\ h \in ToSet(c)
    BY <2>1, SectionBlocks
  <2>3. \A b \in ToSet(c) : st2[b] = st[b]
    OBVIOUS
  <2> HIDE DEF c
  <2>4. \A i \in 1..(Len(c) - 1) : st2[c[i + 1]] = st[c[i + 1]]
    <3>1. \A i \in 1..(Len(c) - 1) : i + 1 \in 1..Len(c)
      BY <2>2
    <3> QED
      BY <3>1, <2>2, <2>3, SetOf
  <2>5. TagsAlong(st2, c) = TagsAlong(st, c)
    BY <2>4 DEF TagsAlong
  <2> QED
    BY <2>2, <2>3, <2>5 DEF SectionAt, c
<1>2. ASSUME NEW n \in Names PROVE Image(st2, H, C)[n] = Image(st, H, C)[n]
  <2>1. CASE \A h \in H : NameOf(st[h]) # n
    BY <2>1, <1>1, ImageFields
  <2>2. CASE \E h \in H : NameOf(st[h]) = n
    <3>1. PICK h \in H : NameOf(st[h]) = n
      BY <2>2
    <3>2. NameOf(st2[h]) = n
      BY <3>1, <1>1
    <3>3. Image(st, H, C)[n] = SectionAt(st, C[h]) /\ Image(st2, H, C)[n] = SectionAt(st2, C[h])
      BY <3>1, <3>2, ImageFields
    <3> QED
      BY <3>3, <1>1
  <2> QED
    BY <2>1, <2>2
<1> DEFINE T == Image(st, H, C)
           T2 == Image(st2, H, C)
<1>3. T = [n \in Names |-> T[n]] /\ T2 = [n \in Names |-> T2[n]]
  BY ImageDomain
<1>4. \A n \in Names : T2[n] = T[n]
  BY <1>2
<1> HIDE DEF T, T2
<1>5. T2 = T
  BY <1>3, <1>4
<1> QED
  BY <1>5 DEF T, T2

(* Sections stay, as long as their blocks do. *)
LEMMA IntactStays ==
  ASSUME NEW st, NEW H, NEW C, Intact(st, H, C), NEW st2, IsStorage(st2),
         \A h \in H : \A b \in ToSet(C[h]) : st2[b] = st[b]
  PROVE  /\ Intact(st2, H, C) /\ \A h \in H : st2[h] = st[h] /\ h \in HeadsIn(st2)
<1>1. ASSUME NEW h \in H
      PROVE  C[h][1] = h /\ IsSection(st, C[h]) /\ IsSection(st2, C[h]) /\ IsDistinct(C[h])
             /\ st2[h] = st[h] /\ h \in HeadsIn(st2)
  <2>1. C[h][1] = h /\ IsSection(st, C[h]) /\ IsDistinct(C[h]) /\ h \in HeadsIn(st)
    BY DEF Intact
  <2>2. h \in ToSet(C[h])
    BY <2>1, SectionBlocks
  <2>3. st2[h] = st[h]
    BY <2>2
  <2>4. IsSection(st2, C[h])
    BY <2>1, SectionStays
  <2>5. h \in HeadsIn(st2)
    BY <2>1, <2>3 DEF HeadsIn
  <2> QED
    BY <2>1, <2>3, <2>4, <2>5
<1>2. ASSUME NEW g \in H, NEW h \in H, g # h
      PROVE  ToSet(C[g]) \cap ToSet(C[h]) = {} /\ ~Rivals(st2, g, h)
  <2>1. ToSet(C[g]) \cap ToSet(C[h]) = {} /\ ~Rivals(st, g, h)
    BY <1>2 DEF Intact
  <2> QED
    BY <2>1, <1>1 DEF Rivals
<1> QED
  BY <1>1, <1>2, Zenon DEF Intact

LEMMA AliveStays ==
  ASSUME NEW st, NEW H, NEW C, Alive(st, H, C), NEW st2, IsStorage(st2),
         \A h \in H : \A b \in ToSet(C[h]) : st2[b] = st[b],
         \A b \in HeadsIn(st2) : b \in HeadsIn(st) /\ st2[b] = st[b]
  PROVE  Alive(st2, H, C) /\ Image(st2, H, C) = Image(st, H, C)
<1>1. Intact(st, H, C)
  BY DEF Alive
<1>2. Intact(st2, H, C) /\ \A h \in H : st2[h] = st[h]
  BY <1>1, IntactStays
<1>3. ASSUME NEW c \in HeadsIn(st2) \ H
      PROVE  /\ \E h \in H : Rivals(st2, c, h)
             /\ \A h \in H : Rivals(st2, c, h) => Loses(st2, c, h)
  <2>1. c \in HeadsIn(st) \ H /\ st2[c] = st[c]
    OBVIOUS
  <2>2. \A h \in H : (Rivals(st2, c, h) <=> Rivals(st, c, h)) /\ (Loses(st2, c, h) <=> Loses(st, c, h))
    BY <2>1, <1>2 DEF Rivals, Loses
  <2>3. /\ \E h \in H : Rivals(st, c, h)
        /\ \A h \in H : Rivals(st, c, h) => Loses(st, c, h)
    BY <2>1 DEF Alive
  <2> QED
    BY <2>2, <2>3
<1>4. Alive(st2, H, C)
  BY <1>2, <1>3 DEF Alive
<1> QED
  BY <1>1, <1>2, <1>4, ImageSame

-----------------------------------------------------------------------------
(* The storage shows T, and the writes vs change nothing about that. *)
Harmless(H, C, w) ==
  /\ w[1] \in Block /\ w[2].type # "head"
  /\ \A h \in H : w[1] \notin ToSet(C[h])
Quiet(st, vs, T) ==
  \E H, C : /\ Alive(st, H, C) /\ Image(st, H, C) = T
            /\ \A w \in ToSet(vs) : Harmless(H, C, w)
Stored(st, w) == [st EXCEPT ![w[1]] = w[2]]
CutsOff(st, w) == {[st EXCEPT ![w[1]] = x] : x \in Torn(st[w[1]], w[2])}

LEMMA QuietAtAll ==
  ASSUME NEW st, NEW vs, NEW T, Quiet(st, vs, T)
  PROVE  Quiet(st, <<>>, T) /\ IsStorage(st)
<1>1. ToSet(<<>>) = {}
  BY DEF ToSet
<1>2. PICK H, C : Alive(st, H, C) /\ Image(st, H, C) = T
  BY DEF Quiet
<1>3. IsStorage(st)
  BY <1>2 DEF Alive, Intact
<1> QED
  BY <1>1, <1>2, <1>3 DEF Quiet

LEMMA QuietSections ==
  ASSUME StorageAssumption, NEW st, NEW vs, NEW T, Quiet(st, vs, T)
  PROVE  Sections(st) = Contents(T)
BY AliveSections DEF Quiet

LEMMA QuietUnique ==
  ASSUME StorageAssumption, NEW st, NEW vs, NEW T, Quiet(st, vs, T), NEW us, NEW U, Quiet(st, us, U)
  PROVE  T = U
BY ImageUnique DEF Quiet

LEMMA StoredFields ==
  ASSUME StorageAssumption, NEW st, IsStorage(st), NEW b \in 0..(NBlocks - 1), NEW x,
         NEW st2, IsStored(st2, st, b, x)
  PROVE  st2[b] = x /\ \A c \in Block : c # b => st2[c] = st[c]
<1>1. DOMAIN st = 0..(NBlocks - 1)
  BY DEF IsStorage
<1>2. Block \subseteq 0..(NBlocks - 1)
  BY Sizes DEF Block
<1> QED
  BY <1>1, <1>2 DEF IsStored

LEMMA StoredIsStorage ==
  ASSUME StorageAssumption, NEW st, IsStorage(st), NEW y \in Writes
  PROVE  IsStorage(Stored(st, y))
<1> DEFINE vs == <<y>>
<1>1. vs \in Seq(Writes) /\ vs # <<>> /\ Head(vs) = y
  OBVIOUS
<1> HIDE DEF vs
<1> QED
  BY <1>1, StoreKeeps DEF IsStored, Stored

LEMMA CutFields ==
  ASSUME StorageAssumption, NEW st, IsStorage(st), NEW y \in Writes, NEW st2 \in CutsOff(st, y)
  PROVE  /\ IsStorage(st2) /\ \A b \in Block : b # y[1] => st2[b] = st[b]
         /\ y[1] \in Block => ~ st2[y[1]].ok
<1> DEFINE a == y[1]
           new == y[2]
<1>1. PICK x \in Torn(st[a], new) : IsStored(st2, st, a, x)
  BY DEF CutsOff, IsStored
<1>2. IsStorage(st2)
  BY <1>1, TornKeeps
<1>3. a \in 0..(NBlocks - 1) /\ (a \in Block => new \in Content)
  BY WriteFields
<1>4. st2[a] = x /\ \A b \in Block : b # a => st2[b] = st[b]
  <2> HIDE DEF a
  <2> QED
    BY <1>1, <1>3, StoredFields
<1>5. ASSUME a \in Block PROVE ~ x.ok
  <2> HIDE DEF a, new
  <2>1. x.ok = FALSE
    BY <1>1, <1>3, <1>5, TornFields
  <2> QED
    BY <2>1
<1> QED
  BY <1>2, <1>4, <1>5

(* A block outside of the sections may become anything but a head. *)
LEMMA AliveApart ==
  ASSUME StorageAssumption, NEW st, NEW H, NEW C, Alive(st, H, C), NEW st2, IsStorage(st2),
         NEW a, \A h \in H : a \notin ToSet(C[h]),
         \A b \in Block : b # a => st2[b] = st[b],
         a \in Block => ~ IsReadable(st2[a], "head")
  PROVE  Alive(st2, H, C) /\ Image(st2, H, C) = Image(st, H, C)
<1>1. \A h \in H : \A b \in ToSet(C[h]) : b \in Block
  BY SectionBlocks DEF Alive, Intact
<1>2. \A h \in H : \A b \in ToSet(C[h]) : st2[b] = st[b]
  BY <1>1
<1>3. \A b \in HeadsIn(st2) : b \in HeadsIn(st) /\ st2[b] = st[b]
  BY DEF HeadsIn
<1> QED
  BY <1>2, <1>3, AliveStays

LEMMA AliveStored ==
  ASSUME StorageAssumption, NEW st, NEW H, NEW C, Alive(st, H, C),
         NEW y \in Writes, \A h \in H : y[1] \notin ToSet(C[h])
  PROVE  /\ y[2].type # "head" => Alive(Stored(st, y), H, C)
                                  /\ Image(Stored(st, y), H, C) = Image(st, H, C)
         /\ \A x \in CutsOff(st, y) : Alive(x, H, C) /\ Image(x, H, C) = Image(st, H, C)
<1>1. IsStorage(st)
  BY DEF Alive, Intact
<1>2. ASSUME y[2].type # "head"
      PROVE  Alive(Stored(st, y), H, C) /\ Image(Stored(st, y), H, C) = Image(st, H, C)
  <2> DEFINE st2 == Stored(st, y)
  <2> DEFINE a == y[1]
             new == y[2]
  <2>1. st2[a] = new /\ \A b \in Block : b # a => st2[b] = st[b]
    <3>1. IsStored(st2, st, a, new)
      BY DEF Stored, IsStored
    <3>2. a \in 0..(NBlocks - 1)
      BY WriteFields
    <3> HIDE DEF a, st2, new
    <3> QED
      BY <1>1, <3>1, <3>2, StoredFields
  <2>2. IsStorage(st2)
    BY <1>1, StoredIsStorage
  <2>3. ~ IsReadable(st2[y[1]], "head")
    BY <1>2, <2>1 DEF IsReadable
  <2> HIDE DEF st2
  <2>4. Alive(st2, H, C) /\ Image(st2, H, C) = Image(st, H, C)
    BY <2>1, <2>2, <2>3, AliveApart
  <2> QED
    BY <2>4 DEF st2
<1>3. ASSUME NEW x \in CutsOff(st, y)
      PROVE  Alive(x, H, C) /\ Image(x, H, C) = Image(st, H, C)
  <2>1. IsStorage(x) /\ \A b \in Block : b # y[1] => x[b] = st[b]
    BY <1>1, CutFields
  <2>2. y[1] \in Block => ~ IsReadable(x[y[1]], "head")
    BY <1>1, CutFields DEF IsReadable
  <2> QED
    BY <2>1, <2>2, AliveApart
<1> QED
  BY <1>2, <1>3

LEMMA QuietStep ==
  ASSUME StorageAssumption, NEW st, NEW vs \in Seq(Writes), vs # <<>>, NEW T, Quiet(st, vs, T)
  PROVE  /\ Quiet(Stored(st, Head(vs)), Tail(vs), T)
         /\ \A x \in CutsOff(st, Head(vs)) : Quiet(x, <<>>, T)
<1> DEFINE y == Head(vs)
<1>1. PICK H, C : /\ Alive(st, H, C) /\ Image(st, H, C) = T
                  /\ \A w \in ToSet(vs) : Harmless(H, C, w)
  BY DEF Quiet
<1>2. y \in Writes /\ y \in ToSet(vs) /\ \A w \in ToSet(Tail(vs)) : w \in ToSet(vs)
  BY HeadTailSet
<1> HIDE DEF y
<1>3. y[2].type # "head" /\ \A h \in H : y[1] \notin ToSet(C[h])
  BY <1>1, <1>2 DEF Harmless
<1>4. Alive(Stored(st, y), H, C) /\ Image(Stored(st, y), H, C) = T
  BY <1>1, <1>2, <1>3, AliveStored
<1>5. \A x \in CutsOff(st, y) : Alive(x, H, C) /\ Image(x, H, C) = T
  BY <1>1, <1>2, <1>3, AliveStored
<1>6. \A w \in ToSet(Tail(vs)) : Harmless(H, C, w)
  BY <1>1, <1>2
<1>7. ToSet(<<>>) = {}
  BY DEF ToSet
<1> QED
  BY <1>4, <1>5, <1>6, <1>7 DEF Quiet, y

(* Between work and r only free blocks are written, in B, the first at a. *)
OnlyFrees(us, B) == us \in Seq(Writes) /\ \A w \in ToSet(us) : w[1] \in B /\ w[2].type = "free"
StartsAt(us, a) == us # <<>> /\ us[1][1] = a
Frees(work, r, B, a) ==
  \E us : r.writes = work.writes \o us /\ OnlyFrees(us, B) /\ StartsAt(us, a)

LEMMA WritesConcat ==
  ASSUME NEW a \in Seq(Writes), NEW b \in Seq(Writes), NEW c \in Seq(Writes)
  PROVE  (a \o b) \o c = a \o (b \o c) /\ b \o c \in Seq(Writes)
BY ConcatAssociative

LEMMA BothFree ==
  ASSUME NEW us, NEW vs, NEW B, NEW C, NEW a, OnlyFrees(us, B), StartsAt(us, a), OnlyFrees(vs, C), C \subseteq B
  PROVE  OnlyFrees(us \o vs, B) /\ StartsAt(us \o vs, a)
<1>1. us \in Seq(Writes) /\ vs \in Seq(Writes)
  BY DEF OnlyFrees
<1>2. ToSet(us \o vs) = ToSet(us) \cup ToSet(vs) /\ us \o vs \in Seq(Writes)
  BY <1>1, SetOfBoth
<1>3. us \o vs # <<>> /\ (us \o vs)[1] = us[1]
  <2>1. Len(us) \in Nat /\ Len(us) >= 1
    BY <1>1 DEF StartsAt
  <2>2. 1 \in 1..Len(us)
    BY <2>1
  <2>3. (us \o vs)[1] = us[1] /\ Len(us \o vs) = Len(us) + Len(vs) /\ Len(vs) \in Nat
    BY <1>1, <2>2, Concat
  <2> QED
    BY <2>1, <2>3
<1> QED
  BY <1>2, <1>3 DEF OnlyFrees, StartsAt

LEMMA FreesThen ==
  ASSUME NEW work, NEW r, NEW s, NEW B, NEW C, NEW a, work.writes \in Seq(Writes),
         Frees(work, r, B, a), C \subseteq B,
         NEW vs, s.writes = r.writes \o vs, OnlyFrees(vs, C)
  PROVE  Frees(work, s, B, a)
<1>1. PICK us : r.writes = work.writes \o us /\ OnlyFrees(us, B) /\ StartsAt(us, a)
  BY DEF Frees
<1>2. us \in Seq(Writes) /\ vs \in Seq(Writes)
  BY <1>1 DEF OnlyFrees
<1> DEFINE ws == work.writes
<1>3. s.writes = work.writes \o (us \o vs)
  <2>1. ws \in Seq(Writes) /\ s.writes = (ws \o us) \o vs
    BY <1>1
  <2> HIDE DEF ws
  <2>2. (ws \o us) \o vs = ws \o (us \o vs)
    BY <2>1, <1>2, WritesConcat
  <2>3. s.writes = ws \o (us \o vs)
    BY <2>1, <2>2
  <2> QED
    BY <2>3 DEF ws
<1>4. OnlyFrees(us \o vs, B) /\ StartsAt(us \o vs, a)
  BY <1>1, BothFree
<1> QED
  BY <1>3, <1>4 DEF Frees

LEMMA OneFree ==
  ASSUME NEW a \in Block, NEW x \in Link
  PROVE  OnlyFrees(<<<<a, FreeBlock(x)>>>>, {a})
<1> DEFINE b == FreeBlock(x)
           y == <<a, b>>
<1>1. b \in Content /\ b.type = "free"
  BY FreeContent, FreeFields
<1> HIDE DEF b
<1>2. y \in Writes /\ y[1] = a /\ y[2] = b
  BY <1>1 DEF Writes
<1> HIDE DEF y
<1>3. <<y>> \in Seq(Writes) /\ ToSet(<<y>>) = {y}
  BY <1>2, OneBlock
<1>4. OnlyFrees(<<y>>, {a})
  BY <1>1, <1>2, <1>3 DEF OnlyFrees
<1> QED
  BY <1>4 DEF y, b

LEMMA LinkingFrees ==
  ASSUME NEW bs \in Seq(Block), bs # <<>>, NEW vs, IsLinking(vs, bs)
  PROVE  OnlyFrees(vs, ToSet(bs)) /\ StartsAt(vs, bs[1])
<1> DEFINE n == Len(bs)
           new(i) == FreeBlock(IF i < n THEN bs[i + 1] ELSE NoBlock)
<1>1. n \in Nat /\ n >= 1 /\ bs \in [1..n -> Block]
  OBVIOUS
<1>2. vs = [i \in 1..n |-> <<bs[i], new(i)>>]
  BY DEF IsLinking
<1>3. ASSUME NEW i \in 1..n
      PROVE  <<bs[i], new(i)>> \in Writes /\ new(i).type = "free"
  <2>1. bs[i] \in Block /\ (i < n => bs[i + 1] \in Block)
    BY <1>1
  <2> DEFINE x == IF i < n THEN bs[i + 1] ELSE NoBlock
             b == FreeBlock(x)
  <2>2. x \in Link
    BY <2>1 DEF Link
  <2> HIDE DEF x
  <2>3. b \in Content /\ b.type = "free"
    BY <2>2, FreeContent, FreeFields
  <2>4. new(i) = b
    BY DEF x
  <2> HIDE DEF b
  <2> QED
    BY <2>1, <2>3, <2>4 DEF Writes
<1> HIDE DEF new, n
<1>4. vs \in Seq(Writes) /\ Len(vs) = n
  <2>1. vs \in [1..n -> Writes]
    BY <1>2, <1>3
  <2> QED
    BY <2>1, <1>1, IsSequence
<1>5. ASSUME NEW w \in ToSet(vs) PROVE w[1] \in ToSet(bs) /\ w[2].type = "free"
  <2>1. PICK i \in 1..n : w = vs[i]
    BY <1>4, SetOf
  <2>2. w = <<bs[i], new(i)>>
    BY <2>1, <1>2
  <2>3. bs[i] \in ToSet(bs)
    BY SetOf DEF n
  <2> QED
    BY <2>2, <2>3, <1>3
<1>6. StartsAt(vs, bs[1])
  <2>1. 1 \in 1..n
    BY <1>1
  <2>2. vs[1] = <<bs[1], new(1)>>
    BY <1>2, <2>1
  <2>3. vs # <<>>
    BY <1>1, <1>4
  <2> QED
    BY <2>2, <2>3 DEF StartsAt
<1> QED
  BY <1>4, <1>5, <1>6 DEF OnlyFrees

LEMMA NotOk ==
  ASSUME NEW st0, NEW work, IsWork(st0, work), NEW r, r.ok
  PROVE  r # [work EXCEPT !.ok = FALSE]
<1>1. [work EXCEPT !.ok = FALSE].ok = FALSE
  <2> DEFINE a == After(st0, work.writes)
             b == work.list
             c == work.writes
  <2>1. work = [st |-> a, list |-> b, writes |-> c, ok |-> TRUE]
    BY DEF IsWork
  <2> HIDE DEF a, b, c
  <2> QED
    BY <2>1
<1> QED
  BY <1>1

LEMMA ListEnd ==
  ASSUME NEW st, NEW l, NEW F, IsFreeList(st, l, F), l.n # 0
  PROVE  l.end \in ToSet(F) /\ l.end \in Block
<1>1. F \in Seq(Block) /\ F # <<>>
  BY DEF IsFreeList
<1>2. l.end = F[Len(F)] /\ Len(F) \in 1..Len(F)
  BY <1>1 DEF IsFreeList
<1> QED
  BY <1>1, <1>2, SetOf

LEMMA AddBlocksFrees ==
  ASSUME StorageAssumption, NEW st0, IsStorage(st0), NEW work, IsWork(st0, work),
         NEW F, IsFreeList(work.st, work.list, F),
         NEW bs \in Seq(Block), IsDistinct(F \o bs), bs # <<>>,
         NEW r, r = AddBlocks(work, bs)
  PROVE  Frees(work, r, ToSet(F) \cup ToSet(bs), bs[1])
<1> DEFINE n == Len(bs)
           B == ToSet(F) \cup ToSet(bs)
           vs == [i \in 1..n |-> <<bs[i], FreeBlock(IF i < n THEN bs[i + 1] ELSE NoBlock)>>]
           freed == StoreAll(work, vs)
           end == work.list.end
<1>1. r.ok /\ work.ok /\ work.writes \in Seq(Writes)
  <2>1. IsWork(st0, r)
    BY AddBlocksAdds DEF Freed
  <2> QED
    BY <2>1, WorkStorage DEF IsWork
<1>2. OnlyFrees(vs, ToSet(bs)) /\ StartsAt(vs, bs[1])
  <2>1. IsLinking(vs, bs)
    BY DEF IsLinking
  <2> HIDE DEF vs
  <2> QED
    BY <2>1, LinkingFrees
<1>3. vs \in Seq(Writes)
  BY <1>2 DEF OnlyFrees
<1> HIDE DEF vs
<1>4. /\ IsWork(st0, freed) /\ freed.writes = work.writes \o vs /\ freed.list = work.list
  BY <1>3, StoreAllWork
<1>5. Frees(work, freed, B, bs[1])
  <2>1. OnlyFrees(vs, B)
    BY <1>2 DEF OnlyFrees
  <2> QED
    BY <2>1, <1>2, <1>4 DEF Frees
<1>6. r = IF work.list.n + n >= NBlocks THEN [work EXCEPT !.ok = FALSE]
          ELSE IF work.list.n = 0
          THEN [freed EXCEPT !.list = [n |-> n, head |-> bs[1], end |-> bs[n]]]
          ELSE IF freed.st[end] # FreeBlock(NoBlock) THEN [freed EXCEPT !.ok = FALSE]
          ELSE [Store(freed, end, FreeBlock(bs[1])) EXCEPT
                  !.list = [n |-> @.n + n, head |-> @.head, end |-> bs[n]]]
  BY <1>1, Zenon DEF AddBlocks, vs
<1> HIDE DEF freed, n
<1>7. r # [work EXCEPT !.ok = FALSE] /\ r # [freed EXCEPT !.ok = FALSE]
  BY <1>1, <1>4, NotOk
<1>8. CASE r = [freed EXCEPT !.list = [n |-> n, head |-> bs[1], end |-> bs[n]]]
  <2> DEFINE l == [n |-> n, head |-> bs[1], end |-> bs[n]]
  <2>1. r = WithList(freed, l)
    BY <1>8 DEF WithList
  <2> HIDE DEF l
  <2>2. r.writes = freed.writes
    BY <2>1, <1>4, SetListWork
  <2> QED
    BY <2>2, <1>5 DEF Frees
<1>9. ASSUME work.list.n # 0,
             r = [Store(freed, end, FreeBlock(bs[1])) EXCEPT
                    !.list = [n |-> @.n + n, head |-> @.head, end |-> bs[n]]]
      PROVE  Frees(work, r, B, bs[1])
  <2> DEFINE x == FreeBlock(bs[1])
             mid == Store(freed, end, x)
             last == <<<<end, x>>>>
  <2>1. end \in ToSet(F) /\ end \in Block /\ bs[1] \in Block
    BY <1>9, ListEnd, SetOf
  <2>2. OnlyFrees(last, {end}) /\ x \in Content
    <3>1. bs[1] \in Link
      BY <2>1 DEF Link
    <3> QED
      BY <2>1, <3>1, OneFree, FreeContent
  <2> HIDE DEF x
  <2>3. IsWork(st0, mid) /\ mid.writes = freed.writes \o last
    <3>1. IsWork(st0, freed) /\ end \in Block /\ x \in Content
      BY <1>4, <2>1, <2>2
    <3> HIDE DEF end
    <3> QED
      BY <3>1, StoreWork
  <2> DEFINE l == [n |-> mid.list.n + n, head |-> mid.list.head, end |-> bs[n]]
  <2>4. r = [mid EXCEPT !.list = [n |-> @.n + n, head |-> @.head, end |-> bs[n]]]
    BY <1>9 DEF x
  <2> HIDE DEF mid
  <2>5. r = WithList(mid, l)
    BY <2>4 DEF WithList
  <2> HIDE DEF l, last
  <2>6. r.writes = freed.writes \o last
    BY <2>3, <2>5, SetListWork
  <2>7. {end} \subseteq B
    BY <2>1
  <2> HIDE DEF B, end
  <2> QED
    BY <1>1, <1>5, <2>2, <2>6, <2>7, FreesThen
<1> QED
  BY <1>6, <1>7, <1>8, <1>9

LEMMA FreesMore ==
  ASSUME NEW work, NEW r, NEW B, NEW a, Frees(work, r, B, a), NEW C, B \subseteq C
  PROVE  Frees(work, r, C, a)
BY DEF Frees, OnlyFrees

(* The next piece, if there is one. *)
LEMMA PieceAdded ==
  ASSUME StorageAssumption, NEW st0, IsStorage(st0), NEW old, IsWork(st0, old),
         NEW G, IsFreeList(old.st, old.list, G),
         NEW p \in Seq(Block), IsDistinct(G \o p), NEW B, ToSet(G \o p) \subseteq B,
         NEW r, r = AddBlocks(old, p)
  PROVE  IF p = <<>> THEN r = old ELSE Frees(old, r, B, p[1])
<1>1. CASE p = <<>>
  <2>1. r = old
    BY <1>1 DEF AddBlocks
  <2> QED
    BY <1>1, <2>1
<1>2. CASE p # <<>>
  <2>1. ToSet(G \o p) = ToSet(G) \cup ToSet(p)
    BY SetOfBoth DEF IsFreeList
  <2>2. Frees(old, r, ToSet(G) \cup ToSet(p), p[1])
    BY <1>2, AddBlocksFrees
  <2>3. Frees(old, r, B, p[1])
    BY <2>1, <2>2, FreesMore
  <2> QED
    BY <1>2, <2>3
<1> QED
  BY <1>1, <1>2

LEMMA FirstPiece ==
  ASSUME NEW bs \in Seq(Block), bs # <<>>, NEW size \in Nat \ {0}
  PROVE  LET p == Piece(bs, size, 1)
         IN  p \in Seq(Block) /\ p # <<>> /\ p[1] = bs[1] /\ p = FirstPieces(bs, size, 1)
<1> DEFINE p == Piece(bs, size, 1)
           u == UpTo(bs, size, 1)
<1>1. Len(bs) \in Nat /\ Len(bs) >= 1
  OBVIOUS
<1>2. u \in 0..Len(bs) /\ u >= 1
  BY <1>1 DEF UpTo
<1>3. p = SubSeq(bs, 1, u) /\ p = FirstPieces(bs, size, 1)
  <2>1. (1 - 1) * size + 1 = 1 /\ 1 * size = size
    OBVIOUS
  <2> QED
    BY <2>1 DEF Piece, UpTo, FirstPieces
<1> HIDE DEF p, u
<1>4. p \in Seq(Block) /\ Len(p) = u /\ \A i \in 1..u : p[i] = bs[i]
  BY <1>2, <1>3, FirstPart
<1>5. p # <<>> /\ 1 \in 1..u
  BY <1>2, <1>4
<1> QED
  BY <1>3, <1>4, <1>5 DEF p

(* One piece more *)
LEMMA PieceMore ==
  ASSUME StorageAssumption, NEW st0, IsStorage(st0), NEW work, IsWork(st0, work),
         NEW old, IsWork(st0, old), NEW B, NEW a, Frees(work, old, B, a),
         NEW F \in Seq(Block), NEW s \in Seq(Block), IsFreeList(old.st, old.list, F \o s),
         NEW bs \in Seq(Block), NEW size \in Nat \ {0}, NEW k \in Nat, k >= 1,
         s = FirstPieces(bs, size, k - 1),
         NEW t, t = FirstPieces(bs, size, k), IsDistinct(F \o t), ToSet(F \o t) \subseteq B,
         NEW new, new = AddBlocks(old, Piece(bs, size, k))
  PROVE  Frees(work, new, B, a)
<1> DEFINE p == Piece(bs, size, k)
           G == F \o s
<1>1. new = AddBlocks(old, p) /\ p = Piece(bs, size, k)
  OBVIOUS
<1>2. IsFreeList(old.st, old.list, G)
  OBVIOUS
<1>3. p \in Seq(Block) /\ (F \o s) \o p = F \o t
  <2>1. p \in Seq(Block) /\ s \o p = t
    BY Pieces DEF FirstPieces
  <2> HIDE DEF p
  <2>2. (F \o s) \o p = F \o (s \o p)
    BY <2>1, ConcatBlocks
  <2> QED
    BY <2>1, <2>2
<1> HIDE DEF p
<1>4. IsDistinct(G \o p) /\ ToSet(G \o p) \subseteq B
  BY <1>3
<1> HIDE DEF G
<1>5. IF p = <<>> THEN new = old ELSE Frees(old, new, B, p[1])
  BY <1>1, <1>2, <1>3, <1>4, PieceAdded
<1>6. CASE p = <<>>
  BY <1>5, <1>6
<1>7. CASE p # <<>>
  <2>1. PICK us : new.writes = old.writes \o us /\ OnlyFrees(us, B)
    BY <1>5, <1>7 DEF Frees
  <2>2. work.writes \in Seq(Writes)
    BY DEF IsWork
  <2> QED
    BY <2>1, <2>2, FreesThen
<1> QED
  BY <1>6, <1>7

LEMMA PiecesFree ==
  ASSUME StorageAssumption, NEW st0, IsStorage(st0), NEW work, IsWork(st0, work),
         NEW F, IsFreeList(work.st, work.list, F),
         NEW bs \in Seq(Block), IsDistinct(F \o bs), bs # <<>>, NEW size \in Nat \ {0},
         NEW r, r = AddInPieces(work, bs, size)
  PROVE  Frees(work, r, ToSet(F) \cup ToSet(bs), bs[1])
<1> DEFINE B == ToSet(F) \cup ToSet(bs)
           Upto(k) == FirstPieces(bs, size, k)
           a == bs[1]
<1>0. F \in Seq(Block) /\ Len(bs) \in Nat /\ Len(bs) >= 1
  BY DEF IsFreeList
<1>1. PICK done : PiecesRun(done, work, bs, size)
  BY PiecesSteps
<1>2. ASSUME NEW k \in 0..Len(bs)
      PROVE  /\ Freed(st0, work, done[k], F \o Upto(k), B)
             /\ Upto(k) \in Seq(Block) /\ IsDistinct(F \o Upto(k)) /\ ToSet(F \o Upto(k)) \subseteq B
  BY <1>1, EachPieceAdds
<1>3. \A k \in 1..Len(bs) : done[k] = AddBlocks(done[k - 1], Piece(bs, size, k))
  BY <1>1 DEF PiecesRun
<1>4. done[0] = work /\ r = done[Len(bs)]
  BY <1>1 DEF PiecesRun
<1> HIDE DEF B, Upto, a
<1> DEFINE T == {k \in Nat : Frees(work, done[k], B, a)}
<1>5. 1 \in T
  <2> DEFINE p == Piece(bs, size, 1)
  <2>1. p \in Seq(Block) /\ p # <<>> /\ p[1] = a /\ p = Upto(1)
    BY FirstPiece DEF Upto, a
  <2>2. 1 \in 0..Len(bs) /\ 1 \in 1..Len(bs) /\ 1 - 1 = 0
    BY <1>0
  <2>3. done[1] = AddBlocks(work, p)
    BY <2>2, <1>3, <1>4
  <2> HIDE DEF p
  <2>4. IsDistinct(F \o p) /\ ToSet(F \o p) \subseteq B
    BY <2>1, <2>2, <1>2
  <2>5. Frees(work, done[1], B, p[1])
    BY <2>1, <2>3, <2>4, PieceAdded
  <2> QED
    BY <2>1, <2>5
<1>6. ASSUME NEW k \in Nat, 1 < k, k <= Len(bs), k - 1 \in T PROVE k \in T
  <2> DEFINE old == done[k - 1]
             new == done[k]
             s == Upto(k - 1)
             t == Upto(k)
  <2>1. k \in 1..Len(bs) /\ k \in 0..Len(bs) /\ k - 1 \in 0..Len(bs) /\ k >= 1
    BY <1>0, <1>6
  <2>2. IsWork(st0, old) /\ IsFreeList(old.st, old.list, F \o s) /\ s \in Seq(Block)
    BY <2>1, <1>2 DEF Freed
  <2>3. s = FirstPieces(bs, size, k - 1) /\ t = FirstPieces(bs, size, k)
    BY DEF Upto
  <2>4. new = AddBlocks(old, Piece(bs, size, k))
    BY <2>1, <1>3
  <2>5. IsDistinct(F \o t) /\ ToSet(F \o t) \subseteq B
    BY <2>1, <1>2
  <2>6. Frees(work, old, B, a)
    BY <1>6
  <2> HIDE DEF old, s, t, new, T
  <2>7. Frees(work, new, B, a)
    BY <1>0, <2>1, <2>2, <2>3, <2>4, <2>5, <2>6, PieceMore
  <2> QED
    BY <2>7 DEF new, T
<1> HIDE DEF T
<1>7. 1 \in Nat /\ Len(bs) \in 1..Len(bs)
  BY <1>0
<1>8. \A k \in 1..Len(bs) : k \in T
  BY <1>0, <1>5, <1>6, <1>7, IntervalInduction
<1>9. Frees(work, done[Len(bs)], B, a)
  BY <1>7, <1>8 DEF T
<1> QED
  BY <1>4, <1>9 DEF B, a

(* The blocks of a section are given back: its head first. *)
LEMMA ChainFrees ==
  ASSUME StorageAssumption, NEW st0, IsStorage(st0), NEW work, IsWork(st0, work),
         NEW F, IsFreeList(work.st, work.list, F),
         NEW c, NEW reserved, IsChain(work.st, c, reserved), IsDistinct(F \o c),
         NEW r, r = AddChain(work, c[1], reserved)
  PROVE  Frees(work, r, ToSet(F) \cup ToSet(c), c[1])
<1>1. r = AddInPieces(work, c, DeleteChunk)
  BY AddChainAdds
<1>2. c \in Seq(Block) /\ c # <<>>
  BY DEF IsChain
<1>3. DeleteChunk \in Nat \ {0}
  BY DEF StorageAssumption
<1> QED
  BY <1>1, <1>2, <1>3, PiecesFree

LEMMA SectionFrees ==
  ASSUME StorageAssumption, NEW st0, IsStorage(st0), NEW work, IsWork(st0, work),
         NEW F, IsFreeList(work.st, work.list, F), NEW c, IsSection(work.st, c), IsDistinct(c),
         ToSet(F) \cap ToSet(c) = {}, NEW h, h = c[1],
         NEW r, r = AddChain(work, h, NoBlock)
  PROVE  Frees(work, r, ToSet(F) \cup ToSet(c), h)
<1>1. IsChain(work.st, c, NoBlock)
  BY SectionIsChain
<1>2. IsDistinct(F \o c)
  BY SectionFreed
<1> QED
  BY <1>1, <1>2, ChainFrees

(* Mount_CheckLastFreeBlock writes a free block. *)
LEMMA CheckedPlace ==
  ASSUME StorageAssumption, NEW st, IsStorage(st), NEW l, NEW F, IsFreeRun(st, l, F),
         NEW r, r = CheckLastFreeBlock(Begin(st, l))
  PROVE  \A w \in ToSet(r.writes) : w[1] \in ToSet(F)
<1> DEFINE work == Begin(st, l)
           e == l.end
<1>1. work.writes = <<>> /\ work.list = l /\ work.st = st /\ IsWork(st, work) /\ work.ok = TRUE
  BY BeginWork DEF Begin
<1>2. r = IF ~work.ok \/ work.list.n = 0 THEN work
          ELSE IF ~IsReadable(work.st[work.list.end], "free") THEN [work EXCEPT !.ok = FALSE]
          ELSE IF work.st[work.list.end].next = NoBlock THEN work
          ELSE Store(work, work.list.end, FreeBlock(NoBlock))
  BY DEF CheckLastFreeBlock
<1> HIDE DEF work
<1>3. ToSet(<<>>) = {}
  BY DEF ToSet
<1>4. CASE r = work
  BY <1>1, <1>3, <1>4
<1>5. CASE r # work
  <2>1. ~ (l.n = 0)
    BY <1>1, <1>2, <1>5
  <2>2. F \in Seq(Block) /\ F # <<>>
    BY <2>1 DEF IsFreeRun, EmptyList
  <2>3. l = [n |-> Len(F), head |-> F[1], end |-> F[Len(F)]]
    BY <2>2 DEF IsFreeRun
  <2>4. e = F[Len(F)]
    BY <2>3
  <2>5. Len(F) \in Nat /\ Len(F) >= 1
    BY <2>2
  <2>6. e \in ToSet(F)
    BY <2>4, <2>5, <2>2, SetOf
  <2>7. e \in Block
    BY <2>2, <2>4, <2>5
  <2>8. IsReadable(st[e], "free")
    <3>1. Len(F) \in 1..Len(F)
      BY <2>5
    <3> QED
      BY <2>4, <3>1 DEF IsFreeRun
  <2>9. r = Store(work, e, FreeBlock(NoBlock))
    BY <1>1, <1>2, <1>5, <2>1, <2>8
  <2> DEFINE x == FreeBlock(NoBlock)
             w0 == <<e, x>>
  <2>10. x \in Content
    BY FreeContent DEF Link
  <2> HIDE DEF x, e
  <2>11. r.writes = work.writes \o <<w0>>
    <3>1. IsWork(st, work) /\ e \in Block /\ r = Store(work, e, x)
      BY <1>1, <2>7, <2>9 DEF x
    <3> HIDE DEF w0
    <3>2. r.writes = work.writes \o <<<<e, x>>>>
      BY <2>10, <3>1, StoreWork
    <3> QED
      BY <3>2 DEF w0
  <2>12. r.writes = <<w0>>
    BY <1>1, <2>11
  <2>13. w0[1] = e
    OBVIOUS
  <2> HIDE DEF w0
  <2> QED
    BY <2>6, <2>12, <2>13 DEF ToSet
<1> QED
  BY <1>4, <1>5

(* The sections that count are among those that mounting has found. *)
LEMMA CountedFound ==
  ASSUME StorageAssumption, NEW st, NEW U, NEW G, NEW l, NEW H2, NEW C2,
         ScanShape(st, U, G, l, H2, C2), HeadsMarked(st, U, G, NBlocks - 1), Kept(st, U, G),
         NEW H, NEW C, Alive(st, H, C), NEW h \in H
  PROVE  ToSet(C[h]) \subseteq U /\ ToSet(C[h]) \cap ToSet(C2[0]) = {}
<1>1. h \in HeadsIn(st) /\ C[h][1] = h /\ IsSection(st, C[h]) /\ IsDistinct(C[h])
  BY DEF Alive, Intact
<1>2. h \in Block /\ h <= NBlocks - 1
  BY <1>1 DEF HeadsIn, Block, StorageAssumption
<1>3. h \in ToSet(C[h])
  BY <1>1, SectionBlocks
<1>4. ToSet(C[h]) \cap G = {} /\ (ToSet(C[h]) \subseteq U \/ ToSet(C[h]) \cap U = {})
  BY DEF Kept
<1>5. h \in U
  BY <1>1, <1>2, <1>3, <1>4 DEF HeadsMarked
<1>6. H2 = HeadsIn(st) \cap U /\ 0 \notin H2
  BY ShapeBlocks
<1>7. h \in H2
  BY <1>1, <1>5, <1>6
<1>8. /\ C2[h][1] = h /\ IsSection(st, C2[h]) /\ IsDistinct(C2[h])
      /\ h # 0 => ToSet(C2[h]) \cap ToSet(C2[0]) = {}
  BY <1>7 DEF ScanShape
<1>9. SectionOf(st, h) = C[h]
  <2>1. SectionOf(st, C[h][1]) = C[h]
    BY <1>1, SectionFound
  <2> QED
    BY <1>1, <2>1
<1>10. SectionOf(st, h) = C2[h]
  <2>1. SectionOf(st, C2[h][1]) = C2[h]
    BY <1>8, SectionFound
  <2> QED
    BY <1>8, <2>1
<1>11. h # 0
  BY <1>6, <1>7
<1> QED
  BY <1>3, <1>4, <1>5, <1>8, <1>9, <1>10, <1>11

LEMMA NoPieces ==
  ASSUME NEW work, NEW size
  PROVE  AddInPieces(work, <<>>, size) = work
<1> DEFINE bs == <<>>
<1>1. bs \in Seq(Block) /\ Len(bs) = 0
  OBVIOUS
<1> HIDE DEF bs
<1>2. PICK done : PiecesRun(done, work, bs, size)
  BY <1>1, PiecesSteps
<1>3. AddInPieces(work, bs, size) = done[0] /\ done[0] = work
  BY <1>1, <1>2 DEF PiecesRun
<1> QED
  BY <1>3 DEF bs

LEMMA FreesPlaces ==
  ASSUME NEW work, work.writes \in Seq(Writes), NEW r, NEW B, NEW a, Frees(work, r, B, a)
  PROVE  \A w \in ToSet(r.writes) : w \in ToSet(work.writes) \/ (w[1] \in B /\ w[2].type = "free")
<1> DEFINE vs == work.writes
<1>1. PICK us : r.writes = work.writes \o us /\ OnlyFrees(us, B)
  BY DEF Frees
<1>2. r.writes = vs \o us /\ vs \in Seq(Writes) /\ us \in Seq(Writes)
  BY <1>1 DEF OnlyFrees
<1> HIDE DEF vs
<1>3. ToSet(r.writes) = ToSet(vs) \cup ToSet(us)
  BY <1>2, SetOfBoth
<1> QED
  BY <1>1, <1>3 DEF OnlyFrees, vs

(* What MountStep2 writes, and where. *)
LEMMA RepairPlaces ==
  ASSUME StorageAssumption, NEW st, IsStorage(st), FewRivals(st),
         NEW H, NEW C, Alive(st, H, C),
         NEW work, work = Repair(st)
  PROVE  \A w \in ToSet(work.writes) : \A h \in H : w[1] \notin ToSet(C[h])
<1> DEFINE scan == Scan(st)
           U == scan.used
           G == scan.garbage
           l == scan.list
           begun == Begin(st, l)
           checked == CheckLastFreeBlock(begun)
           E == Ascending(Block \ U)
<1>1. Scanned(st, scan, NBlocks - 1)
  BY AllScanned
<1>2. /\ scan.ok = TRUE /\ HeadsMarked(st, U, G, NBlocks - 1) /\ Kept(st, U, G)
      /\ \E H2, C2 : ScanShape(st, U, G, l, H2, C2)
  BY <1>1 DEF Scanned
<1>a. begun = [st |-> st, list |-> l, writes |-> <<>>, ok |-> TRUE]
  BY DEF Begin
<1>b. [begun EXCEPT !.ok = TRUE] = begun
  BY <1>a, StillRight
<1>3. [begun EXCEPT !.ok = scan.ok] = begun
  BY <1>2, <1>b
<1>4. work = AddInPieces(checked, E, MountChunk)
  BY <1>3 DEF Repair
<1>5. E \in Seq(Block) /\ IsDistinct(E) /\ ToSet(E) = Block \ U
  BY AscendingIs
<1> HIDE DEF E, U, G, l, scan
<1>6. PICK H2, C2 : ScanShape(st, U, G, l, H2, C2)
  BY <1>2
<1> DEFINE F == C2[0]
<1>7. IsFreeRun(st, l, F)
  BY <1>6 DEF ScanShape
<1>8. Freed(st, begun, checked, F, ToSet(F))
  BY <1>7, LastFreeBlockChecked
<1>9. \A b \in ToSet(F) : b \in U
  BY <1>6, ShapeBlocks
<1>10. \A w \in ToSet(checked.writes) : w[1] \in ToSet(F)
  BY <1>7, CheckedPlace
<1>11. ASSUME NEW h \in H PROVE ToSet(C[h]) \subseteq U /\ ToSet(C[h]) \cap ToSet(F) = {}
  <2>1. StorageAssumption /\ Alive(st, H, C)
    OBVIOUS
  <2>2. ToSet(C[h]) \subseteq U /\ ToSet(C[h]) \cap ToSet(C2[0]) = {}
    BY ONLY <1>2, <1>6, <2>1, CountedFound
  <2> QED
    BY <2>2
<1> HIDE DEF begun, checked, F
<1>12. F \in Seq(Block) /\ IsDistinct(F)
  BY <1>7 DEF IsFreeRun
<1>13. ToSet(F) \cap ToSet(E) = {}
  BY <1>5, <1>9
<1>14. IsDistinct(F \o E)
  BY <1>5, <1>12, <1>13, DistinctBoth
<1>15. MountChunk \in Nat \ {0}
  BY DEF StorageAssumption
<1>16. IsWork(st, checked) /\ IsFreeList(checked.st, checked.list, F)
  BY <1>8 DEF Freed
<1>17. \A w \in ToSet(work.writes) : w[1] \in ToSet(F) \cup ToSet(E)
  <2>1. CASE E = <<>>
    <3>1. work = checked
      BY <1>4, <2>1, NoPieces
    <3> QED
      BY <1>10, <3>1
  <2>2. CASE E # <<>>
    <3>1. Frees(checked, work, ToSet(F) \cup ToSet(E), E[1])
      BY <1>4, <1>5, <1>14, <1>15, <1>16, <2>2, PiecesFree
    <3>2. checked.writes \in Seq(Writes)
      BY <1>16 DEF IsWork
    <3> QED
      BY <1>10, <3>1, <3>2, FreesPlaces
  <2> QED
    BY <2>1, <2>2
<1> QED
  BY <1>5, <1>11, <1>17
(* The repair changes no section. *)
LEMMA RepairQuiet ==
  ASSUME StorageAssumption, NEW st, FewRivals(st), NEW T, Quiet(st, <<>>, T),
         NEW work, work = Repair(st)
  PROVE  Quiet(st, work.writes, T)
<1>1. PICK H, C : Alive(st, H, C) /\ Image(st, H, C) = T
  BY DEF Quiet
<1>2. IsStorage(st)
  BY <1>1 DEF Alive, Intact
<1>3. \A w \in ToSet(work.writes) : \A h \in H : w[1] \notin ToSet(C[h])
  BY <1>1, <1>2, RepairPlaces
<1>4. \A w \in ToSet(work.writes) : w[2].type = "free" /\ w[1] \in Block
  <2>1. DOMAIN Nothing = {}
    BY DEF Nothing
  <2>2. IsCall(st, work, Nothing) /\ \A y \in ToSet(work.writes) : y[2].type = "free"
    BY <1>2, <2>1, RepairKeeps
  <2>3. \A w \in ToSet(work.writes) : w \in Writes
    BY <2>2, SetOf DEF IsCall
  <2>4. ASSUME NEW w \in ToSet(work.writes) PROVE w[1] \in Block
    <3>1. w \in Writes /\ w[2].type = "free"
      BY <2>2, <2>3
    <3>2. <<0, InfoBlock>>[2].type = "info"
      BY DEF InfoBlock
    <3>3. w # <<0, InfoBlock>>
      BY <3>1, <3>2
    <3> QED
      BY <3>1, <3>3 DEF Writes
  <2> QED
    BY <2>2, <2>4
<1>5. \A w \in ToSet(work.writes) : Harmless(H, C, w)
  BY <1>3, <1>4 DEF Harmless
<1> QED
  BY <1>1, <1>5 DEF Quiet

(* In a layout every head counts. *)
LEMMA LayoutAlive ==
  ASSUME StorageAssumption, NEW st, NEW l, NEW ws, NEW H, NEW C, IsLayout(st, l, ws, H, C)
  PROVE  Alive(st, H, C) /\ HeadsIn(st) = H
<1>1. HeadsIn(st) = H /\ IsStorage(st)
  BY LayoutBlocks DEF IsLayout
<1>2. /\ \A h \in H : h \in Labels(H, ws) /\ C[h][1] = h /\ IsSection(st, C[h])
      /\ \A a \in Labels(H, ws) : C[a] \in Seq(Block) /\ IsDistinct(C[a])
      /\ \A a, b \in Labels(H, ws) : a # b => ToSet(C[a]) \cap ToSet(C[b]) = {}
  <2>1. \A h \in H : h \in Labels(H, ws)
    BY DEF Labels
  <2>2. \A h \in H : C[h][1] = h /\ IsSection(st, C[h])
    BY DEF IsLayout
  <2>3. /\ \A a \in Labels(H, ws) : C[a] \in Seq(Block) /\ IsDistinct(C[a])
        /\ \A a, b \in Labels(H, ws) : a # b => ToSet(C[a]) \cap ToSet(C[b]) = {}
    BY ChainsApart
  <2> QED
    BY <2>1, <2>2, <2>3
<1>3. \A g, h \in H : g # h => ToSet(C[g]) \cap ToSet(C[h]) = {} /\ ~Rivals(st, g, h)
  BY <1>2, NoRivals
<1>4. \A h \in H : C[h][1] = h /\ IsSection(st, C[h]) /\ IsDistinct(C[h])
  BY <1>2
<1>5. Intact(st, H, C)
  BY <1>1, <1>3, <1>4 DEF Intact
<1> QED
  BY <1>1, <1>5 DEF Alive

-----------------------------------------------------------------------------
(* One section less *)
LEMMA IntactFewer ==
  ASSUME NEW st, NEW H, NEW C, Intact(st, H, C), NEW H0, H0 \subseteq H
  PROVE  Intact(st, H0, C)
BY DEF Intact

LEMMA ImageFewer ==
  ASSUME NEW st, NEW H, NEW C, Intact(st, H, C), NEW o, NEW m \in Names
  PROVE  Image(st, H \ {o}, C)[m] = IF o \in H /\ NameOf(st[o]) = m THEN NoSection
                                    ELSE Image(st, H, C)[m]
<1> DEFINE H0 == H \ {o}
<1>1. Intact(st, H0, C)
  BY IntactFewer
<1>2. ASSUME NEW g \in H, NEW h \in H, NameOf(st[g]) = NameOf(st[h]) PROVE g = h
  BY <1>2 DEF Intact, Rivals
<1>3. CASE o \in H /\ NameOf(st[o]) = m
  <2>1. \A h \in H0 : NameOf(st[h]) # m
    BY <1>2, <1>3
  <2>2. Image(st, H0, C)[m] = NoSection
    BY <1>1, <2>1, ImageFields
  <2> QED
    BY <1>3, <2>2
<1>4. CASE ~ (o \in H /\ NameOf(st[o]) = m)
  <2>1. \A h \in H : NameOf(st[h]) = m => h \in H0
    BY <1>4
  <2>2. CASE \E h \in H : NameOf(st[h]) = m
    <3>1. PICK h \in H : NameOf(st[h]) = m
      BY <2>2
    <3>2. h \in H0
      BY <2>1, <3>1
    <3>3. Image(st, H0, C)[m] = SectionAt(st, C[h])
      BY <1>1, <3>1, <3>2, ImageFields
    <3>4. Image(st, H, C)[m] = SectionAt(st, C[h])
      BY <3>1, ImageFields
    <3> QED
      BY <1>4, <3>3, <3>4
  <2>3. CASE \A h \in H : NameOf(st[h]) # m
    <3>1. \A h \in H0 : NameOf(st[h]) # m
      BY <2>3
    <3>2. Image(st, H0, C)[m] = NoSection
      BY <1>1, <3>1, ImageFields
    <3>3. Image(st, H, C)[m] = NoSection
      BY <2>3, ImageFields
    <3> QED
      BY <1>4, <3>2, <3>3
  <2> QED
    BY <2>2, <2>3
<1> QED
  BY <1>3, <1>4

(* One section more *)
LEMMA IntactMore ==
  ASSUME NEW st, NEW H, NEW C, Intact(st, H, C),
         NEW c, IsSection(st, c), IsDistinct(c), NEW t, t = c[1], t \notin H,
         \A h \in H : ToSet(c) \cap ToSet(C[h]) = {} /\ NameOf(st[h]) # NameOf(st[t]),
         NEW C2, C2[t] = c, \A h \in H : C2[h] = C[h]
  PROVE  Intact(st, H \cup {t}, C2)
<1>1. /\ IsStorage(st) /\ H \subseteq HeadsIn(st)
      /\ \A h \in H : C[h][1] = h /\ IsSection(st, C[h]) /\ IsDistinct(C[h])
      /\ \A g, h \in H : g # h => ToSet(C[g]) \cap ToSet(C[h]) = {} /\ ~Rivals(st, g, h)
  BY DEF Intact
<1>2. t \in HeadsIn(st)
  BY SectionBlocks DEF IsSection, HeadsIn
<1>3. ASSUME NEW d, IsSection(st, d) PROVE st[d[1]].next \in ToSet(d)
  BY <1>3, SectionBlocks DEF IsSection
<1>4. ASSUME NEW h \in H PROVE ~Rivals(st, t, h) /\ ~Rivals(st, h, t)
  <2>1. st[t].next \in ToSet(c)
    BY <1>3
  <2>2. st[h].next \in ToSet(C[h])
    BY <1>1, <1>3
  <2>3. st[t].next # st[h].next /\ NameOf(st[h]) # NameOf(st[t])
    BY <2>1, <2>2
  <2> QED
    BY <2>3 DEF Rivals
<1>5. \A h \in H \cup {t} : C2[h][1] = h /\ IsSection(st, C2[h]) /\ IsDistinct(C2[h])
  BY <1>1
<1>6. ASSUME NEW g \in H \cup {t}, NEW h \in H \cup {t}, g # h
      PROVE  ToSet(C2[g]) \cap ToSet(C2[h]) = {} /\ ~Rivals(st, g, h)
  <2>1. CASE g \in H /\ h \in H
    BY <1>1, <1>6, <2>1
  <2>2. CASE g = t
    <3>1. h \in H
      BY <1>6, <2>2
    <3> QED
      BY <1>4, <2>2, <3>1
  <2>3. CASE h = t
    <3>1. g \in H
      BY <1>6, <2>3
    <3>2. ToSet(c) \cap ToSet(C[g]) = {} /\ C2[g] = C[g]
      BY <3>1
    <3> QED
      BY <1>4, <2>3, <3>1, <3>2
  <2> QED
    BY <2>1, <2>2, <2>3
<1>7. H \cup {t} \subseteq HeadsIn(st)
  BY <1>1, <1>2
<1> QED
  BY <1>1, <1>5, <1>6, <1>7 DEF Intact

LEMMA ImageMore ==
  ASSUME NEW st, NEW H, NEW C, Intact(st, H, C), NEW t, NEW C2, Intact(st, H \cup {t}, C2),
         \A h \in H : C2[h] = C[h], NEW m \in Names,
         \A h \in H : NameOf(st[h]) # NameOf(st[t])
  PROVE  Image(st, H \cup {t}, C2)[m] = IF NameOf(st[t]) = m THEN SectionAt(st, C2[t])
                                        ELSE Image(st, H, C)[m]
<1> DEFINE H2 == H \cup {t}
<1>1. CASE NameOf(st[t]) = m
  BY <1>1, ImageFields
<1>2. CASE NameOf(st[t]) # m
  <2>1. CASE \E h \in H : NameOf(st[h]) = m
    <3>1. PICK h \in H : NameOf(st[h]) = m
      BY <2>1
    <3>2. Image(st, H2, C2)[m] = SectionAt(st, C2[h])
      BY <3>1, ImageFields
    <3>3. Image(st, H, C)[m] = SectionAt(st, C[h])
      BY <3>1, ImageFields
    <3> QED
      BY <1>2, <3>2, <3>3
  <2>2. CASE \A h \in H : NameOf(st[h]) # m
    <3>1. \A h \in H2 : NameOf(st[h]) # m
      BY <1>2, <2>2
    <3>2. Image(st, H2, C2)[m] = NoSection
      BY <3>1, ImageFields
    <3>3. Image(st, H, C)[m] = NoSection
      BY <2>2, ImageFields
    <3> QED
      BY <1>2, <3>2, <3>3
  <2> QED
    BY <2>1, <2>2
<1> QED
  BY <1>1, <1>2

(* What a call makes of the sections: that of the name from is gone, that   *)
(* of the name to is a.                                                     *)
Replaced(S, from, to, a) ==
  [m \in Names |-> IF m = to THEN a ELSE IF m = from THEN NoSection ELSE S[m]]

(* st2 has still the sections but that of the head o. *)
Keeps(st, H, C, o, st2) ==
  IsStorage(st2) /\ \A h \in H \ {o} : \A b \in ToSet(C[h]) : st2[b] = st[b]

IsLess(T, S, H, st, o) ==
  \A m \in Names : T[m] = IF o \in H /\ NameOf(st[o]) = m THEN NoSection ELSE S[m]

LEMMA FewerStill ==
  ASSUME NEW st, NEW H, NEW C, Intact(st, H, C), NEW o, NEW st2, Keeps(st, H, C, o, st2)
  PROVE  /\ Intact(st2, H \ {o}, C)
         /\ \A h \in H \ {o} : st2[h] = st[h]
         /\ IsLess(Image(st2, H \ {o}, C), Image(st, H, C), H, st, o)
<1> DEFINE H0 == H \ {o}
<1>1. Intact(st, H0, C)
  BY IntactFewer
<1>2. Intact(st2, H0, C) /\ \A h \in H0 : st2[h] = st[h]
  BY <1>1, IntactStays DEF Keeps
<1>3. Image(st2, H0, C) = Image(st, H0, C)
  BY <1>1, <1>2, ImageSame DEF Keeps
<1>4. \A m \in Names : Image(st, H0, C)[m] =
        IF o \in H /\ NameOf(st[o]) = m THEN NoSection ELSE Image(st, H, C)[m]
  BY ImageFewer
<1>5. IsLess(Image(st2, H0, C), Image(st, H, C), H, st, o)
  BY <1>3, <1>4 DEF IsLess
<1> QED
  BY <1>2, <1>5

IsMore(T, S, st, t, c) ==
  \A m \in Names : T[m] = IF NameOf(st[t]) = m THEN SectionAt(st, c) ELSE S[m]

LEMMA AllMore ==
  ASSUME NEW st, NEW H, NEW C, Intact(st, H, C), NEW t, NEW C2, Intact(st, H \cup {t}, C2),
         \A h \in H : C2[h] = C[h], \A h \in H : NameOf(st[h]) # NameOf(st[t])
  PROVE  IsMore(Image(st, H \cup {t}, C2), Image(st, H, C), st, t, C2[t])
BY ImageMore DEF IsMore

(* A section is gone. *)
LEMMA Dropped ==
  ASSUME NEW st, NEW H, NEW C, Intact(st, H, C), NEW o \in H, NEW n, NameOf(st[o]) = n,
         NEW st2, Keeps(st, H, C, o, st2), \A b \in HeadsIn(st2) : b \in H /\ b # o
  PROVE  Alive(st2, H \ {o}, C)
         /\ Image(st2, H \ {o}, C) = Replaced(Image(st, H, C), n, n, NoSection)
<1> DEFINE H0 == H \ {o}
           T == Image(st2, H0, C)
           R == Replaced(Image(st, H, C), n, n, NoSection)
<1>1. /\ Intact(st2, H0, C)
      /\ IsLess(T, Image(st, H, C), H, st, o)
  BY FewerStill
<1>2. Alive(st2, H0, C)
  BY <1>1 DEF Alive
<1>3. \A m \in Names : R[m] = IF m = n THEN NoSection ELSE Image(st, H, C)[m]
  BY DEF Replaced
<1>4. \A m \in Names : T[m] = R[m]
  BY <1>1, <1>3 DEF IsLess
<1>5. T = [m \in Names |-> T[m]]
  BY ImageDomain
<1>6. R = [m \in Names |-> R[m]]
  BY DEF Replaced
<1> HIDE DEF T, R
<1>7. T = R
  BY <1>4, <1>5, <1>6
<1> QED
  BY <1>2, <1>7 DEF T, R

(* A new section counts, and the one that it replaces does not any more. *)
LEMMA CountsNow ==
  ASSUME NEW st, NEW H, NEW C, Intact(st, H, C), NEW o, NEW from, NEW to,
         o \in H => NameOf(st[o]) = from, o \notin H => from = to,
         \A h \in H \ {o} : NameOf(st[h]) # to,
         NEW st2, Keeps(st, H, C, o, st2),
         NEW c, IsSection(st2, c), IsDistinct(c), NEW t, t = c[1], t \notin H,
         NameOf(st2[t]) = to, \A h \in H \ {o} : ToSet(c) \cap ToSet(C[h]) = {},
         \A b \in HeadsIn(st2) : \/ b \in H /\ b # o
                                 \/ b = t
                                 \/ /\ b = o /\ o \in H /\ st2[o] = st[o]
                                    /\ Rivals(st2, o, t) /\ Loses(st2, o, t),
         NEW H2, H2 = (H \ {o}) \cup {t}, NEW C2, C2[t] = c, \A h \in H \ {o} : C2[h] = C[h]
  PROVE  Alive(st2, H2, C2)
         /\ Image(st2, H2, C2) = Replaced(Image(st, H, C), from, to, SectionAt(st2, c))
<1> DEFINE H0 == H \ {o}
           S == Image(st, H, C)
           T == Image(st2, H2, C2)
           R == Replaced(S, from, to, SectionAt(st2, c))
<1>1. /\ Intact(st2, H0, C) /\ \A h \in H0 : st2[h] = st[h]
      /\ IsLess(Image(st2, H0, C), S, H, st, o)
  BY FewerStill
<1>2. \A h \in H0 : ToSet(c) \cap ToSet(C[h]) = {} /\ NameOf(st2[h]) # NameOf(st2[t])
  BY <1>1
<1>3. t \notin H0 /\ H2 = H0 \cup {t}
  OBVIOUS
<1>4. \A h \in H0 : C2[h] = C[h]
  OBVIOUS
<1> HIDE DEF H0
<1>5. Intact(st2, H0 \cup {t}, C2)
  BY <1>1, <1>2, <1>3, <1>4, IntactMore
<1>6. Intact(st2, H2, C2)
  BY <1>3, <1>5
<1>a. IsMore(Image(st2, H0 \cup {t}, C2), Image(st2, H0, C), st2, t, C2[t])
  <2>1. \A h \in H0 : NameOf(st2[h]) # NameOf(st2[t])
    BY <1>2
  <2> QED
    BY <1>1, <1>4, <1>5, <2>1, AllMore
<1>7. ASSUME NEW b \in HeadsIn(st2) \ H2
      PROVE  (\E h \in H2 : Rivals(st2, b, h)) /\ \A h \in H2 : Rivals(st2, b, h) => Loses(st2, b, h)
  <2>1. b = o /\ o \in H /\ st2[o] = st[o] /\ Rivals(st2, o, t) /\ Loses(st2, o, t)
    BY <1>3, <1>7 DEF H0
  <2>2. ASSUME NEW h \in H0 PROVE ~Rivals(st2, b, h)
    <3>1. h \in H /\ h # o
      BY DEF H0
    <3>2. ~Rivals(st, o, h)
      BY <2>1, <3>1 DEF Intact
    <3>3. st2[h] = st[h]
      BY <1>1
    <3> QED
      BY <2>1, <3>2, <3>3 DEF Rivals
  <2>3. t \in H2
    BY <1>3
  <2> QED
    BY <1>3, <2>1, <2>2, <2>3
<1>8. Alive(st2, H2, C2)
  BY <1>6, <1>7 DEF Alive
<1>9. ASSUME NEW m \in Names PROVE T[m] = R[m]
  <2>1. Image(st2, H0 \cup {t}, C2)[m] = IF NameOf(st2[t]) = m THEN SectionAt(st2, C2[t])
                                         ELSE Image(st2, H0, C)[m]
    BY <1>a DEF IsMore
  <2>2. T[m] = IF to = m THEN SectionAt(st2, c) ELSE Image(st2, H0, C)[m]
    BY <1>3, <2>1
  <2>3. Image(st2, H0, C)[m] = IF o \in H /\ NameOf(st[o]) = m THEN NoSection ELSE S[m]
    BY <1>1 DEF IsLess
  <2>4. R[m] = IF m = to THEN SectionAt(st2, c) ELSE IF m = from THEN NoSection ELSE S[m]
    BY DEF Replaced
  <2> HIDE DEF S, T, R
  <2> QED
    BY <2>2, <2>3, <2>4
<1>10. T = [m \in Names |-> T[m]]
  BY ImageDomain
<1>11. R = [m \in Names |-> R[m]]
  BY DEF Replaced
<1> HIDE DEF T, R
<1>12. T = R
  BY <1>9, <1>10, <1>11
<1> QED
  BY <1>8, <1>12 DEF T, R

(* A new head does not count as long as the one that it replaces is newer. *)
LEMMA OldCounts ==
  ASSUME NEW st, NEW H, NEW C, Intact(st, H, C), NEW st2, IsStorage(st2),
         \A h \in H : \A b \in ToSet(C[h]) : st2[b] = st[b],
         NEW o \in H, NEW t, \A b \in HeadsIn(st2) : b \in H \/ b = t,
         Rivals(st2, t, o), Loses(st2, t, o), \A h \in H : h # o => ~Rivals(st2, t, h)
  PROVE  Alive(st2, H, C) /\ Image(st2, H, C) = Image(st, H, C)
<1>1. Intact(st2, H, C)
  BY IntactStays
<1>2. Alive(st2, H, C)
  BY <1>1 DEF Alive
<1> QED
  BY <1>1, <1>2, ImageSame

LEMMA TagsSame ==
  ASSUME NEW st, NEW c \in Seq(Block), NEW st2, \A b \in ToSet(c) : st2[b] = st[b]
  PROVE  SectionAt(st2, c) = SectionAt(st, c)
<1>1. Len(c) \in Nat
  OBVIOUS
<1>2. \A i \in 1..(Len(c) - 1) : i + 1 \in 1..Len(c)
  BY <1>1
<1>3. \A i \in 1..(Len(c) - 1) : st2[c[i + 1]] = st[c[i + 1]]
  BY <1>2, SetOf
<1>4. TagsAlong(st2, c) = TagsAlong(st, c)
  BY <1>3 DEF TagsAlong
<1> QED
  BY <1>4 DEF SectionAt

(* st2 is st with a new head t in it, that of the section c, which replaces *)
(* the section of the head o.                                               *)
Swap(st, H, C, o, from, to, t, c, st2) ==
  /\ Intact(st, H, C) /\ HeadsIn(st) = H /\ o \in H /\ NameOf(st[o]) = from
  /\ \A h \in H \ {o} : NameOf(st[h]) # to /\ ToSet(c) \cap ToSet(C[h]) = {}
  /\ t \in Block /\ \A h \in H : t \notin ToSet(C[h])
  /\ IsStorage(st2) /\ \A b \in Block : b # t => st2[b] = st[b]
  /\ IsSection(st2, c) /\ IsDistinct(c) /\ c[1] = t /\ NameOf(st2[t]) = to
  /\ o \notin ToSet(c) /\ Rivals(st2, o, t)
HeadsWith(H, o, t) == (H \ {o}) \cup {t}
ChainsWith(H, C, o, t, c) == [h \in HeadsWith(H, o, t) |-> IF h = t THEN c ELSE C[h]]

LEMMA SwapHeads ==
  ASSUME NEW st, NEW H, NEW C, NEW o, NEW from, NEW to, NEW t, NEW c, NEW st2,
         Swap(st, H, C, o, from, to, t, c, st2)
  PROVE  /\ t \notin H /\ o \in Block /\ o # t /\ o \in HeadsIn(st2) /\ t \in HeadsIn(st2)
         /\ \A b \in HeadsIn(st2) : b \in H \/ b = t
         /\ \A h \in H : \A b \in ToSet(C[h]) : b \in Block /\ b # t /\ st2[b] = st[b]
         /\ \A h \in H \ {o} : o \notin ToSet(C[h])
<1>1. Intact(st, H, C) /\ HeadsIn(st) = H /\ o \in H
  BY DEF Swap
<1>2. ASSUME NEW h \in H PROVE h \in ToSet(C[h]) /\ \A b \in ToSet(C[h]) : b \in Block
  BY <1>1, SectionBlocks DEF Intact
<1>3. t \notin H
  BY <1>2 DEF Swap
<1>4. o \in Block /\ o # t
  BY <1>1, <1>3 DEF HeadsIn
<1>5. t \in HeadsIn(st2)
  BY DEF Swap, IsSection, HeadsIn
<1>6. \A b \in Block : b # t => st2[b] = st[b]
  BY DEF Swap
<1>7. o \in HeadsIn(st2) /\ \A b \in HeadsIn(st2) : b \in H \/ b = t
  BY <1>1, <1>4, <1>6 DEF HeadsIn
<1>8. \A h \in H : t \notin ToSet(C[h])
  BY DEF Swap
<1>9. \A h \in H : \A b \in ToSet(C[h]) : b \in Block /\ b # t /\ st2[b] = st[b]
  BY <1>2, <1>6, <1>8
<1>10. \A h \in H \ {o} : o \notin ToSet(C[h])
  BY <1>1, <1>2 DEF Intact
<1> QED
  BY <1>3, <1>4, <1>5, <1>7, <1>9, <1>10

(* The old head is no head any more. *)
LEMMA OldGone ==
  ASSUME NEW st, NEW H, NEW C, NEW o, NEW from, NEW to, NEW t, NEW c, NEW st2,
         Swap(st, H, C, o, from, to, t, c, st2),
         NEW x, IsStorage(x), \A b \in Block : b # o => x[b] = st2[b],
         ~IsReadable(x[o], "head") \/ (x = st2 /\ Loses(st2, o, t)),
         NEW H2, H2 = HeadsWith(H, o, t), NEW C2, C2 = ChainsWith(H, C, o, t, c)
  PROVE  Alive(x, H2, C2)
         /\ Image(x, H2, C2) = Replaced(Image(st, H, C), from, to, SectionAt(st2, c))
<1>1. /\ t \notin H /\ o \in Block /\ o # t /\ o \in HeadsIn(st2) /\ t \in HeadsIn(st2)
      /\ \A b \in HeadsIn(st2) : b \in H \/ b = t
      /\ \A h \in H : \A b \in ToSet(C[h]) : b \in Block /\ b # t /\ st2[b] = st[b]
      /\ \A h \in H \ {o} : o \notin ToSet(C[h])
  BY SwapHeads
<1>2. /\ Intact(st, H, C) /\ HeadsIn(st) = H /\ o \in H /\ NameOf(st[o]) = from
      /\ \A h \in H \ {o} : NameOf(st[h]) # to /\ ToSet(c) \cap ToSet(C[h]) = {}
      /\ IsSection(st2, c) /\ IsDistinct(c) /\ c[1] = t /\ NameOf(st2[t]) = to
      /\ o \notin ToSet(c) /\ Rivals(st2, o, t)
  BY DEF Swap
<1>3. Keeps(st, H, C, o, x)
  BY <1>1 DEF Keeps
<1>4. c \in Seq(Block) /\ \A b \in ToSet(c) : b \in Block /\ b # o
  BY <1>2, SectionBlocks
<1>5. \A b \in ToSet(c) : x[b] = st2[b]
  BY <1>4
<1>6. IsSection(x, c)
  BY <1>2, <1>5, SectionStays
<1>7. SectionAt(x, c) = SectionAt(st2, c)
  BY <1>4, <1>5, TagsSame
<1>8. x[t] = st2[t] /\ NameOf(x[t]) = to
  <2>1. t \in Block
    BY <1>1 DEF HeadsIn
  <2> QED
    BY <1>1, <1>2, <2>1
<1>9. ASSUME NEW b \in HeadsIn(x)
      PROVE  \/ b \in H /\ b # o
             \/ b = t
             \/ /\ b = o /\ o \in H /\ x[o] = st[o]
                /\ Rivals(x, o, t) /\ Loses(x, o, t)
  <2>1. CASE b # o
    <3>1. b \in Block /\ x[b] = st2[b]
      BY <2>1 DEF HeadsIn
    <3>2. b \in HeadsIn(st2)
      BY <3>1 DEF HeadsIn
    <3> QED
      BY <1>1, <2>1, <3>2
  <2>2. CASE b = o
    <3>1. x = st2 /\ Loses(st2, o, t)
      BY <2>2 DEF HeadsIn
    <3>2. st2[o] = st[o]
      BY <1>1, <1>2 DEF Swap
    <3> QED
      BY <1>2, <2>2, <3>1, <3>2
  <2> QED
    BY <2>1, <2>2
<1>10. H2 = (H \ {o}) \cup {t}
  BY DEF HeadsWith
<1>11. C2[t] = c /\ \A h \in H \ {o} : C2[h] = C[h]
  BY <1>1 DEF ChainsWith, HeadsWith
<1>12. \A h \in H \ {o} : NameOf(st[h]) # to /\ ToSet(c) \cap ToSet(C[h]) = {}
  BY <1>2
<1>13. Alive(x, H2, C2)
       /\ Image(x, H2, C2) = Replaced(Image(st, H, C), from, to, SectionAt(x, c))
  <2>1. (o \in H => NameOf(st[o]) = from) /\ (o \notin H => from = to)
    BY <1>2
  <2>2. \A h \in H \ {o} : NameOf(st[h]) # to
    BY <1>12
  <2>3. \A h \in H \ {o} : ToSet(c) \cap ToSet(C[h]) = {}
    BY <1>12
  <2>4. Intact(st, H, C) /\ IsDistinct(c) /\ t = c[1] /\ t \notin H /\ NameOf(x[t]) = to
    BY <1>1, <1>2, <1>8
  <2>5. /\ Intact(st, H, C) /\ Keeps(st, H, C, o, x) /\ IsSection(x, c) /\ IsDistinct(c)
        /\ t = c[1] /\ t \notin H /\ NameOf(x[t]) = to
    BY ONLY <1>3, <1>6, <2>4
  <2>6. H2 = (H \ {o}) \cup {t} /\ C2[t] = c
    BY ONLY <1>10, <1>11
  <2>7. \A h \in H \ {o} : C2[h] = C[h]
    BY ONLY <1>11
  <2> QED
    BY ONLY <1>9, <2>1, <2>2, <2>3, <2>5, <2>6, <2>7, CountsNow
<1> QED
  BY <1>7, <1>13

-----------------------------------------------------------------------------
(* The storage shows S, and the writes vs make T of it at once: with the    *)
(* first of them, the second, the third, or they have done so already.      *)
Before(st, vs, S, T) ==
  /\ Quiet(st, <<>>, S) /\ vs # <<>>
  /\ \A x \in CutsOff(st, Head(vs)) : Quiet(x, <<>>, S) \/ Quiet(x, <<>>, T)
Soon0(st, vs, S, T) == Quiet(st, vs, T)
Soon1(st, vs, S, T) == Before(st, vs, S, T) /\ Soon0(Stored(st, Head(vs)), Tail(vs), S, T)
Soon2(st, vs, S, T) == Before(st, vs, S, T) /\ Soon1(Stored(st, Head(vs)), Tail(vs), S, T)
Soon3(st, vs, S, T) == Before(st, vs, S, T) /\ Soon2(Stored(st, Head(vs)), Tail(vs), S, T)
Atomic(st, vs, S, T) ==
  Soon0(st, vs, S, T) \/ Soon1(st, vs, S, T) \/ Soon2(st, vs, S, T) \/ Soon3(st, vs, S, T)

LEMMA AloneQuiet ==
  ASSUME NEW st, NEW H, NEW C, Alive(st, H, C)
  PROVE  Quiet(st, <<>>, Image(st, H, C))
<1>1. ToSet(<<>>) = {}
  BY DEF ToSet
<1> QED
  BY <1>1 DEF Quiet

LEMMA FreesHarmless ==
  ASSUME NEW us, NEW B, OnlyFrees(us, B), NEW H, NEW C, \A h \in H : B \cap ToSet(C[h]) = {}
  PROVE  \A w \in ToSet(us) : Harmless(H, C, w)
<1> SUFFICES ASSUME NEW w \in ToSet(us) PROVE Harmless(H, C, w)
  OBVIOUS
<1>1. w \in Writes /\ w[1] \in B /\ w[2].type = "free"
  BY SetOf DEF OnlyFrees
<1>2. <<0, InfoBlock>>[2].type = "info"
  BY DEF InfoBlock
<1>3. w # <<0, InfoBlock>>
  BY <1>1, <1>2
<1>4. w[1] \in Block
  BY <1>1, <1>3 DEF Writes
<1> QED
  BY <1>1, <1>4 DEF Harmless

LEMMA FreesQuiet ==
  ASSUME NEW st, NEW H, NEW C, Alive(st, H, C), NEW us, NEW B, OnlyFrees(us, B),
         \A h \in H : B \cap ToSet(C[h]) = {}, NEW T, T = Image(st, H, C)
  PROVE  Quiet(st, us, T)
BY FreesHarmless DEF Quiet

LEMMA FreesTail ==
  ASSUME NEW us, us # <<>>, NEW B, OnlyFrees(us, B)
  PROVE  /\ Head(us) \in Writes /\ Head(us) = us[1] /\ Head(us)[2].type = "free"
         /\ OnlyFrees(Tail(us), B)
<1>1. us \in Seq(Writes) /\ \A w \in ToSet(us) : w[1] \in B /\ w[2].type = "free"
  BY DEF OnlyFrees
<1>2. /\ Head(us) \in Writes /\ Head(us) \in ToSet(us)
      /\ Tail(us) \in Seq(Writes) /\ \A y \in ToSet(Tail(us)) : y \in ToSet(us)
  BY <1>1, HeadTailSet
<1>3. Head(us) = us[1]
  BY <1>1
<1> QED
  BY <1>1, <1>2, <1>3 DEF OnlyFrees

(* The head that replaces another one has been written: from now on, or     *)
(* when the old one is overwritten, the new section counts.                 *)
LEMMA Switches ==
  ASSUME StorageAssumption,
         NEW st, NEW H, NEW C, NEW o, NEW from, NEW to, NEW t, NEW c, NEW st2,
         Swap(st, H, C, o, from, to, t, c, st2),
         NEW us, NEW B, OnlyFrees(us, B), StartsAt(us, o),
         B \cap ToSet(c) = {}, \A h \in H \ {o} : B \cap ToSet(C[h]) = {},
         NEW S, S = Image(st, H, C), NEW T, T = Replaced(S, from, to, SectionAt(st2, c))
  PROVE  Soon0(st2, us, S, T) \/ Soon1(st2, us, S, T)
<1> DEFINE H2 == HeadsWith(H, o, t)
           C2 == ChainsWith(H, C, o, t, c)
           y == Head(us)
<1>1. /\ t \notin H /\ o \in Block /\ o # t /\ o \in HeadsIn(st2) /\ t \in HeadsIn(st2)
      /\ \A b \in HeadsIn(st2) : b \in H \/ b = t
      /\ \A h \in H : \A b \in ToSet(C[h]) : b \in Block /\ b # t /\ st2[b] = st[b]
  BY SwapHeads
<1>2. /\ Intact(st, H, C) /\ o \in H /\ IsStorage(st2) /\ Rivals(st2, o, t)
      /\ IsSection(st2, c) /\ c[1] = t
      /\ \A h \in H \ {o} : NameOf(st[h]) # to /\ ToSet(c) \cap ToSet(C[h]) = {}
      /\ NameOf(st2[t]) = to
  BY DEF Swap
<1>3. us # <<>> /\ y[1] = o /\ y \in Writes /\ y[2].type = "free" /\ OnlyFrees(Tail(us), B)
  BY FreesTail DEF StartsAt
<1>4. \A h \in H2 : B \cap ToSet(C2[h]) = {}
  BY DEF HeadsWith, ChainsWith
<1>5. ASSUME NEW x, IsStorage(x), \A b \in Block : b # o => x[b] = st2[b],
             ~IsReadable(x[o], "head") \/ (x = st2 /\ Loses(st2, o, t))
      PROVE  Alive(x, H2, C2) /\ Image(x, H2, C2) = T
  BY <1>5, OldGone
<1> HIDE DEF H2, C2, y
<1>6. CASE Loses(st2, o, t)
  <2>1. Alive(st2, H2, C2) /\ Image(st2, H2, C2) = T
    BY <1>2, <1>5, <1>6
  <2>2. Quiet(st2, us, T)
    BY <1>4, <2>1, FreesQuiet
  <2> QED
    BY <2>2 DEF Soon0
<1>7. CASE ~Loses(st2, o, t)
  <2>1. Loses(st2, t, o) /\ Rivals(st2, t, o)
    <3>1. Loses(st2, t, o)
      BY <1>1, <1>2, <1>7, OneLoses
    <3> QED
      BY <1>2, <3>1 DEF Rivals
  <2>2. ASSUME NEW h \in H, h # o PROVE ~Rivals(st2, t, h)
    <3>1. NameOf(st[h]) # to /\ ToSet(c) \cap ToSet(C[h]) = {}
      BY <1>2, <2>2
    <3>2. IsSection(st, C[h]) /\ C[h][1] = h
      BY <1>2 DEF Intact
    <3>3. st[h].next \in ToSet(C[h]) /\ h \in ToSet(C[h])
      <4> DEFINE d == C[h]
      <4>1. IsSection(st, d) /\ d[1] = h
        BY <3>2
      <4> HIDE DEF d
      <4>2. d[1] \in ToSet(d) /\ d[2] \in ToSet(d) /\ st[d[1]].next = d[2]
        BY <4>1, SectionBlocks DEF IsSection
      <4> QED
        BY <4>1, <4>2 DEF d
    <3>4. st2[h] = st[h]
      BY <1>1, <3>3
    <3>5. st2[t].next \in ToSet(c)
      BY <1>2, SectionBlocks DEF IsSection
    <3> QED
      BY <1>2, <3>1, <3>3, <3>4, <3>5 DEF Rivals
  <2>3. Alive(st2, H, C) /\ Image(st2, H, C) = S
    <3>1. \A h \in H : \A b \in ToSet(C[h]) : st2[b] = st[b]
      BY <1>1
    <3>2. \A h \in H : h # o => ~Rivals(st2, t, h)
      BY <2>2
    <3> QED
      BY <1>1, <1>2, <2>1, <3>1, <3>2, OldCounts
  <2>4. Quiet(st2, <<>>, S)
    BY <2>3, AloneQuiet
  <2>5. ASSUME NEW x \in CutsOff(st2, y) PROVE Quiet(x, <<>>, T)
    <3>1. IsStorage(x) /\ \A b \in Block : b # y[1] => x[b] = st2[b]
      BY <1>2, <1>3, CutFields
    <3>2. ~ x[o].ok
      BY <1>1, <1>2, <1>3, CutFields
    <3>3. ~ IsReadable(x[o], "head")
      BY <3>2 DEF IsReadable
    <3>4. Alive(x, H2, C2) /\ Image(x, H2, C2) = T
      BY <1>3, <1>5, <3>1, <3>3
    <3> QED
      BY <3>4, AloneQuiet
  <2>6. Quiet(Stored(st2, y), Tail(us), T)
    <3> DEFINE x == Stored(st2, y)
               new == y[2]
    <3>1. IsStorage(x)
      BY <1>2, <1>3, StoredIsStorage
    <3>2. IsStored(x, st2, o, new)
      BY <1>3 DEF IsStored, Stored
    <3>3. o \in 0..(NBlocks - 1)
      BY <1>1 DEF Block
    <3>4. new.type = "free"
      BY <1>3
    <3> HIDE DEF x, new
    <3>5. x[o] = new /\ \A b \in Block : b # o => x[b] = st2[b]
      BY <1>2, <3>2, <3>3, StoredFields
    <3>6. ~ IsReadable(x[o], "head")
      BY <3>4, <3>5 DEF IsReadable
    <3>7. Alive(x, H2, C2) /\ Image(x, H2, C2) = T
      BY <1>5, <3>1, <3>5, <3>6
    <3>8. Quiet(x, Tail(us), T)
      BY <1>3, <1>4, <3>7, FreesQuiet
    <3> QED
      BY <3>8 DEF x
  <2>7. Before(st2, us, S, T)
    BY <1>3, <2>4, <2>5 DEF Before, y
  <2> QED
    BY <2>6, <2>7 DEF Soon0, Soon1, y
<1> QED
  BY <1>6, <1>7

(* What the calls make of the sections. *)
Becomes(S, T, ch) == \A n \in Names : IF n \in DOMAIN ch THEN T[n].is = ch[n] ELSE T[n] = S[n]
Changes(st, vs, ch) ==
  \E S, T : Quiet(st, <<>>, S) /\ Atomic(st, vs, S, T) /\ Becomes(S, T, ch)

LEMMA NothingChanges ==
  ASSUME NEW st, NEW vs, NEW S, Quiet(st, vs, S)
  PROVE  Changes(st, vs, Nothing)
<1>1. Quiet(st, <<>>, S)
  BY QuietAtAll
<1>2. Atomic(st, vs, S, S)
  BY DEF Atomic, Soon0
<1>3. DOMAIN Nothing = {}
  BY DEF Nothing
<1>4. Becomes(S, S, Nothing)
  BY <1>3 DEF Becomes
<1> QED
  BY <1>1, <1>2, <1>4 DEF Changes

LEMMA LayoutApart ==
  ASSUME StorageAssumption, NEW st, NEW l, NEW ws, NEW H, NEW C, IsLayout(st, l, ws, H, C)
  PROVE  /\ IsStorage(st) /\ IsFreeList(st, l, C[0])
         /\ \A h \in H : ToSet(C[h]) \cap ToSet(C[0]) = {} /\ C[h][1] = h
                         /\ IsSection(st, C[h]) /\ IsDistinct(C[h])
         /\ \A n \in DOMAIN ws :
              /\ \A h \in H : ToSet(C[h]) \cap ToSet(C[ws[n].head]) = {}
              /\ ToSet(C[0]) \cap ToSet(C[ws[n].head]) = {}
              /\ IsWritten(st, ws[n], C[ws[n].head]) /\ IsDistinct(C[ws[n].head])
              /\ IsReplaced(st, H, n, ws[n])
<1>1. IsStorage(st) /\ IsFreeList(st, l, C[0])
  BY DEF IsLayout
<1>2. H \subseteq Labels(H, ws) /\ 0 \in Labels(H, ws) /\ HeadsOf(ws) \subseteq Labels(H, ws)
  BY DEF Labels
<1>3. /\ \A a \in H \cup HeadsOf(ws) : a # 0
      /\ H \cap HeadsOf(ws) = {}
  BY LabelBlocks
<1>4. /\ \A a \in Labels(H, ws) : C[a] \in Seq(Block) /\ IsDistinct(C[a])
      /\ \A a, b \in Labels(H, ws) : a # b => ToSet(C[a]) \cap ToSet(C[b]) = {}
  BY ChainsApart
<1>5. ASSUME NEW h \in H
      PROVE  ToSet(C[h]) \cap ToSet(C[0]) = {} /\ C[h][1] = h
                         /\ IsSection(st, C[h]) /\ IsDistinct(C[h])
  <2>1. h # 0 /\ h \in Labels(H, ws)
    BY <1>2, <1>3
  <2> QED
    BY <1>2, <1>4, <2>1 DEF IsLayout
<1>6. ASSUME NEW n \in DOMAIN ws
      PROVE  /\ \A h \in H : ToSet(C[h]) \cap ToSet(C[ws[n].head]) = {}
             /\ ToSet(C[0]) \cap ToSet(C[ws[n].head]) = {}
             /\ IsWritten(st, ws[n], C[ws[n].head]) /\ IsDistinct(C[ws[n].head])
             /\ IsReplaced(st, H, n, ws[n])
  <2> DEFINE a == ws[n].head
  <2>1. a \in HeadsOf(ws)
    BY DEF HeadsOf
  <2>2. IsWritten(st, ws[n], C[ws[n].head]) /\ IsReplaced(st, H, n, ws[n])
    BY DEF IsLayout
  <2> HIDE DEF a
  <2>3. a # 0 /\ a \notin H /\ a \in Labels(H, ws)
    BY <1>2, <1>3, <2>1
  <2>4. /\ \A h \in H : ToSet(C[h]) \cap ToSet(C[a]) = {}
        /\ ToSet(C[0]) \cap ToSet(C[a]) = {} /\ IsDistinct(C[a])
    BY <1>2, <1>4, <2>3
  <2> QED
    BY <2>2, <2>4 DEF a
<1> QED
  BY <1>1, <1>5, <1>6

LEMMA DataHarmless ==
  ASSUME NEW H, NEW C, NEW b \in Block, NEW s, NEW x, NEW e, \A h \in H : b \notin ToSet(C[h])
  PROVE  Harmless(H, C, <<b, DataBlock(s, x, e)>>)
BY DEF Harmless, DataBlock

LEMMA PushChanges ==
  ASSUME StorageAssumption, NEW st, NEW l, NEW ws, NEW H, NEW C, IsLayout(st, l, ws, H, C),
         NEW n \in DOMAIN ws, NEW w, w = ws[n], NEW l2, NEW next \in Link,
         NEW work, work = Store(Begin(st, l2), w.next, DataBlock(w.seqNb, w.tag, next))
  PROVE  Changes(st, work.writes, Nothing)
<1> DEFINE x == DataBlock(w.seqNb, w.tag, next)
           y == <<w.next, x>>
<1>1. Alive(st, H, C)
  BY LayoutAlive
<1>2. w.next \in Block /\ x \in Content /\ IsStorage(st)
  BY WriterBlock DEF IsLayout
<1>3. w.next \in ToSet(C[w.head]) /\ \A h \in H : ToSet(C[h]) \cap ToSet(C[w.head]) = {}
  <2>1. IsWritten(st, w, C[w.head]) /\ \A h \in H : ToSet(C[h]) \cap ToSet(C[w.head]) = {}
    BY LayoutApart
  <2> DEFINE c == C[w.head]
  <2>2. IsWritten(st, w, c)
    BY <2>1
  <2> HIDE DEF c
  <2>3. w.next \in ToSet(c)
    BY <2>2, WrittenBlocks
  <2> QED
    BY <2>1, <2>3 DEF c
<1>4. Harmless(H, C, y)
  BY <1>2, <1>3, DataHarmless
<1> HIDE DEF x
<1>5. work.writes = <<y>>
  BY <1>2, FirstWrite DEF x
<1> HIDE DEF y
<1>6. \A v \in ToSet(work.writes) : Harmless(H, C, v)
  BY <1>4, <1>5 DEF ToSet
<1>7. Quiet(st, work.writes, Image(st, H, C))
  BY <1>1, <1>6 DEF Quiet
<1> QED
  BY <1>7, NothingChanges

LEMMA WrittenRest ==
  ASSUME StorageAssumption, NEW st, NEW w, NEW c, IsWritten(st, w, c), IsDistinct(c),
         NEW d, d = Tail(c)
  PROVE  /\ IsChain(st, d, w.next) /\ d[1] = w.first /\ d \in Seq(Block) /\ IsDistinct(d)
         /\ ToSet(c) = {w.head} \cup ToSet(d) /\ w.head \notin ToSet(d)
BY WrittenIsChain

LEMMA WriterFrees ==
  ASSUME StorageAssumption, NEW st, IsStorage(st), NEW l, NEW F, IsFreeList(st, l, F),
         NEW w, NEW c, IsWritten(st, w, c), IsDistinct(c), ToSet(F) \cap ToSet(c) = {},
         NEW begun, begun = Begin(st, l),
         NEW work, work = AddBlocks(AddChain(begun, w.first, w.next), <<w.head>>)
  PROVE  \A v \in ToSet(work.writes) : v[1] \in ToSet(F) \cup ToSet(c) /\ v[2].type = "free"
<1> DEFINE given == AddChain(begun, w.first, w.next)
           d == Tail(c)
           a == w.head
           p == <<a>>
           G == F \o d
<1>3. /\ IsChain(st, d, w.next) /\ d[1] = w.first /\ d \in Seq(Block) /\ IsDistinct(d)
      /\ ToSet(c) = {a} \cup ToSet(d) /\ a \notin ToSet(d)
  BY WrittenRest
<1>4. a \in Block
  BY WrittenBlocks
<1>5. IsWork(st, begun) /\ begun.writes = <<>> /\ begun.st = st /\ begun.list = l
  BY BeginWork DEF Begin
<1>6. F \in Seq(Block) /\ IsDistinct(F)
  BY DEF IsFreeList
<1>7. given = AddChain(begun, d[1], w.next) /\ work = AddBlocks(given, p)
  BY <1>3
<1> HIDE DEF given, d, a
<1>8. G \in Seq(Block) /\ IsDistinct(G) /\ ToSet(G) = ToSet(F) \cup ToSet(d)
  <2>1. ToSet(F) \cap ToSet(d) = {}
    BY <1>3
  <2> QED
    BY <1>3, <1>6, <2>1, JoinedApart
<1>9. p \in Seq(Block) /\ p # <<>> /\ ToSet(p) = {a} /\ IsDistinct(p)
  BY <1>4, OneBlock
<1>10. ToSet(G) \cap ToSet(p) = {}
  BY <1>3, <1>4, <1>8, <1>9
<1>12. Freed(st, begun, given, G, ToSet(F) \cup ToSet(d))
  BY <1>3, <1>5, <1>7, <1>8, AddChainAdds
<1>14. Frees(begun, given, ToSet(F) \cup ToSet(d), d[1])
  BY <1>3, <1>5, <1>7, <1>8, ChainFrees
<1> HIDE DEF G, p
<1>11. IsDistinct(G \o p)
  BY <1>8, <1>9, <1>10, JoinedApart
<1>13. IsWork(st, given) /\ IsFreeList(given.st, given.list, G)
  BY <1>12 DEF Freed
<1>15. Frees(given, work, ToSet(G) \cup ToSet(p), p[1])
  BY <1>7, <1>9, <1>11, <1>13, AddBlocksFrees
<1>16. begun.writes \in Seq(Writes) /\ given.writes \in Seq(Writes)
  BY <1>5, <1>13 DEF IsWork
<1> SUFFICES ASSUME NEW v \in ToSet(work.writes)
             PROVE  v[1] \in ToSet(F) \cup ToSet(c) /\ v[2].type = "free"
  OBVIOUS
<1>17. ToSet(<<>>) = {}
  BY DEF ToSet
<1>18. v \in ToSet(given.writes) \/ (v[1] \in ToSet(G) \cup ToSet(p) /\ v[2].type = "free")
  BY <1>15, <1>16, FreesPlaces
<1>19. v \in ToSet(given.writes) => v[1] \in ToSet(F) \cup ToSet(d) /\ v[2].type = "free"
  BY <1>5, <1>14, <1>16, <1>17, FreesPlaces
<1> QED
  BY <1>3, <1>8, <1>9, <1>18, <1>19

LEMMA CloseCrashedChanges ==
  ASSUME StorageAssumption, NEW st, NEW l, NEW ws, NEW H, NEW C, IsLayout(st, l, ws, H, C),
         NEW n \in DOMAIN ws, NEW w, w = ws[n],
         NEW work, work = AddBlocks(AddChain(Begin(st, l), w.first, w.next), <<w.head>>)
  PROVE  Changes(st, work.writes, Nothing)
<1> DEFINE begun == Begin(st, l)
           c == C[w.head]
           F == C[0]
           B == ToSet(F) \cup ToSet(c)
<1>1. Alive(st, H, C)
  BY LayoutAlive
<1>2. /\ IsStorage(st) /\ IsFreeList(st, l, F) /\ IsWritten(st, w, c) /\ IsDistinct(c)
      /\ ToSet(F) \cap ToSet(c) = {}
      /\ \A h \in H : ToSet(C[h]) \cap ToSet(F) = {} /\ ToSet(C[h]) \cap ToSet(c) = {}
  BY LayoutApart
<1>3. IsCall(st, work, Without(ws, n))
  BY CloseCrashedKeeps
<1>4. work.writes \in Seq(Writes)
  BY <1>3 DEF IsCall
<1>5. begun = Begin(st, l) /\ work = AddBlocks(AddChain(begun, w.first, w.next), <<w.head>>)
  OBVIOUS
<1> HIDE DEF begun, c, F
<1>6. \A v \in ToSet(work.writes) : v[1] \in B /\ v[2].type = "free"
  BY <1>2, <1>5, WriterFrees
<1>7. OnlyFrees(work.writes, B)
  BY <1>4, <1>6 DEF OnlyFrees
<1>8. \A h \in H : B \cap ToSet(C[h]) = {}
  BY <1>2
<1>9. Quiet(st, work.writes, Image(st, H, C))
  BY <1>1, <1>7, <1>8, FreesQuiet
<1> QED
  BY <1>9, NothingChanges

LEMMA FreesAlone ==
  ASSUME NEW work, work.writes = <<>>, NEW r, NEW B, NEW a, Frees(work, r, B, a)
  PROVE  OnlyFrees(r.writes, B) /\ StartsAt(r.writes, a)
<1>1. PICK us : r.writes = work.writes \o us /\ OnlyFrees(us, B) /\ StartsAt(us, a)
  BY DEF Frees
<1>2. us \in Seq(Writes)
  BY <1>1 DEF OnlyFrees
<1>3. r.writes = us
  BY <1>1, <1>2
<1> QED
  BY <1>1, <1>3

LEMMA FreesAfterOne ==
  ASSUME NEW work, NEW y \in Writes, work.writes = <<y>>, NEW r, NEW B, NEW a, Frees(work, r, B, a)
  PROVE  \E us : /\ r.writes # <<>> /\ Head(r.writes) = y /\ Tail(r.writes) = us
                 /\ OnlyFrees(us, B) /\ StartsAt(us, a)
<1>1. PICK us : r.writes = work.writes \o us /\ OnlyFrees(us, B) /\ StartsAt(us, a)
  BY DEF Frees
<1>2. us \in Seq(Writes)
  BY <1>1 DEF OnlyFrees
<1>3. r.writes = <<y>> \o us
  BY <1>1
<1>4. r.writes # <<>> /\ Head(r.writes) = y /\ Tail(r.writes) = us
  BY <1>2, <1>3
<1> QED
  BY <1>1, <1>4

LEMMA ReplacedBecomes ==
  ASSUME NEW S, NEW from, NEW to, NEW a, NEW T, T = Replaced(S, from, to, a),
         NEW ch, DOMAIN ch = {from, to}, ch[to] = a.is, from # to => ch[from] = <<>>
  PROVE  Becomes(S, T, ch)
<1> SUFFICES ASSUME NEW n \in Names
             PROVE  IF n \in DOMAIN ch THEN T[n].is = ch[n] ELSE T[n] = S[n]
  BY DEF Becomes
<1>1. T[n] = IF n = to THEN a ELSE IF n = from THEN NoSection ELSE S[n]
  BY DEF Replaced
<1>2. NoSection.is = <<>>
  BY DEF NoSection
<1> QED
  BY <1>1, <1>2

LEMMA DeleteChanges ==
  ASSUME StorageAssumption, NEW st, NEW l, NEW ws, NEW H, NEW C, IsLayout(st, l, ws, H, C),
         NEW h \in H, NEW n, n = NameOf(st[h]),
         NEW work, work = AddChain(Begin(st, l), h, NoBlock),
         NEW ch, DOMAIN ch = {n}, ch[n] = <<>>
  PROVE  Changes(st, work.writes, ch)
<1> DEFINE begun == Begin(st, l)
           F == C[0]
           B == ToSet(F) \cup ToSet(C[h])
           us == work.writes
           y == Head(us)
           S == Image(st, H, C)
           T == Replaced(S, n, n, NoSection)
           H0 == H \ {h}
<1>1. Alive(st, H, C) /\ HeadsIn(st) = H /\ Intact(st, H, C)
  BY LayoutAlive DEF Alive
<1>2. /\ IsStorage(st) /\ IsFreeList(st, l, F)
      /\ \A g \in H : ToSet(C[g]) \cap ToSet(F) = {} /\ C[g][1] = g
                      /\ IsSection(st, C[g]) /\ IsDistinct(C[g])
  BY LayoutApart
<1>3. \A g \in H0 : B \cap ToSet(C[g]) = {}
  BY <1>1, <1>2 DEF Intact
<1>4. IsWork(st, begun) /\ begun.writes = <<>> /\ begun.st = st /\ begun.list = l
      /\ work = AddChain(begun, h, NoBlock)
  BY <1>2, BeginWork DEF Begin
<1> HIDE DEF begun, F
<1>5. Frees(begun, work, B, h)
  <2> DEFINE c == C[h]
  <2>1. IsSection(st, c) /\ IsDistinct(c) /\ ToSet(F) \cap ToSet(c) = {} /\ h = c[1]
    BY <1>2
  <2> HIDE DEF c
  <2>2. Frees(begun, work, ToSet(F) \cup ToSet(c), h)
    BY <1>2, <1>4, <2>1, SectionFrees
  <2> QED
    BY <2>2 DEF c
<1>6. OnlyFrees(us, B) /\ StartsAt(us, h)
  BY <1>4, <1>5, FreesAlone
<1>7. us # <<>> /\ y[1] = h /\ y \in Writes /\ y[2].type = "free" /\ OnlyFrees(Tail(us), B)
  BY <1>6, FreesTail DEF StartsAt
<1>8. h \in Block /\ \A g \in H0 : \A b \in ToSet(C[g]) : b \in Block /\ b # h
  <2>1. h \in Block
    BY <1>1 DEF HeadsIn
  <2>2. h \in ToSet(C[h])
    BY <1>2, SectionBlocks
  <2>3. \A g \in H0 : \A b \in ToSet(C[g]) : b \in Block
    BY <1>2, SectionBlocks
  <2> QED
    BY <1>3, <2>1, <2>2, <2>3
<1>9. ASSUME NEW x, IsStorage(x), \A b \in Block : b # h => x[b] = st[b], ~IsReadable(x[h], "head")
      PROVE  Alive(x, H0, C) /\ Image(x, H0, C) = T
  <2>1. Keeps(st, H, C, h, x)
    BY <1>8, <1>9 DEF Keeps
  <2>2. \A b \in HeadsIn(x) : b \in H /\ b # h
    BY <1>1, <1>9 DEF HeadsIn
  <2> QED
    BY <1>1, <2>1, <2>2, Dropped
<1>10. Quiet(st, <<>>, S)
  BY <1>1, AloneQuiet
<1>11. Becomes(S, T, ch)
  <2>1. NoSection.is = <<>>
    BY DEF NoSection
  <2> HIDE DEF S
  <2> QED
    BY <2>1, ReplacedBecomes
<1> HIDE DEF us, y, S, T, H0, B
<1>12. ASSUME NEW x \in CutsOff(st, y) PROVE Quiet(x, <<>>, T)
  <2>1. IsStorage(x) /\ \A b \in Block : b # y[1] => x[b] = st[b]
    BY <1>2, <1>7, CutFields
  <2>2. ~ x[h].ok
    BY <1>2, <1>7, <1>8, CutFields
  <2>3. ~ IsReadable(x[h], "head")
    BY <2>2 DEF IsReadable
  <2> QED
    BY <1>7, <1>9, <2>1, <2>3, AloneQuiet
<1>13. Quiet(Stored(st, y), Tail(us), T)
  <2> DEFINE x == Stored(st, y)
             new == y[2]
  <2>1. IsStorage(x)
    BY <1>2, <1>7, StoredIsStorage
  <2>2. IsStored(x, st, h, new)
    BY <1>7 DEF IsStored, Stored
  <2>3. h \in 0..(NBlocks - 1)
    BY <1>8 DEF Block
  <2>4. new.type = "free"
    BY <1>7
  <2> HIDE DEF x, new
  <2>5. x[h] = new /\ \A b \in Block : b # h => x[b] = st[b]
    BY <1>2, <2>2, <2>3, StoredFields
  <2>6. ~ IsReadable(x[h], "head")
    BY <2>4, <2>5 DEF IsReadable
  <2>7. Alive(x, H0, C) /\ Image(x, H0, C) = T
    BY <1>9, <2>1, <2>5, <2>6
  <2>8. Quiet(x, Tail(us), T)
    BY <1>3, <1>7, <2>7, FreesQuiet
  <2> QED
    BY <2>8 DEF x
<1>14. Before(st, us, S, T)
  BY <1>7, <1>10, <1>12 DEF Before, y
<1>15. Atomic(st, us, S, T)
  BY <1>13, <1>14 DEF Atomic, Soon1, Soon0, y
<1> QED
  BY <1>10, <1>11, <1>15 DEF Changes, us

(* The new head is written outside of the sections, and then the old one is *)
(* given back.                                                              *)
LEMMA HeadBefore ==
  ASSUME StorageAssumption,
         NEW st, NEW H, NEW C, Alive(st, H, C), NEW us, us # <<>>, NEW y \in Writes, Head(us) = y,
         \A h \in H : y[1] \notin ToSet(C[h]), NEW S, S = Image(st, H, C), NEW T
  PROVE  Before(st, us, S, T)
<1>1. \A x \in CutsOff(st, y) : Alive(x, H, C) /\ Image(x, H, C) = S
  BY AliveStored
<1>2. ASSUME NEW x \in CutsOff(st, y) PROVE Quiet(x, <<>>, S)
  BY <1>1, <1>2, AloneQuiet
<1>3. Quiet(st, <<>>, S)
  BY AloneQuiet
<1> QED
  BY <1>2, <1>3 DEF Before

LEMMA SwapSoon ==
  ASSUME StorageAssumption,
         NEW st, NEW H, NEW C, NEW o, NEW from, NEW to, NEW t, NEW c, NEW y \in Writes, y[1] = t,
         NEW st2, st2 = Stored(st, y),
         Alive(st, H, C), Swap(st, H, C, o, from, to, t, c, st2),
         NEW us, us # <<>>, Head(us) = y,
         NEW B, OnlyFrees(Tail(us), B), StartsAt(Tail(us), o),
         B \cap ToSet(c) = {}, \A h \in H \ {o} : B \cap ToSet(C[h]) = {},
         NEW S, S = Image(st, H, C), NEW T, T = Replaced(S, from, to, SectionAt(st2, c))
  PROVE  Soon1(st, us, S, T) \/ Soon2(st, us, S, T)
<1>1. \A h \in H : y[1] \notin ToSet(C[h])
  BY DEF Swap
<1>2. Before(st, us, S, T)
  BY <1>1, HeadBefore
<1>3. Soon0(st2, Tail(us), S, T) \/ Soon1(st2, Tail(us), S, T)
  BY Switches
<1> QED
  BY <1>2, <1>3 DEF Soon1, Soon2

LEMMA RenameSwaps ==
  ASSUME StorageAssumption, NEW st, NEW l, NEW ws, NEW H, NEW C, IsLayout(st, l, ws, H, C),
         NEW h \in H, NEW to \in Names, \A g \in H : NameOf(st[g]) # to,
         NEW t \in Block, \A g \in H : t \notin ToSet(C[g]),
         NEW st2, IsStorage(st2), \A b \in Block : b # t => st2[b] = st[b],
         st2[t] = RenameHead(st, h, to), NEW c, c = NewHead(C[h], t)
  PROVE  /\ Swap(st, H, C, h, NameOf(st[h]), to, t, c, st2)
         /\ SectionAt(st2, c).is = ContentOf(st, h)
         /\ ToSet(c) = (ToSet(C[h]) \ {h}) \cup {t}
<1>1. /\ IsSection(st, C[h]) /\ IsDistinct(C[h]) /\ C[h][1] = h
      /\ \A g \in H : IsSection(st, C[g]) /\ C[g][1] = g
  BY LayoutApart
<1>2. Alive(st, H, C) /\ HeadsIn(st) = H /\ Intact(st, H, C)
  BY LayoutAlive DEF Alive
<1>3. ContentOf(st, h) = TagsAlong(st, C[h])
  BY <1>2, AliveLive
<1>4. /\ st2[t].next = st[h].next /\ NameOf(st2[t]) = to /\ IsReadable(st2[t], "head")
  BY HeadFields DEF RenameHead
<1>5. \A g \in H \ {h} : ToSet(C[g]) \cap ToSet(C[h]) = {}
  BY <1>2 DEF Intact
<1>6. t \notin ToSet(C[h])
  OBVIOUS
<1> DEFINE d == C[h]
<1> HIDE DEF d
<1>7. IsSection(st, d) /\ IsDistinct(d) /\ d[1] = h /\ t \notin ToSet(d) /\ c = NewHead(d, t)
  BY <1>1, <1>6 DEF d
<1>8. d \in Seq(Block) /\ Len(d) \in Nat /\ Len(d) >= 2 /\ h \in ToSet(d) /\ \A b \in ToSet(d) : b \in Block
  BY <1>7, SectionBlocks
<1>9. /\ c \in Seq(Block) /\ Len(c) = Len(d) /\ IsDistinct(c)
      /\ c[1] = t /\ \A i \in 2..Len(d) : c[i] = d[i]
      /\ ToSet(c) = (ToSet(d) \ {h}) \cup {t}
  BY <1>7, <1>8, NewHeadShape
<1>10. IsSection(st2, c)
  <2>1. \A b \in ToSet(d) : b # d[1] => st2[b] = st[b]
    BY <1>7, <1>8
  <2>2. st2[t].next = st[d[1]].next
    BY <1>4, <1>7
  <2> QED
    BY <1>4, <1>7, <2>1, <2>2, NewHeadSection
<1>11. TagsAlong(st2, c) = TagsAlong(st, d)
  <2>1. \A i \in 1..(Len(d) - 1) : i + 1 \in 2..Len(d) /\ i + 1 \in 1..Len(d)
    BY <1>8
  <2>2. \A i \in 1..(Len(d) - 1) : c[i + 1] = d[i + 1] /\ d[i + 1] \in ToSet(d) /\ d[i + 1] # t
    BY <1>7, <1>8, <1>9, <2>1, SetOf
  <2>3. \A i \in 1..(Len(d) - 1) : st2[c[i + 1]] = st[d[i + 1]]
    BY <1>8, <2>2
  <2> QED
    BY <1>9, <2>3 DEF TagsAlong
<1>12. SectionAt(st2, c).is = ContentOf(st, h)
  BY <1>3, <1>11 DEF SectionAt, d
<1>13. \A g \in H \ {h} : ToSet(c) \cap ToSet(C[g]) = {}
  BY <1>5, <1>9 DEF d
<1>14. h # t /\ h \notin ToSet(c)
  BY <1>7, <1>8, <1>9
<1>15. Rivals(st2, h, t)
  <2>1. st2[h] = st[h]
    BY <1>8, <1>14
  <2> QED
    BY <1>4, <1>14, <2>1 DEF Rivals
<1>16. Swap(st, H, C, h, NameOf(st[h]), to, t, c, st2)
  BY <1>2, <1>4, <1>9, <1>10, <1>13, <1>14, <1>15 DEF Swap
<1> QED
  BY <1>9, <1>12, <1>16 DEF d

(* The head y is written to block t, outside of the sections, and then the  *)
(* block h is given back.                                                   *)
HeadFirst(H, C, h, t, y, us) ==
  /\ t \in Block /\ y \in Writes /\ \A g \in H : t \notin ToSet(C[g])
  /\ \E B : /\ us # <<>> /\ Head(us) = y
            /\ OnlyFrees(Tail(us), B) /\ StartsAt(Tail(us), h)
            /\ t \notin B /\ \A g \in H : B \cap ToSet(C[g]) \subseteq {h}
WithBlock(st, t, x, st2) ==
  IsStorage(st2) /\ st2[t] = x /\ \A b \in Block : b # t => st2[b] = st[b]

LEMMA RenameFrees ==
  ASSUME StorageAssumption, NEW st, NEW l, NEW ws, NEW H, NEW C, IsLayout(st, l, ws, H, C),
         NEW h \in H, NEW to \in Names, l.n > 0,
         NEW taken, taken = TakeBlocks(st, l, 1), NEW t, t = taken.blocks[1],
         NEW head, head = RenameHead(st, h, to), NEW y, y = <<t, head>>,
         NEW work, work = AddBlocks(Store(Begin(st, taken.list), t, head), <<h>>)
  PROVE  HeadFirst(H, C, h, t, y, work.writes) /\ WithBlock(st, t, head, Stored(st, y))
<1> DEFINE rest == SubSeq(C[0], 2, Len(C[0]))
           prev == Store(Begin(st, taken.list), t, head)
           e == <<h>>
           B == ToSet(rest) \cup ToSet(e)
<1>1. /\ t \in Block /\ t \in ToSet(C[0])
      /\ t \notin Labels(H, ws)
      /\ \A a \in Labels(H, ws) : a # 0 => t \notin ToSet(C[a])
      /\ rest \in Seq(Block) /\ IsDistinct(rest) /\ t \notin ToSet(rest)
      /\ ToSet(C[0]) = ToSet(rest) \cup {t}
      /\ IsFreeList(st, taken.list, rest)
  <2>1. StorageAssumption /\ IsLayout(st, l, ws, H, C) /\ l.n > 0 /\ taken = TakeBlocks(st, l, 1)
    OBVIOUS
  <2>2. t = taken.blocks[1]
    OBVIOUS
  <2>3. LET u == taken.blocks[1]
            r == SubSeq(C[0], 2, Len(C[0]))
        IN  /\ u \in Block /\ u \in ToSet(C[0])
            /\ u \notin Labels(H, ws)
            /\ \A a \in Labels(H, ws) : a # 0 => u \notin ToSet(C[a])
            /\ r \in Seq(Block) /\ IsDistinct(r) /\ u \notin ToSet(r)
            /\ ToSet(C[0]) = ToSet(r) \cup {u}
            /\ IsFreeList(st, taken.list, r)
    BY ONLY <2>1, TakeOne
  <2> QED
    BY <2>2, <2>3
<1>2. IsStorage(st) /\ head \in Content
  <2>1. RenameHead(st, h, to) \in Content
    BY RenameHeadFields
  <2>2. IsStorage(st)
    BY DEF IsLayout
  <2> QED
    BY <2>1, <2>2
<1>3. h \in Block /\ h \notin ToSet(C[0]) /\ t \notin H /\ h # t
      /\ \A g \in H : g # 0 /\ g \in Labels(H, ws) /\ ToSet(C[g]) \cap ToSet(C[0]) = {}
  <2>1. \A g \in H : g \in Block /\ g \in Labels(H, ws) /\ g # 0
    BY LabelBlocks DEF Labels
  <2>2. h \notin ToSet(C[0])
    BY <2>1, LabelBlocks
  <2>3. t \notin H
    BY <1>1 DEF Labels
  <2>4. \A g \in H : ToSet(C[g]) \cap ToSet(C[0]) = {}
    BY LayoutApart
  <2> QED
    BY <2>1, <2>2, <2>3, <2>4
<1>4. work = AddBlocks(prev, e) /\ prev = Store(Begin(st, taken.list), t, head)
  OBVIOUS
<1>5. e \in Seq(Block) /\ IsDistinct(e) /\ ToSet(e) = {h} /\ e # <<>> /\ e[1] = h
  BY <1>3, OneBlock
<1> HIDE DEF rest, prev, e
<1>6. /\ IsWork(st, prev) /\ prev.list = taken.list /\ IsStorage(prev.st)
      /\ prev.st[t] = head /\ \A b \in Block : b # t => prev.st[b] = st[b]
      /\ prev.writes = <<<<t, head>>>>
  BY <1>1, <1>2, <1>4, FirstWrite
<1>7. IsFreeList(prev.st, prev.list, rest)
  <2>1. \A b \in ToSet(rest) : prev.st[b] = st[b]
    <3>1. \A b \in ToSet(rest) : b \in Block
      BY <1>1, SetOf
    <3> QED
      BY <3>1, <1>1, <1>6
  <2>2. IsFreeList(st, prev.list, rest)
    BY <1>1, <1>6
  <2> QED
    BY <2>1, <2>2, FreeListStays
<1>8. IsDistinct(rest \o e)
  <2>1. ToSet(rest) \cap ToSet(e) = {}
    BY <1>1, <1>3, <1>5
  <2> QED
    BY <1>1, <1>5, <2>1, JoinedApart
<1>9. Frees(prev, work, B, h)
  <2>1. Frees(prev, AddBlocks(prev, e), ToSet(rest) \cup ToSet(e), e[1])
    BY <1>2, <1>5, <1>6, <1>7, <1>8, AddBlocksFrees
  <2> QED
    BY <2>1, <1>4, <1>5
<1>10. y \in Writes
  BY <1>1, <1>2 DEF Writes
<1>11. \E us : /\ work.writes # <<>> /\ Head(work.writes) = y /\ Tail(work.writes) = us
               /\ OnlyFrees(us, B) /\ StartsAt(us, h)
  <2>1. prev.writes = <<y>>
    BY <1>6
  <2> HIDE DEF B
  <2> QED
    BY <1>9, <1>10, <2>1, FreesAfterOne
<1>12. t \notin B /\ \A g \in H : B \cap ToSet(C[g]) \subseteq {h}
  BY <1>1, <1>3, <1>5
<1>13. WithBlock(st, t, head, Stored(st, y))
  <2> DEFINE x == Stored(st, y)
  <2>1. IsStorage(x)
    BY <1>2, <1>10, StoredIsStorage
  <2>2. t \in 0..(NBlocks - 1)
    BY <1>1 DEF Block
  <2>3. IsStored(x, st, t, head)
    BY DEF IsStored, Stored
  <2> HIDE DEF x
  <2>4. x[t] = head /\ \A b \in Block : b # t => x[b] = st[b]
    BY <1>2, <2>2, <2>3, StoredFields
  <2> QED
    BY <2>1, <2>4 DEF x, WithBlock
<1> HIDE DEF B
<1>14. \A g \in H : t \notin ToSet(C[g])
  BY <1>1, <1>3
<1> DEFINE vs == work.writes
<1>15. \E us : vs # <<>> /\ Head(vs) = y /\ Tail(vs) = us /\ OnlyFrees(us, B) /\ StartsAt(us, h)
  BY <1>11
<1> HIDE DEF vs
<1>16. HeadFirst(H, C, h, t, y, vs)
  <2>1. /\ vs # <<>> /\ Head(vs) = y /\ OnlyFrees(Tail(vs), B) /\ StartsAt(Tail(vs), h)
        /\ t \notin B /\ \A g \in H : B \cap ToSet(C[g]) \subseteq {h}
    BY <1>12, <1>15
  <2> QED
    BY <1>1, <1>10, <1>14, <2>1, Zenon DEF HeadFirst
<1> QED
  BY <1>13, <1>16 DEF vs

IsRenamed(st, H, C, h, to, t, c, st2) ==
  /\ Swap(st, H, C, h, NameOf(st[h]), to, t, c, st2)
  /\ SectionAt(st2, c).is = ContentOf(st, h)
  /\ ToSet(c) = (ToSet(C[h]) \ {h}) \cup {t}
NotNamed(st, H, n) == \A g \in H : NameOf(st[g]) # n
Outside(H, C, t) == t \in Block /\ \A g \in H : t \notin ToSet(C[g])

LEMMA RenamedIs ==
  ASSUME StorageAssumption, NEW st, NEW l, NEW ws, NEW H, NEW C, IsLayout(st, l, ws, H, C),
         NEW h \in H, NEW to \in Names, NotNamed(st, H, to), NEW t, Outside(H, C, t),
         NEW x, x = RenameHead(st, h, to), NEW st2, WithBlock(st, t, x, st2),
         NEW c, c = NewHead(C[h], t)
  PROVE  IsRenamed(st, H, C, h, to, t, c, st2)
<1>1. t \in Block /\ \A g \in H : t \notin ToSet(C[g])
  BY DEF Outside
<1>2. IsStorage(st2) /\ st2[t] = RenameHead(st, h, to) /\ \A b \in Block : b # t => st2[b] = st[b]
  BY DEF WithBlock
<1>3. \A g \in H : NameOf(st[g]) # to
  BY DEF NotNamed
<1>4. /\ Swap(st, H, C, h, NameOf(st[h]), to, t, c, st2)
      /\ SectionAt(st2, c).is = ContentOf(st, h)
      /\ ToSet(c) = (ToSet(C[h]) \ {h}) \cup {t}
  BY <1>1, <1>2, <1>3, RenameSwaps
<1> QED
  BY <1>4 DEF IsRenamed

LEMMA RenameSoon ==
  ASSUME StorageAssumption, NEW st, NEW l, NEW ws, NEW H, NEW C, IsLayout(st, l, ws, H, C),
         NEW h \in H, NEW to \in Names, \A g \in H : NameOf(st[g]) # to,
         NEW from, from = NameOf(st[h]), NEW t, NEW head, head = RenameHead(st, h, to),
         NEW y, y[1] = t, NEW us,
         HeadFirst(H, C, h, t, y, us), WithBlock(st, t, head, Stored(st, y)),
         NEW ch, DOMAIN ch = {from, to}, ch[to] = ContentOf(st, h), ch[from] = <<>>
  PROVE  Changes(st, us, ch)
<1> DEFINE st2 == Stored(st, y)
           c == NewHead(C[h], t)
           S == Image(st, H, C)
           T == Replaced(S, from, to, SectionAt(st2, c))
<1>0. HeadFirst(H, C, h, t, y, us) /\ WithBlock(st, t, head, st2)
  OBVIOUS
<1>1. /\ t \in Block /\ y \in Writes /\ \A g \in H : t \notin ToSet(C[g])
      /\ IsStorage(st2) /\ st2[t] = head /\ \A b \in Block : b # t => st2[b] = st[b]
  BY <1>0 DEF HeadFirst, WithBlock
<1>2. PICK B : /\ us # <<>> /\ Head(us) = y
               /\ OnlyFrees(Tail(us), B) /\ StartsAt(Tail(us), h)
               /\ t \notin B /\ \A g \in H : B \cap ToSet(C[g]) \subseteq {h}
  BY <1>0 DEF HeadFirst
<1>3. Alive(st, H, C)
  BY LayoutAlive
<1>4. y[1] = t
  OBVIOUS
<1>5. st2[t] = RenameHead(st, h, to)
  BY <1>1
<1>6. /\ Swap(st, H, C, h, from, to, t, c, st2)
      /\ SectionAt(st2, c).is = ContentOf(st, h)
      /\ ToSet(c) = (ToSet(C[h]) \ {h}) \cup {t}
  <2>1. c = NewHead(C[h], t)
    OBVIOUS
  <2> HIDE DEF st2, c
  <2>2. /\ Swap(st, H, C, h, NameOf(st[h]), to, t, c, st2)
        /\ SectionAt(st2, c).is = ContentOf(st, h)
        /\ ToSet(c) = (ToSet(C[h]) \ {h}) \cup {t}
    <3>1. Outside(H, C, t) /\ NotNamed(st, H, to)
      BY <1>1 DEF Outside, NotNamed
    <3>2. IsRenamed(st, H, C, h, to, t, c, st2)
      BY <1>0, <2>1, <3>1, RenamedIs
    <3> QED
      BY <3>2 DEF IsRenamed
  <2> QED
    BY <2>2
<1>7. B \cap ToSet(c) = {}
  BY <1>2, <1>6
<1>8. \A g \in H \ {h} : B \cap ToSet(C[g]) = {}
  <2>1. Intact(st, H, C)
    BY <1>3 DEF Alive
  <2>2. \A g \in H \ {h} : ToSet(C[g]) \cap ToSet(C[h]) = {} /\ h \in ToSet(C[h])
    <3>1. IsSection(st, C[h]) /\ C[h][1] = h
      BY LayoutApart
    <3>2. h \in ToSet(C[h])
      BY <3>1, SectionBlocks
    <3> QED
      BY <2>1, <3>2 DEF Intact
  <2> QED
    BY <1>2, <2>2
<1>9. Soon1(st, us, S, T) \/ Soon2(st, us, S, T)
  <2> HIDE DEF c
  <2> QED
    BY <1>1, <1>2, <1>3, <1>4, <1>6, <1>7, <1>8, SwapSoon
<1>10. Quiet(st, <<>>, S)
  BY <1>3, AloneQuiet
<1> HIDE DEF S, st2, c
<1>11. Becomes(S, T, ch)
  <2> DEFINE a == SectionAt(st2, c)
  <2>1. ch[to] = a.is
    BY <1>6
  <2> HIDE DEF a
  <2> QED
    BY <2>1, ReplacedBecomes DEF a
<1> HIDE DEF T
<1>12. Atomic(st, us, S, T)
  BY <1>9 DEF Atomic
<1> QED
  BY <1>10, <1>11, <1>12 DEF Changes

(* What Rename() writes *)
RenamingWork(st, l, h, to) ==
  LET taken == TakeBlocks(st, l, 1)
      head == RenameHead(st, h, to)
  IN  AddBlocks(Store(Begin(st, taken.list), taken.blocks[1], head), <<h>>)
IsUnused(st, H, to) == \A g \in H : NameOf(st[g]) # to

LEMMA RenameChanges ==
  ASSUME StorageAssumption, NEW st, NEW l, NEW ws, NEW H, NEW C, IsLayout(st, l, ws, H, C),
         NEW h \in H, NEW to \in Names, IsUnused(st, H, to), l.n > 0,
         NEW from, from = NameOf(st[h]), NEW work, work = RenamingWork(st, l, h, to),
         NEW ch, DOMAIN ch = {from, to}, ch[to] = ContentOf(st, h), ch[from] = <<>>
  PROVE  Changes(st, work.writes, ch)
<1> DEFINE taken == TakeBlocks(st, l, 1)
           t == taken.blocks[1]
           head == RenameHead(st, h, to)
           y == <<t, head>>
<1>0. /\ taken = TakeBlocks(st, l, 1) /\ t = taken.blocks[1] /\ head = RenameHead(st, h, to)
      /\ work = AddBlocks(Store(Begin(st, taken.list), t, head), <<h>>)
      /\ \A g \in H : NameOf(st[g]) # to
  BY DEF RenamingWork, IsUnused
<1>1. y = <<t, head>> /\ y[1] = t
  OBVIOUS
<1> HIDE DEF y, head, t, taken
<1>2. HeadFirst(H, C, h, t, y, work.writes) /\ WithBlock(st, t, head, Stored(st, y))
  BY <1>0, <1>1, RenameFrees
<1> DEFINE us == work.writes
<1> HIDE DEF us
<1>3. HeadFirst(H, C, h, t, y, us)
  BY <1>2 DEF us
<1>4. Changes(st, us, ch)
  BY <1>0, <1>1, <1>2, <1>3, RenameSoon
<1> QED
  BY <1>4 DEF us

(* y and z are written, and then us. *)
TwoOf(y, z) == <<y>> \o <<z>>
Then(y, z, us) == TwoOf(y, z) \o us

LEMMA FreesAfterTwo ==
  ASSUME NEW work, NEW y \in Writes, NEW z \in Writes, work.writes = TwoOf(y, z),
         NEW r, NEW B, NEW a, Frees(work, r, B, a)
  PROVE  \E us : /\ r.writes = Then(y, z, us) /\ OnlyFrees(us, B) /\ StartsAt(us, a)
<1>1. \E us : r.writes = work.writes \o us /\ OnlyFrees(us, B) /\ StartsAt(us, a)
  BY DEF Frees
<1> QED
  BY <1>1 DEF Then

Ahead(vs, y, z, us) ==
  vs # <<>> /\ Head(vs) = y /\ Tail(vs) # <<>> /\ Head(Tail(vs)) = z /\ Tail(Tail(vs)) = us

LEMMA TwoAhead ==
  ASSUME NEW y \in Writes, NEW z \in Writes, NEW us \in Seq(Writes), NEW vs, vs = Then(y, z, us)
  PROVE  Ahead(vs, y, z, us)
<1>1. vs = <<y>> \o (<<z>> \o us)
  <2>1. <<y>> \in Seq(Writes) /\ <<z>> \in Seq(Writes)
    OBVIOUS
  <2>2. vs = (<<y>> \o <<z>>) \o us
    BY DEF Then, TwoOf
  <2> DEFINE a == <<y>>
             b == <<z>>
  <2>3. a \in Seq(Writes) /\ b \in Seq(Writes) /\ vs = (a \o b) \o us
    BY <2>1, <2>2
  <2> HIDE DEF a, b
  <2>4. vs = a \o (b \o us)
    BY <2>3, WritesConcat
  <2> QED
    BY <2>4 DEF a, b
<1>2. <<z>> \o us \in Seq(Writes)
  OBVIOUS
<1>3. Head(vs) = y /\ vs # <<>> /\ Tail(vs) = <<z>> \o us
  BY <1>1, <1>2
<1>4. <<z>> \o us # <<>> /\ Head(<<z>> \o us) = z /\ Tail(<<z>> \o us) = us
  OBVIOUS
<1> QED
  BY <1>3, <1>4 DEF Ahead

(* What a writer writes at the end. *)
LEMMA WrittenTags ==
  ASSUME NEW st, NEW w, NEW c, IsWritten(st, w, c), IsDistinct(c), NEW n,
         NEW st2, st2[w.next] = DataBlock(w.seqNb, w.tag, NoBlock),
         \A b \in Block : b # w.next /\ b # w.head => st2[b] = st[b]
  PROVE  TagsAlong(st2, c) = [i \in 1..w.seqNb |-> w.tag]
<1>1. c \in Seq(Block) /\ Len(c) \in Nat /\ Len(c) >= 2 /\ w.seqNb = Len(c) - 1
      /\ w.head = c[1] /\ w.next = c[Len(c)]
  BY WrittenBlocks DEF IsWritten
<1>2. \A i, j \in 1..Len(c) : i # j => c[i] # c[j]
  BY DEF IsDistinct
<1>3. ASSUME NEW i \in 1..(Len(c) - 1)
      PROVE  TagOf(st2[c[i + 1]]) = w.tag
  <2>1. CASE i + 1 = Len(c)
    <3>1. st2[c[i + 1]] = DataBlock(w.seqNb, w.tag, NoBlock)
      BY <1>1, <2>1
    <3> QED
      BY <3>1, DataFields
  <2>2. CASE i + 1 # Len(c)
    <3>1. i + 1 \in 2..(Len(c) - 1) /\ i + 1 \in 1..Len(c) /\ i + 1 # 1
      BY <1>1, <2>2
    <3>2. 1 \in 1..Len(c) /\ Len(c) \in 1..Len(c)
      BY <1>1
    <3>3. c[i + 1] \in Block /\ c[i + 1] # w.next /\ c[i + 1] # w.head
      BY <1>1, <1>2, <2>2, <3>1, <3>2
    <3>4. TagOf(st[c[i + 1]]) = w.tag
      BY <3>1 DEF IsWritten
    <3> QED
      BY <3>3, <3>4
  <2> QED
    BY <2>1, <2>2
<1> QED
  BY <1>1, <1>3 DEF TagsAlong

LEMMA BlockWith ==
  ASSUME StorageAssumption, NEW st, IsStorage(st), NEW b \in Block, NEW x \in Content, NEW y, y = <<b, x>>
  PROVE  y \in Writes /\ WithBlock(st, b, x, Stored(st, y))
<1>1. y \in Writes
  BY DEF Writes
<1>2. b \in 0..(NBlocks - 1)
  BY DEF Block
<1> DEFINE st2 == Stored(st, y)
<1>3. IsStored(st2, st, b, x)
  BY DEF IsStored, Stored
<1>4. IsStorage(st2)
  BY <1>1, StoredIsStorage
<1> HIDE DEF st2
<1>5. st2[b] = x /\ \A c \in Block : c # b => st2[c] = st[c]
  BY <1>2, <1>3, StoredFields
<1> QED
  BY <1>1, <1>4, <1>5 DEF WithBlock, st2

BothWritten(st, l, a, x, b, h, work) ==
  /\ work.writes = <<<<a, x>>>> \o <<<<b, h>>>> /\ IsWork(st, work) /\ work.list = l
  /\ IsStorage(work.st) /\ work.st[a] = x /\ work.st[b] = h
  /\ \A c \in Block : c # a /\ c # b => work.st[c] = st[c]

LEMMA TwoWrites ==
  ASSUME StorageAssumption, NEW st, IsStorage(st), NEW l,
         NEW a \in Block, NEW x \in Content, NEW b \in Block, NEW h \in Content, a # b,
         NEW data, data = Store(Begin(st, l), a, x), NEW headed, headed = Store(data, b, h)
  PROVE  BothWritten(st, l, a, x, b, h, headed)
<1>1. /\ IsWork(st, data) /\ data.list = l /\ IsStorage(data.st)
      /\ data.st[a] = x /\ \A c \in Block : c # a => data.st[c] = st[c]
      /\ data.writes = <<<<a, x>>>>
  BY FirstWrite
<1>2. /\ IsWork(st, headed) /\ headed.writes = data.writes \o <<<<b, h>>>>
      /\ headed.st[b] = h /\ \A c \in Block : c # b => headed.st[c] = data.st[c]
      /\ headed.list = data.list
  <2>1. IsWork(st, data)
    BY <1>1
  <2> QED
    BY <2>1, StoreWork, SMTT(20)
<1>3. IsStorage(headed.st)
  BY <1>2, WorkStorage
<1>4. headed.writes = <<<<a, x>>>> \o <<<<b, h>>>>
  BY <1>1, <1>2
<1> QED
  BY <1>1, <1>2, <1>3, <1>4 DEF BothWritten

(* The last data block and the head of a writer have been written. *)
HeadClosed(st, w, H, C, y, z, st1, st2, headed) ==
  /\ y \in Writes /\ z \in Writes /\ headed.writes = TwoOf(y, z) /\ IsWork(st, headed)
  /\ WithBlock(st, w.next, y[2], st1) /\ WithBlock(st1, w.head, z[2], st2)
  /\ IsFreeList(headed.st, headed.list, C[0])
  /\ \A h \in H : IsSection(headed.st, C[h])
  /\ w.next # w.head

LEMMA CloseWrites ==
  ASSUME StorageAssumption, NEW st, NEW l, NEW ws, NEW H, NEW C, IsLayout(st, l, ws, H, C),
         NEW n \in DOMAIN ws, NEW w, w = ws[n],
         NEW data, data = Store(Begin(st, l), w.next, DataBlock(w.seqNb, w.tag, NoBlock)),
         NEW headed, headed = Store(data, w.head, HeadBlock(n, w.version, w.first)),
         NEW y, y = <<w.next, DataBlock(w.seqNb, w.tag, NoBlock)>>,
         NEW z, z = <<w.head, HeadBlock(n, w.version, w.first)>>,
         NEW st1, st1 = Stored(st, y), NEW st2, st2 = Stored(st1, z)
  PROVE  HeadClosed(st, w, H, C, y, z, st1, st2, headed)
<1> DEFINE x == DataBlock(w.seqNb, w.tag, NoBlock)
           h == HeadBlock(n, w.version, w.first)
           a == w.next
           b == w.head
           d == C[b]
<1>1. a \in Block /\ b \in Block /\ x \in Content /\ h \in Content
  <2>1. NoBlock \in Link
    BY DEF Link
  <2> QED
    BY <2>1, WriterBlock
<1>2. /\ IsStorage(st) /\ IsFreeList(st, l, C[0]) /\ \A g \in H : IsSection(st, C[g])
      /\ IsWritten(st, w, d) /\ IsDistinct(d)
      /\ ToSet(C[0]) \cap ToSet(d) = {} /\ \A g \in H : ToSet(C[g]) \cap ToSet(d) = {}
  BY LayoutApart
<1>3. data = Store(Begin(st, l), a, x) /\ headed = Store(data, b, h) /\ y = <<a, x>> /\ z = <<b, h>>
  OBVIOUS
<1> HIDE DEF x, h, d
<1>4. a \in ToSet(d) /\ b \in ToSet(d) /\ a # b
  BY <1>2, WrittenBlocks, WrittenEnds
<1> HIDE DEF a, b
<1>5. /\ headed.writes = <<<<a, x>>>> \o <<<<b, h>>>> /\ IsWork(st, headed) /\ headed.list = l
      /\ IsStorage(headed.st) /\ headed.st[a] = x /\ headed.st[b] = h
      /\ \A c \in Block : c # a /\ c # b => headed.st[c] = st[c]
  <2>1. BothWritten(st, l, a, x, b, h, headed)
    BY <1>1, <1>2, <1>3, <1>4, TwoWrites
  <2> QED
    BY <2>1 DEF BothWritten
<1>6. y \in Writes /\ WithBlock(st, a, x, st1)
  BY <1>1, <1>2, <1>3, BlockWith
<1>7. IsStorage(st1)
  BY <1>6 DEF WithBlock
<1>8. z \in Writes /\ WithBlock(st1, b, h, st2)
  BY <1>1, <1>3, <1>7, BlockWith
<1>9. \A c \in Block : c \notin ToSet(d) => headed.st[c] = st[c]
  BY <1>4, <1>5
<1>10. IsFreeList(headed.st, headed.list, C[0])
  <2>1. \A c \in ToSet(C[0]) : c \in Block /\ c \notin ToSet(d)
    BY <1>2, FreeListBlocks
  <2>2. \A c \in ToSet(C[0]) : headed.st[c] = st[c]
    BY <1>9, <2>1
  <2> QED
    BY <1>2, <1>5, <2>2, FreeListStays
<1>11. ASSUME NEW g \in H PROVE IsSection(headed.st, C[g])
  <2>1. \A c \in ToSet(C[g]) : c \in Block /\ c \notin ToSet(d)
    BY <1>2, SectionBlocks
  <2>2. \A c \in ToSet(C[g]) : headed.st[c] = st[c]
    BY <1>9, <2>1
  <2> QED
    BY <1>2, <2>2, SectionStays
<1>12. headed.writes = TwoOf(y, z)
  BY <1>3, <1>5 DEF TwoOf
<1>13. y[2] = x /\ z[2] = h
  BY <1>3
<1> QED
  BY <1>4, <1>5, <1>6, <1>8, <1>10, <1>11, <1>12, <1>13 DEF a, b, HeadClosed

(* A writer writes its last data block, its head, and what us frees. *)
Closes(st, n, w, H, C, y, z, st1, st2, vs, us) ==
  /\ y = <<w.next, DataBlock(w.seqNb, w.tag, NoBlock)>> /\ y \in Writes
  /\ z = <<w.head, HeadBlock(n, w.version, w.first)>> /\ z \in Writes
  /\ w.next # w.head
  /\ st1 = Stored(st, y) /\ WithBlock(st, w.next, y[2], st1)
  /\ st2 = Stored(st1, z) /\ WithBlock(st1, w.head, z[2], st2)
  /\ Ahead(vs, y, z, us)
  /\ IF w.old = NoBlock THEN us = <<>>
     ELSE OnlyFrees(us, ToSet(C[0]) \cup ToSet(C[w.old])) /\ StartsAt(us, w.old)

LEMMA OldFrees ==
  ASSUME StorageAssumption, NEW st, NEW l, NEW ws, NEW H, NEW C, IsLayout(st, l, ws, H, C),
         NEW headed, IsWork(st, headed), IsFreeList(headed.st, headed.list, C[0]),
         \A h \in H : IsSection(headed.st, C[h]),
         NEW o \in H, NEW work, work = AddChain(headed, o, NoBlock)
  PROVE  Frees(headed, work, ToSet(C[0]) \cup ToSet(C[o]), o)
<1> DEFINE c == C[o]
           F == C[0]
<1>1. /\ IsStorage(st) /\ IsDistinct(c) /\ ToSet(F) \cap ToSet(c) = {} /\ c[1] = o
      /\ IsSection(headed.st, c) /\ IsFreeList(headed.st, headed.list, F)
  BY LayoutApart
<1> HIDE DEF c, F
<1>2. Frees(headed, work, ToSet(F) \cup ToSet(c), o)
  BY <1>1, SectionFrees
<1> QED
  BY <1>2 DEF c, F

LEMMA ClosesIs ==
  ASSUME StorageAssumption, NEW st, NEW l, NEW ws, NEW H, NEW C, IsLayout(st, l, ws, H, C),
         NEW n \in DOMAIN ws, NEW w, w = ws[n],
         NEW data, data = Store(Begin(st, l), w.next, DataBlock(w.seqNb, w.tag, NoBlock)),
         NEW headed, headed = Store(data, w.head, HeadBlock(n, w.version, w.first)),
         NEW work, work = IF w.old = NoBlock THEN headed ELSE AddChain(headed, w.old, NoBlock)
  PROVE  \E y, z, st1, st2, us : Closes(st, n, w, H, C, y, z, st1, st2, work.writes, us)
<1> DEFINE y == <<w.next, DataBlock(w.seqNb, w.tag, NoBlock)>>
           z == <<w.head, HeadBlock(n, w.version, w.first)>>
           st1 == Stored(st, y)
           st2 == Stored(st1, z)
           vs == work.writes
           B == ToSet(C[0]) \cup ToSet(C[w.old])
<1>1. /\ y = <<w.next, DataBlock(w.seqNb, w.tag, NoBlock)>>
      /\ z = <<w.head, HeadBlock(n, w.version, w.first)>>
      /\ st1 = Stored(st, y) /\ st2 = Stored(st1, z)
  OBVIOUS
<1> HIDE DEF y, z, st1, st2
<1>2. /\ y \in Writes /\ z \in Writes /\ headed.writes = TwoOf(y, z) /\ IsWork(st, headed)
      /\ WithBlock(st, w.next, y[2], st1) /\ WithBlock(st1, w.head, z[2], st2)
      /\ IsFreeList(headed.st, headed.list, C[0])
      /\ \A h \in H : IsSection(headed.st, C[h])
      /\ w.next # w.head
  <2>1. HeadClosed(st, w, H, C, y, z, st1, st2, headed)
    BY <1>1, CloseWrites
  <2> QED
    BY <2>1 DEF HeadClosed
<1>3. \E us : /\ us \in Seq(Writes) /\ vs = Then(y, z, us)
              /\ IF w.old = NoBlock THEN us = <<>> ELSE OnlyFrees(us, B) /\ StartsAt(us, w.old)
  <2>1. CASE w.old = NoBlock
    <3>1. vs = TwoOf(y, z)
      BY <1>2, <2>1
    <3>2. TwoOf(y, z) \in Seq(Writes)
      BY <1>2 DEF TwoOf
    <3>3. Then(y, z, <<>>) = TwoOf(y, z)
      BY <3>2 DEF Then
    <3>4. <<>> \in Seq(Writes) /\ vs = Then(y, z, <<>>)
      BY <3>1, <3>3
    <3> QED
      BY <2>1, <3>4
  <2>2. CASE w.old # NoBlock
    <3>1. w.old \in H
      BY <2>2, WriterLabels DEF IsReplaced
    <3>2. work = AddChain(headed, w.old, NoBlock)
      BY <2>2
    <3>3. Frees(headed, work, B, w.old)
      BY <1>2, <3>1, <3>2, OldFrees
    <3> HIDE DEF B, vs
    <3>4. \E us : vs = Then(y, z, us) /\ OnlyFrees(us, B) /\ StartsAt(us, w.old)
      BY <1>2, <3>3, FreesAfterTwo DEF vs
    <3> QED
      BY <2>2, <3>4 DEF OnlyFrees
  <2> QED
    BY <2>1, <2>2
<1> HIDE DEF vs, B
<1>4. PICK us : /\ us \in Seq(Writes) /\ vs = Then(y, z, us)
                /\ IF w.old = NoBlock THEN us = <<>> ELSE OnlyFrees(us, B) /\ StartsAt(us, w.old)
  BY <1>3
<1>5. Ahead(vs, y, z, us)
  BY <1>2, <1>4, TwoAhead
<1>6. Closes(st, n, w, H, C, y, z, st1, st2, vs, us)
  <2>1. /\ y \in Writes /\ z \in Writes /\ w.next # w.head
        /\ WithBlock(st, w.next, y[2], st1) /\ WithBlock(st1, w.head, z[2], st2)
    BY <1>2
  <2>2. IF w.old = NoBlock THEN us = <<>>
        ELSE OnlyFrees(us, ToSet(C[0]) \cup ToSet(C[w.old])) /\ StartsAt(us, w.old)
    BY <1>4 DEF B
  <2> QED
    BY <1>1, <1>5, <2>1, <2>2 DEF Closes
<1> QED
  BY <1>6 DEF vs

(* Up to the head of a writer nothing changes. *)
LEMMA CloseFirst ==
  ASSUME StorageAssumption, NEW st, NEW l, NEW ws, NEW H, NEW C, IsLayout(st, l, ws, H, C),
         NEW n \in DOMAIN ws, NEW w, w = ws[n], NEW y, NEW z, NEW st1, NEW st2, NEW vs, NEW us,
         Closes(st, n, w, H, C, y, z, st1, st2, vs, us),
         NEW S, S = Image(st, H, C), NEW T
  PROVE  /\ Alive(st1, H, C) /\ Image(st1, H, C) = S /\ HeadsIn(st1) = H
         /\ Before(st, vs, S, T)
<1>1. /\ y = <<w.next, DataBlock(w.seqNb, w.tag, NoBlock)>> /\ y \in Writes
      /\ st1 = Stored(st, y) /\ WithBlock(st, w.next, y[2], st1)
      /\ vs # <<>> /\ Head(vs) = y
  BY DEF Closes, Ahead
<1>2. Alive(st, H, C) /\ HeadsIn(st) = H
  BY LayoutAlive
<1>3. IsWritten(st, w, C[w.head]) /\ \A h \in H : ToSet(C[h]) \cap ToSet(C[w.head]) = {}
  BY LayoutApart
<1>4. w.next \in Block /\ w.next \in ToSet(C[w.head]) /\ ~ IsReadable(st[w.next], "head")
  <2> DEFINE c == C[w.head]
  <2>1. IsWritten(st, w, c)
    BY <1>3
  <2> HIDE DEF c
  <2>2. w.next \in ToSet(c) /\ \A b \in ToSet(c) : b \in Block /\ st[b].type \in {"free", "data"}
    BY <2>1, WrittenBlocks
  <2> QED
    BY <2>2 DEF c, IsReadable
<1>5. y[1] = w.next /\ y[2].type = "data"
  BY <1>1 DEF DataBlock
<1>6. \A h \in H : y[1] \notin ToSet(C[h])
  BY <1>3, <1>4, <1>5
<1>7. Alive(st1, H, C) /\ Image(st1, H, C) = S
  <2>1. y[2].type # "head"
    BY <1>5
  <2> QED
    BY <1>1, <1>2, <1>6, <2>1, AliveStored
<1>8. HeadsIn(st1) = H
  <2>1. ~ IsReadable(st1[w.next], "head") /\ \A b \in Block : b # w.next => st1[b] = st[b]
    BY <1>1, <1>5 DEF WithBlock, IsReadable
  <2> QED
    BY <1>2, <1>4, <2>1 DEF HeadsIn
<1>9. Before(st, vs, S, T)
  BY <1>1, <1>2, <1>6, HeadBefore
<1> QED
  BY <1>7, <1>8, <1>9

(* With its head the section is complete. *)
NewSection(st1, st2, n, w, c) ==
  /\ IsSection(st2, c) /\ IsDistinct(c) /\ c[1] = w.head /\ NameOf(st2[w.head]) = n
  /\ SectionAt(st2, c).is = [i \in 1..w.seqNb |-> w.tag]
  /\ IsStorage(st2) /\ w.head \in Block /\ \A b \in Block : b # w.head => st2[b] = st1[b]

LEMMA CloseSecond ==
  ASSUME StorageAssumption, NEW st, NEW l, NEW ws, NEW H, NEW C, IsLayout(st, l, ws, H, C),
         NEW n \in DOMAIN ws, NEW w, w = ws[n], NEW y, NEW z, NEW st1, NEW st2, NEW vs, NEW us,
         Closes(st, n, w, H, C, y, z, st1, st2, vs, us)
  PROVE  NewSection(st1, st2, n, w, C[w.head])
<1> DEFINE c == C[w.head]
           x == DataBlock(w.seqNb, w.tag, NoBlock)
           h == HeadBlock(n, w.version, w.first)
<1>1. /\ y = <<w.next, x>> /\ z = <<w.head, h>> /\ w.next # w.head
      /\ WithBlock(st, w.next, y[2], st1) /\ WithBlock(st1, w.head, z[2], st2)
  BY DEF Closes
<1>2. IsWritten(st, w, c) /\ IsDistinct(c)
  BY LayoutApart
<1>3. y[2] = x /\ z[2] = h
  BY <1>1
<1> HIDE DEF c
<1>4. w.head \in Block /\ w.next \in Block
  BY <1>2, WrittenBlocks
<1>5. /\ st1[w.next] = x /\ \A b \in Block : b # w.next => st1[b] = st[b]
      /\ IsStorage(st2) /\ st2[w.head] = h /\ \A b \in Block : b # w.head => st2[b] = st1[b]
  BY <1>1, <1>3 DEF WithBlock
<1>6. st2[w.next] = x /\ \A b \in Block : b # w.next /\ b # w.head => st2[b] = st[b]
  BY <1>1, <1>4, <1>5
<1>7. IsSection(st2, c) /\ c[1] = w.head
  BY <1>2, <1>5, <1>6, WrittenCloses
<1>8. TagsAlong(st2, c) = [i \in 1..w.seqNb |-> w.tag]
  BY <1>2, <1>6, WrittenTags
<1>9. NameOf(st2[w.head]) = n
  BY <1>5, HeadFields
<1> QED
  BY <1>2, <1>4, <1>5, <1>7, <1>8, <1>9 DEF NewSection, SectionAt, c

LEMMA CloseSwaps ==
  ASSUME StorageAssumption, NEW st, NEW l, NEW ws, NEW H, NEW C, IsLayout(st, l, ws, H, C),
         NEW n \in DOMAIN ws, NEW w, w = ws[n], NEW st1, Alive(st1, H, C), HeadsIn(st1) = H,
         \A h \in H : st1[h] = st[h],
         NEW st2, NewSection(st1, st2, n, w, C[w.head]), w.old # NoBlock
  PROVE  Swap(st1, H, C, w.old, n, n, w.head, C[w.head], st2)
<1> DEFINE c == C[w.head]
           o == w.old
           t == w.head
<1>1. o \in H /\ NameOf(st[o]) = n
  BY WriterLabels DEF IsReplaced
<1>2. \A h \in H \ {o} : NameOf(st1[h]) # n
  <2>1. DistinctNames(st, H)
    BY DEF IsLayout
  <2> QED
    BY <1>1, <2>1 DEF DistinctNames
<1>3. /\ IsSection(st2, c) /\ IsDistinct(c) /\ c[1] = t /\ NameOf(st2[t]) = n
      /\ IsStorage(st2) /\ t \in Block /\ \A b \in Block : b # t => st2[b] = st1[b]
  BY DEF NewSection
<1>4. \A h \in H : ToSet(C[h]) \cap ToSet(c) = {} /\ C[h][1] = h /\ IsSection(st, C[h])
  <2>1. IsWritten(st, w, c) /\ \A h \in H : ToSet(C[h]) \cap ToSet(c) = {}
    BY LayoutApart
  <2>2. \A h \in H : C[h][1] = h /\ IsSection(st, C[h])
    BY LayoutApart
  <2> QED
    BY <2>1, <2>2
<1>5. Intact(st1, H, C)
  BY DEF Alive
<1>6. o \in ToSet(C[o]) /\ t \in ToSet(c) /\ o \in Block
  BY <1>1, <1>3, <1>4, SectionBlocks
<1>7. o \notin ToSet(c) /\ o # t /\ \A h \in H : t \notin ToSet(C[h])
  BY <1>1, <1>4, <1>6
<1>8. Rivals(st2, o, t)
  <2>1. st2[o] = st[o]
    BY <1>1, <1>3, <1>6, <1>7
  <2> QED
    BY <1>1, <1>3, <1>7, <2>1 DEF Rivals
<1>9. NameOf(st1[o]) = n
  BY <1>1
<1>10. \A h \in H \ {o} : NameOf(st1[h]) # n /\ ToSet(c) \cap ToSet(C[h]) = {}
  BY <1>2, <1>4
<1> HIDE DEF c, o, t
<1>11. Swap(st1, H, C, o, n, n, t, c, st2)
  BY <1>1, <1>3, <1>5, <1>7, <1>8, <1>9, <1>10 DEF Swap
<1> QED
  BY <1>11 DEF c, o, t

LEMMA AddedCounts ==
  ASSUME NEW st, NEW H, NEW C, Intact(st, H, C), NEW o, o \notin H, NEW n, NEW m, m = n,
         \A h \in H : NameOf(st[h]) # n, NEW st2, Keeps(st, H, C, o, st2),
         NEW c, IsSection(st2, c), IsDistinct(c), NEW t, t = c[1], t \notin H,
         NameOf(st2[t]) = n, \A h \in H : ToSet(c) \cap ToSet(C[h]) = {},
         \A b \in HeadsIn(st2) : (b \in H /\ b # o) \/ b = t,
         NEW T, T = Replaced(Image(st, H, C), m, n, SectionAt(st2, c))
  PROVE  Quiet(st2, <<>>, T)
<1> DEFINE H2 == (H \ {o}) \cup {t}
           C2 == [h \in H2 |-> IF h = t THEN c ELSE C[h]]
<1>1. C2[t] = c /\ \A h \in H \ {o} : C2[h] = C[h]
  OBVIOUS
<1>2. H2 = (H \ {o}) \cup {t}
  OBVIOUS
<1> HIDE DEF H2, C2
<1>3. \A b \in HeadsIn(st2) : \/ b \in H /\ b # o
                             \/ b = t
                             \/ /\ b = o /\ o \in H /\ st2[o] = st[o]
                                /\ Rivals(st2, o, t) /\ Loses(st2, o, t)
  OBVIOUS
<1>4. (o \in H => NameOf(st[o]) = m) /\ (o \notin H => m = n)
  OBVIOUS
<1>5. \A h \in H \ {o} : NameOf(st[h]) # n /\ ToSet(c) \cap ToSet(C[h]) = {}
  OBVIOUS
<1>7. /\ Intact(st, H, C) /\ Keeps(st, H, C, o, st2) /\ IsSection(st2, c) /\ IsDistinct(c)
      /\ t = c[1] /\ t \notin H /\ NameOf(st2[t]) = n
  OBVIOUS
<1>6. Alive(st2, H2, C2)
      /\ Image(st2, H2, C2) = Replaced(Image(st, H, C), m, n, SectionAt(st2, c))
  BY ONLY <1>1, <1>2, <1>3, <1>4, <1>5, <1>7, CountsNow
<1> QED
  BY <1>6, AloneQuiet

(* The section is the first one of that name. *)
LEMMA FirstCounts ==
  ASSUME StorageAssumption, NEW st, NEW l, NEW ws, NEW H, NEW C, IsLayout(st, l, ws, H, C),
         NEW n \in DOMAIN ws, NEW w, w = ws[n], NEW st1, Alive(st1, H, C), HeadsIn(st1) = H,
         \A h \in H : st1[h] = st[h],
         NEW st2, NewSection(st1, st2, n, w, C[w.head]), w.old = NoBlock,
         NEW S, S = Image(st1, H, C), NEW T, T = Replaced(S, n, n, SectionAt(st2, C[w.head]))
  PROVE  Quiet(st2, <<>>, T)
<1> DEFINE c == C[w.head]
           t == w.head
           o == NoBlock
<1>1. o \notin H /\ \A h \in H : NameOf(st[h]) # n
  <2>1. NoBlock \notin Block /\ H \subseteq Block
    BY Sizes DEF IsLayout
  <2>2. IsReplaced(st, H, n, w)
    BY WriterLabels
  <2> QED
    BY <2>1, <2>2 DEF IsReplaced
<1>3. /\ IsSection(st2, c) /\ IsDistinct(c) /\ c[1] = t /\ NameOf(st2[t]) = n
      /\ IsStorage(st2) /\ t \in Block /\ \A b \in Block : b # t => st2[b] = st1[b]
  BY DEF NewSection
<1>4. \A h \in H : ToSet(C[h]) \cap ToSet(c) = {} /\ C[h][1] = h /\ IsSection(st, C[h])
  <2>1. IsWritten(st, w, c) /\ \A h \in H : ToSet(C[h]) \cap ToSet(c) = {}
    BY LayoutApart
  <2>2. \A h \in H : C[h][1] = h /\ IsSection(st, C[h])
    BY LayoutApart
  <2> QED
    BY <2>1, <2>2
<1>5. Intact(st1, H, C)
  BY DEF Alive
<1>6. t \in ToSet(c) /\ \A h \in H : h \in ToSet(C[h]) /\ \A b \in ToSet(C[h]) : b \in Block
  BY <1>3, <1>4, SectionBlocks
<1>7. t \notin H /\ \A h \in H : t \notin ToSet(C[h])
  BY <1>4, <1>6
<1>8. Keeps(st1, H, C, o, st2)
  BY <1>3, <1>6, <1>7 DEF Keeps
<1>9. \A b \in HeadsIn(st2) : (b \in H /\ b # o) \/ b = t
  <2>1. ASSUME NEW b \in HeadsIn(st2) PROVE (b \in H /\ b # o) \/ b = t
    BY <1>1, <1>3, <2>1 DEF HeadsIn
  <2> QED
    BY <2>1
<1>10. t = c[1] /\ n = n /\ \A h \in H : NameOf(st1[h]) # n
  BY <1>1, <1>3
<1>11. T = Replaced(Image(st1, H, C), n, n, SectionAt(st2, c))
  OBVIOUS
<1> HIDE DEF c, t, o
<1> QED
  BY <1>1, <1>3, <1>4, <1>5, <1>7, <1>8, <1>9, <1>10, <1>11, AddedCounts

LEMMA CloseSoon ==
  ASSUME StorageAssumption, NEW st, NEW l, NEW ws, NEW H, NEW C, IsLayout(st, l, ws, H, C),
         NEW n \in DOMAIN ws, NEW w, w = ws[n], NEW y, NEW z, NEW st1, NEW st2, NEW vs, NEW us,
         Closes(st, n, w, H, C, y, z, st1, st2, vs, us),
         NEW S, S = Image(st, H, C), NEW T, T = Replaced(S, n, n, SectionAt(st2, C[w.head]))
  PROVE  Atomic(st, vs, S, T)
<1>1. /\ Alive(st1, H, C) /\ Image(st1, H, C) = S /\ HeadsIn(st1) = H
      /\ Before(st, vs, S, T)
  BY CloseFirst
<1>2. NewSection(st1, st2, n, w, C[w.head])
  BY CloseSecond
<1> DEFINE ts == Tail(vs)
<1>3. /\ st1 = Stored(st, Head(vs)) /\ ts # <<>> /\ Head(ts) = z /\ Tail(ts) = us
      /\ z \in Writes /\ z[1] = w.head /\ st2 = Stored(st1, z)
      /\ IF w.old = NoBlock THEN us = <<>>
         ELSE OnlyFrees(us, ToSet(C[0]) \cup ToSet(C[w.old])) /\ StartsAt(us, w.old)
  <2>1. Closes(st, n, w, H, C, y, z, st1, st2, vs, us)
    OBVIOUS
  <2> QED
    BY ONLY <2>1 DEF Closes, Ahead, ts
<1> HIDE DEF ts
<1>4. \A h \in H : st1[h] = st[h]
  <2>1. WithBlock(st, w.next, y[2], st1)
    BY DEF Closes
  <2>2. ASSUME NEW h \in H PROVE h \in Block /\ h # w.next
    <3>1. IsWritten(st, w, C[w.head]) /\ ToSet(C[h]) \cap ToSet(C[w.head]) = {}
      BY LayoutApart
    <3>2. w.next \in ToSet(C[w.head])
      BY <3>1, WrittenBlocks
    <3>3. h \in Block /\ h \in ToSet(C[h])
      BY LabelBlocks
    <3> QED
      BY <3>1, <3>2, <3>3
  <2> QED
    BY <2>1, <2>2 DEF WithBlock
<1>5. CASE w.old = NoBlock
  <2>1. Quiet(st2, <<>>, T)
    <3>1. StorageAssumption /\ IsLayout(st, l, ws, H, C) /\ w = ws[n] /\ n \in DOMAIN ws
      OBVIOUS
    <3>2. T = Replaced(S, n, n, SectionAt(st2, C[w.head])) /\ S = Image(st1, H, C)
      BY <1>1
    <3> QED
      BY ONLY <1>1, <1>2, <1>4, <1>5, <3>1, <3>2, FirstCounts
  <2>2. Soon0(Stored(st1, Head(ts)), Tail(ts), S, T)
    BY <1>3, <1>5, <2>1 DEF Soon0
  <2>3. \A h \in H : z[1] \notin ToSet(C[h])
    <3>1. IsSection(st2, C[w.head]) /\ C[w.head][1] = w.head
      BY <1>2 DEF NewSection
    <3>2. w.head \in ToSet(C[w.head])
      BY <3>1, SectionBlocks
    <3>3. \A h \in H : ToSet(C[h]) \cap ToSet(C[w.head]) = {}
      BY LayoutApart
    <3> QED
      BY <1>3, <3>2, <3>3
  <2>4. Before(st1, ts, S, T)
    BY <1>1, <1>3, <2>3, HeadBefore
  <2>5. Soon1(st1, ts, S, T)
    BY <2>2, <2>4 DEF Soon1
  <2>6. Soon2(st, vs, S, T)
    BY <1>1, <1>3, <2>5 DEF Soon2, ts
  <2> QED
    BY <2>6 DEF Atomic
<1>6. CASE w.old # NoBlock
  <2> DEFINE o == w.old
             c == C[w.head]
             B == ToSet(C[0]) \cup ToSet(C[o])
             t == w.head
  <2>1. Swap(st1, H, C, o, n, n, t, c, st2)
    BY <1>1, <1>2, <1>4, <1>6, CloseSwaps
  <2>2. OnlyFrees(Tail(ts), B) /\ StartsAt(Tail(ts), o)
    BY <1>3, <1>6
  <2>3. o \in H
    BY <2>1 DEF Swap
  <2>4. B \cap ToSet(c) = {} /\ \A h \in H \ {o} : B \cap ToSet(C[h]) = {}
    <3>1. \A h \in H : ToSet(C[h]) \cap ToSet(c) = {}
      BY LayoutApart
    <3>2. ToSet(C[0]) \cap ToSet(c) = {}
      BY LayoutApart
    <3>3. \A h \in H : ToSet(C[h]) \cap ToSet(C[0]) = {}
      BY LayoutApart
    <3>4. \A h \in H \ {o} : ToSet(C[h]) \cap ToSet(C[o]) = {}
      BY <1>1, <2>3 DEF Alive, Intact
    <3> QED
      BY <2>3, <3>1, <3>2, <3>3, <3>4
  <2>5. z[1] = t /\ T = Replaced(S, n, n, SectionAt(st2, c)) /\ S = Image(st1, H, C)
    BY <1>1, <1>3
  <2> HIDE DEF o, c, B, t
  <2>6. Soon1(st1, ts, S, T) \/ Soon2(st1, ts, S, T)
    BY <1>1, <1>3, <2>1, <2>2, <2>4, <2>5, SwapSoon
  <2>7. Soon2(st, vs, S, T) \/ Soon3(st, vs, S, T)
    BY <1>1, <1>3, <2>6 DEF Soon2, Soon3, ts
  <2> QED
    BY <2>7 DEF Atomic
<1> QED
  BY <1>5, <1>6

(* What CloseOpen() writes *)
TagsWritten(w) == [i \in 1..w.seqNb |-> w.tag]
ClosingWork(st, l, n, w) ==
  LET data == Store(Begin(st, l), w.next, DataBlock(w.seqNb, w.tag, NoBlock))
      headed == Store(data, w.head, HeadBlock(n, w.version, w.first))
  IN  IF w.old = NoBlock THEN headed ELSE AddChain(headed, w.old, NoBlock)

LEMMA CloseOpenChanges ==
  ASSUME StorageAssumption, NEW st, NEW l, NEW ws, NEW H, NEW C, IsLayout(st, l, ws, H, C),
         NEW n \in DOMAIN ws, NEW w, w = ws[n],
         NEW work, work = ClosingWork(st, l, n, w),
         NEW tags, tags = TagsWritten(w),
         NEW ch, DOMAIN ch = {n}, ch[n] = tags
  PROVE  Changes(st, work.writes, ch)
<1> DEFINE data == Store(Begin(st, l), w.next, DataBlock(w.seqNb, w.tag, NoBlock))
           headed == Store(data, w.head, HeadBlock(n, w.version, w.first))
           vs == work.writes
<1>0. /\ data = Store(Begin(st, l), w.next, DataBlock(w.seqNb, w.tag, NoBlock))
      /\ headed = Store(data, w.head, HeadBlock(n, w.version, w.first))
      /\ work = IF w.old = NoBlock THEN headed ELSE AddChain(headed, w.old, NoBlock)
  BY DEF ClosingWork
<1> HIDE DEF data, headed
<1>1. \E y, z, st1, st2, us : Closes(st, n, w, H, C, y, z, st1, st2, vs, us)
  BY <1>0, ClosesIs
<1> HIDE DEF vs
<1>2. PICK y, z, st1, st2, us : Closes(st, n, w, H, C, y, z, st1, st2, vs, us)
  BY <1>1
<1> DEFINE S == Image(st, H, C)
           a == SectionAt(st2, C[w.head])
           T == Replaced(S, n, n, a)
<1>3. Atomic(st, vs, S, T)
  BY <1>2, CloseSoon
<1>4. Quiet(st, <<>>, S)
  BY LayoutAlive, AloneQuiet
<1>5. a.is = ch[n]
  <2>1. NewSection(st1, st2, n, w, C[w.head])
    BY <1>2, CloseSecond
  <2>2. a.is = [i \in 1..w.seqNb |-> w.tag]
    BY <2>1 DEF NewSection
  <2> QED
    BY <2>2 DEF TagsWritten
<1> HIDE DEF S, a
<1>6. Becomes(S, T, ch)
  <2>1. DOMAIN ch = {n, n}
    OBVIOUS
  <2> QED
    BY <1>5, <2>1, ReplacedBecomes
<1> HIDE DEF T
<1> QED
  BY <1>3, <1>4, <1>6 DEF Changes, vs

(* A block of the call is written, or the write is cut off. *)
LEMMA SoonSteps ==
  ASSUME StorageAssumption, NEW st, NEW vs \in Seq(Writes), vs # <<>>, NEW S, NEW T,
         Atomic(st, vs, S, T)
  PROVE  /\ Atomic(Stored(st, Head(vs)), Tail(vs), S, T)
         /\ \A x \in CutsOff(st, Head(vs)) : Quiet(x, <<>>, S) \/ Quiet(x, <<>>, T)
<1>1. CASE Soon0(st, vs, S, T)
  <2>1. Quiet(st, vs, T)
    BY <1>1 DEF Soon0
  <2>2. /\ Quiet(Stored(st, Head(vs)), Tail(vs), T)
        /\ \A x \in CutsOff(st, Head(vs)) : Quiet(x, <<>>, T)
    BY <2>1, QuietStep
  <2> QED
    BY <2>2 DEF Atomic, Soon0
<1>2. CASE Soon1(st, vs, S, T)
  BY <1>2 DEF Soon1, Before, Atomic
<1>3. CASE Soon2(st, vs, S, T)
  BY <1>3 DEF Soon2, Before, Atomic
<1>4. CASE Soon3(st, vs, S, T)
  BY <1>4 DEF Soon3, Before, Atomic
<1> QED
  BY <1>1, <1>2, <1>3, <1>4 DEF Atomic

(* It shows what it was or what it will be all the time.                   *)
LEMMA AtomicShows ==
  ASSUME NEW st, NEW vs, NEW S, NEW T, Atomic(st, vs, S, T)
  PROVE  Quiet(st, <<>>, S) \/ Quiet(st, <<>>, T)
<1>1. CASE Soon0(st, vs, S, T)
  BY <1>1, QuietAtAll DEF Soon0
<1>2. CASE ~Soon0(st, vs, S, T)
  BY <1>2 DEF Atomic, Soon1, Soon2, Soon3, Before
<1> QED
  BY <1>1, <1>2

LEMMA AtomicEnds ==
  ASSUME NEW st, NEW S, NEW T, Atomic(st, <<>>, S, T)
  PROVE  Quiet(st, <<>>, T)
BY DEF Atomic, Soon0, Soon1, Soon2, Soon3, Before

LEMMA BecomesNothing ==
  ASSUME NEW S
  PROVE  Becomes(S, S, Nothing)
BY DEF Becomes, Nothing

-----------------------------------------------------------------------------
(* A reader has read the first blocks of a section, and comes to the next  *)
(* one, if there is one.                                                   *)
Placed(r, s) ==
  /\ Len(r.got) \in 1..Len(s.is)
  /\ r.got = SubSeq(s.is, 1, Len(r.got))
  /\ r.at = IF Len(r.got) < Len(s.is) THEN s.at[Len(r.got) + 2] ELSE NoBlock
Reads(rd, T) == \A n \in DOMAIN rd : rd[n].ok => Placed(rd[n], T[n])

IsReader(r) == r = [at |-> r.at, got |-> r.got, ok |-> r.ok]
ReadersApart ==
  /\ IsFunction(reader)
  /\ \A n \in DOMAIN reader : n \in Names /\ IsReader(reader[n]) /\ n \notin DOMAIN writer
  /\ DOMAIN reader # {} => state \in {"ro_mount", "mounted", "defect"}

(* Between two calls *)
Resting ==
  ~formatting => \E T : Quiet(storage, <<>>, T) /\ (MayRead => Reads(reader, T))

(* During a call: nobody reads what it changes.                            *)
IsUpdate(ch) ==
  /\ IsFunction(ch) /\ DOMAIN ch \subseteq Names
  /\ \A n \in DOMAIN ch : ch[n] \in Seq(Tags)
Untouched(rd, c) ==
  \A n \in DOMAIN rd : n \notin DOMAIN c.change /\ n \notin DOMAIN c.writer /\ n \notin DOMAIN c.lost
Clearing(c, st) ==
  c.change = [n \in Names |-> <<>>] /\ HeadsIn(After(st, c.writes)) = {}
Changing ==
  /\ state \in {"mounted", "checking", "not_mounted"}
  /\ IsUpdate(call.change) /\ Untouched(reader, call)
  /\ IF formatting
     THEN DOMAIN reader = {} /\ (call.change = Nothing \/ Clearing(call, storage))
     ELSE \E S, T : /\ Atomic(storage, call.writes, S, T)
                    /\ Becomes(S, T, call.change) /\ Reads(reader, S)

SectionInv ==
  /\ sections = Sections(storage)
  /\ ReadersApart
  /\ formatting => state # "mounted"
  /\ call = Idle => Resting
  /\ call # Idle => Changing

(* Who reads a section that is not changed does not notice the call. *)
LEMMA ReadsOn ==
  ASSUME NEW rd, NEW S, NEW T, NEW ch, Reads(rd, S), Becomes(S, T, ch),
         \A n \in DOMAIN rd : n \in Names /\ n \notin DOMAIN ch
  PROVE  Reads(rd, T)
BY DEF Reads, Becomes

LEMMA NobodyReads ==
  ASSUME NEW rd, DOMAIN rd = {}, NEW T
  PROVE  Reads(rd, T)
BY DEF Reads

(* A mounted storage is at rest. *)
LEMMA MountedQuiet ==
  ASSUME StorageAssumption, NEW st, NEW l, NEW ws, IsMounted(st, l, ws)
  PROVE  \E T : Quiet(st, <<>>, T)
<1>1. PICK H, C : IsLayout(st, l, ws, H, C)
  BY DEF IsMounted
<1>2. Alive(st, H, C)
  BY <1>1, LayoutAlive
<1> QED
  BY <1>2, AloneQuiet

(* No call is in progress, and storage and readers are left alone. *)
LEMMA RestKeeps ==
  ASSUME SectionInv, call = Idle, UNCHANGED <<storage, aux, reader, call>>,
         \A n \in DOMAIN reader : n \notin DOMAIN writer',
         DOMAIN reader # {} => state' \in {"ro_mount", "mounted", "defect"},
         formatting => state' # "mounted",
         DOMAIN reader = {} \/ state # "ro_mount" \/ state' = state
  PROVE  SectionInv'
<1>1. sections = Sections(storage) /\ ReadersApart /\ Resting
  BY DEF SectionInv
<1>2. /\ storage' = storage /\ sections' = sections /\ formatting' = formatting
      /\ reader' = reader /\ call' = call
  BY DEF aux
<1>3. sections' = Sections(storage')
  BY <1>1, <1>2
<1>4. ReadersApart'
  BY <1>1, <1>2 DEF ReadersApart
<1>5. MayRead' => MayRead \/ DOMAIN reader = {}
  BY <1>2 DEF MayRead, NoWrap
<1>6. Resting'
  <2>1. SUFFICES ASSUME ~formatting
                 PROVE  \E T : Quiet(storage, <<>>, T) /\ (MayRead' => Reads(reader, T))
    BY <1>2 DEF Resting
  <2>2. PICK T : Quiet(storage, <<>>, T) /\ (MayRead => Reads(reader, T))
    BY <1>1, <2>1 DEF Resting
  <2>3. MayRead' => Reads(reader, T)
    BY <1>5, <2>2, NobodyReads
  <2> QED
    BY <2>2, <2>3
<1>7. call' = Idle /\ (formatting' => state' # "mounted")
  BY <1>2
<1> QED
  BY <1>3, <1>4, <1>6, <1>7 DEF SectionInv

(* What Begins does *)
LEMMA BeginsWrites ==
  ASSUME NEW work, NEW change, NEW ws, NEW lost, Begins(work, change, ws, lost), work.ok
  PROVE  /\ work.writes = <<>> =>
              /\ state' = "mounted" /\ list' = work.list /\ writer' = ws
              /\ UNCHANGED <<storage, aux, reader, call>>
         /\ work.writes # <<>> =>
              /\ call' = [writes |-> work.writes, change |-> change, state |-> "mounted",
                          list |-> work.list, writer |-> ws, lost |-> lost]
              /\ UNCHANGED <<storage, aux, state, list, writer, reader>>
BY DEF Begins

LEMMA CallFields ==
  ASSUME NEW vs, NEW ch, NEW l, NEW wr, NEW lo, NEW c, IsNewCall(c, vs, ch, l, wr, lo), vs # <<>>
  PROVE  /\ c.writes = vs /\ c.change = ch /\ c.writer = wr /\ c.lost = lo /\ c.state = "mounted"
         /\ c # Idle
<1>1. c.writes = vs /\ c.change = ch /\ c.writer = wr /\ c.lost = lo /\ c.state = "mounted"
  BY DEF IsNewCall
<1>2. Idle.writes = <<>>
  BY DEF Idle
<1> QED
  BY <1>1, <1>2

(* A call begins that changes the sections at once, but none that is read. *)
Spared(rd, change, ws, lost) ==
  \A n \in DOMAIN rd : n \notin DOMAIN change /\ n \notin DOMAIN ws /\ n \notin DOMAIN lost
OneCall(work, change, ws, lost) ==
  /\ Begins(work, change, ws, lost) /\ work.ok
  /\ Changes(storage, work.writes, change) /\ IsUpdate(change)
  /\ Spared(reader, change, ws, lost)

(* What a call does that does not mount, format or read: it begins to write *)
(* to a mounted section system, or it leaves the storage alone.            *)
CallStep ==
  /\ call = Idle
  /\ \/ state = "mounted" /\ \E work, change, ws, lost : OneCall(work, change, ws, lost)
     \/ UNCHANGED <<storage, aux, state, reader, call>>
        /\ \A n \in DOMAIN reader : n \notin DOMAIN writer'

LEMMA BeginsSections ==
  ASSUME StorageAssumption, SectionInv, call = Idle, state = "mounted",
         NEW work, NEW change, NEW ws, NEW lost, OneCall(work, change, ws, lost)
  PROVE  SectionInv'
<1> DEFINE vs == work.writes
<1>0. /\ Begins(work, change, ws, lost) /\ work.ok
      /\ Changes(storage, work.writes, change) /\ IsUpdate(change)
      /\ \A n \in DOMAIN reader : n \notin DOMAIN change /\ n \notin DOMAIN ws /\ n \notin DOMAIN lost
  BY DEF OneCall, Spared
<1>1. sections = Sections(storage) /\ ReadersApart /\ Resting /\ ~formatting
  BY DEF SectionInv
<1>2. CASE vs = <<>>
  <2>1. state' = "mounted" /\ writer' = ws /\ UNCHANGED <<storage, aux, reader, call>>
    BY <1>0, <1>2, BeginsWrites
  <2> QED
    BY <1>0, <1>1, <2>1, RestKeeps
<1>3. CASE vs # <<>>
  <2> DEFINE c == [writes |-> vs, change |-> change, state |-> "mounted",
                   list |-> work.list, writer |-> ws, lost |-> lost]
  <2>1. call' = c /\ UNCHANGED <<storage, aux, state, list, writer, reader>>
    BY <1>0, <1>3, BeginsWrites
  <2>2. IsNewCall(c, vs, change, work.list, ws, lost)
    BY DEF IsNewCall
  <2> HIDE DEF c, vs
  <2>3. c.writes = vs /\ c.change = change /\ c.writer = ws /\ c.lost = lost /\ c # Idle
    BY <1>3, <2>2, CallFields
  <2>4. /\ storage' = storage /\ sections' = sections /\ formatting' = formatting
        /\ state' = state /\ writer' = writer /\ reader' = reader
    BY <2>1 DEF aux
  <2>5. ReadersApart' /\ sections' = Sections(storage')
    BY <1>1, <2>4 DEF ReadersApart
  <2>6. PICK R : Quiet(storage, <<>>, R) /\ (MayRead => Reads(reader, R))
    BY <1>1 DEF Resting
  <2>7. Reads(reader, R)
    BY <1>1, <2>6 DEF MayRead
  <2>8. PICK S, T : Quiet(storage, <<>>, S) /\ Atomic(storage, vs, S, T) /\ Becomes(S, T, change)
    BY <1>0 DEF Changes, vs
  <2>9. S = R
    BY <2>6, <2>8, QuietUnique
  <2>10. Atomic(storage, c.writes, S, T) /\ Becomes(S, T, c.change) /\ Reads(reader, S)
    BY <2>3, <2>7, <2>8, <2>9
  <2>11. IsUpdate(c.change) /\ Untouched(reader, c)
    BY <1>0, <2>3 DEF Untouched
  <2>12. Changing'
    BY <1>1, <2>1, <2>4, <2>10, <2>11 DEF Changing
  <2> QED
    BY <1>1, <2>1, <2>3, <2>4, <2>5, <2>12 DEF SectionInv
<1> QED
  BY <1>2, <1>3

LEMMA CallSections ==
  ASSUME StorageAssumption, SectionInv, CallStep
  PROVE  SectionInv'
<1>1. CASE state = "mounted" /\ \E work, change, ws, lost : OneCall(work, change, ws, lost)
  BY <1>1, BeginsSections DEF CallStep
<1>2. CASE UNCHANGED <<storage, aux, state, reader, call>>
           /\ \A n \in DOMAIN reader : n \notin DOMAIN writer'
  <2>1. /\ formatting => state' # "mounted"
        /\ DOMAIN reader # {} => state' \in {"ro_mount", "mounted", "defect"}
    BY <1>2 DEF SectionInv, ReadersApart
  <2> QED
    BY <1>2, <2>1, RestKeeps DEF CallStep
<1> QED
  BY <1>1, <1>2 DEF CallStep

-----------------------------------------------------------------------------
LEMMA NothingUpdates ==
  IsUpdate(Nothing) /\ DOMAIN Nothing = {}
BY DEF IsUpdate, Nothing, IsFunction

LEMMA WithoutWriter ==
  ASSUME NEW ws, NEW n
  PROVE  DOMAIN Without(ws, n) \subseteq DOMAIN ws
BY DEF Without

LEMMA WithWriter ==
  ASSUME NEW ws, NEW n, NEW w
  PROVE  DOMAIN With(ws, n, w) = DOMAIN ws \cup {n}
BY DEF With

(* What a call of a writer or of a mounted section system finds. *)
LEMMA Found ==
  ASSUME StorageAssumption, StorageInv, SectionInv, call = Idle, state = "mounted"
  PROVE  /\ \E H, C : IsLayout(storage, list, writer, H, C)
         /\ ~formatting /\ ReadersApart
         /\ \A n \in DOMAIN reader : n \notin DOMAIN writer
<1>1. \E H, C : IsLayout(storage, list, writer, H, C)
  BY Layouts
<1>2. ~formatting /\ ReadersApart
  BY DEF SectionInv
<1> QED
  BY <1>1, <1>2 DEF ReadersApart

LEMMA CreateStep ==
  ASSUME StorageAssumption, StorageInv, SectionInv, NEW n \in Names, NEW tag \in Tags,
         NEW overwrite \in BOOLEAN, Create(n, overwrite, tag)
  PROVE  CallStep
<1>1. /\ call = Idle /\ state = "mounted" /\ n \notin DOMAIN reader
      /\ UNCHANGED <<storage, aux, reader, call>>
      /\ \/ writer' = writer
         \/ \E w : writer' = With(writer, n, w)
  BY DEF Create, IsLocked
<1>2. state' = "mounted"
  BY CreateInv
<1>3. \A m \in DOMAIN reader : m \notin DOMAIN writer'
  <2>1. \A m \in DOMAIN reader : m \notin DOMAIN writer /\ m # n
    BY <1>1, Found
  <2>2. DOMAIN writer' \subseteq DOMAIN writer \cup {n}
    <3>1. CASE writer' = writer
      BY <3>1
    <3>2. CASE writer' # writer
      <4>1. PICK w : writer' = With(writer, n, w)
        BY <1>1, <3>2
      <4> QED
        BY <4>1, WithWriter
    <3> QED
      BY <3>1, <3>2
  <2> QED
    BY <2>1, <2>2
<1> QED
  BY <1>1, <1>2, <1>3 DEF CallStep

LEMMA CloseReaderSections ==
  ASSUME SectionInv, NEW n \in Names, CloseReader(n)
  PROVE  SectionInv'
<1>1. /\ call = Idle /\ n \in DOMAIN reader /\ reader' = Without(reader, n)
      /\ storage' = storage /\ sections' = sections /\ formatting' = formatting
      /\ state' = state /\ writer' = writer /\ call' = call
  BY DEF CloseReader, aux
<1>2. /\ DOMAIN reader' \subseteq DOMAIN reader /\ \A m \in DOMAIN reader' : reader'[m] = reader[m]
      /\ IsFunction(reader')
  BY <1>1 DEF Without, IsFunction
<1>3. ReadersApart'
  <2>1. /\ \A m \in DOMAIN reader : m \in Names /\ IsReader(reader[m]) /\ m \notin DOMAIN writer
        /\ DOMAIN reader # {} => state \in {"ro_mount", "mounted", "defect"}
    BY DEF ReadersApart, SectionInv
  <2>2. \A m \in DOMAIN reader' : m \in Names /\ IsReader(reader'[m]) /\ m \notin DOMAIN writer'
    BY <1>1, <1>2, <2>1
  <2>3. DOMAIN reader' # {} => state' \in {"ro_mount", "mounted", "defect"}
    BY <1>1, <1>2, <2>1
  <2>4. IsFunction(reader')
    BY <1>2
  <2> QED
    BY ONLY <2>2, <2>3, <2>4 DEF ReadersApart
<1>4. MayRead' = MayRead
  BY <1>1 DEF MayRead, NoWrap
<1>5. \A T : Reads(reader, T) => Reads(reader', T)
  BY <1>2 DEF Reads
<1>6. Resting'
  BY <1>1, <1>4, <1>5 DEF Resting, SectionInv
<1> QED
  BY <1>1, <1>3, <1>6 DEF SectionInv

(* What a storage contains has the type of contents of sections.           *)
LEMMA ContentTyped ==
  ASSUME StorageAssumption, NEW st, IsStorage(st), NEW h \in HeadsIn(st)
  PROVE  ContentOf(st, h) \in Seq(Tags)
<1> DEFINE nth == Follow(st, h)
           Q == {k \in 1..(NBlocks - 1) : IsReadable(st[nth[k + 1]], "data")
                                          /\ SeqNbOf(st[nth[k + 1]]) = k}
           c == [k \in 1..RunLength(Goes(st, h, Q)) |-> nth[k]]
           d == Tail(c)
<1>1. Goes(st, h, Q) =
        {k \in 1..(NBlocks - 1) :
           /\ nth[k + 1] # NoBlock
           /\ \A j \in 1..k : nth[j] # nth[k + 1]
           /\ IsReadable(st[nth[k + 1]], "data") /\ SeqNbOf(st[nth[k + 1]]) = k}
  BY Zenon DEF Goes
<1>2. SectionOf(st, h) = c
  BY <1>1 DEF SectionOf, ChainFrom
<1>3. h \in Block /\ Linked(st)
  BY StorageLinked DEF HeadsIn
<1>4. \A k \in Q : IsReadable(st[nth[k + 1]], "data")
  OBVIOUS
<1>5. IsRunOf(c, st, h, Goes(st, h, Q))
  BY DEF IsRunOf
<1> HIDE DEF Q, c
<1>6. ChainAlong(st, h, Q, c)
  BY <1>3, <1>5, ChainGoes
<1>7. /\ c \in Seq(Block) /\ c # <<>> /\ Len(c) \in Nat /\ Len(c) >= 1
      /\ \A k \in 1..(Len(c) - 1) : k \in Q /\ nth[k + 1] = c[k + 1]
  BY <1>6 DEF ChainAlong
<1>8. Len(d) = Len(c) - 1 /\ \A k \in 1..(Len(c) - 1) : d[k] = c[k + 1] /\ d[k] \in Block
  BY <1>7
<1>9. ASSUME NEW k \in 1..(Len(c) - 1) PROVE TagOf(st[d[k]]) \in Tags
  <2>1. IsReadable(st[d[k]], "data") /\ d[k] \in Block
    BY <1>4, <1>7, <1>8
  <2>2. st[d[k]] \in Content
    BY <2>1, StorageFields DEF IsReadable
  <2> QED
    BY <2>1, <2>2, ContentFields DEF IsReadable
<1>10. ContentOf(st, h) = [k \in 1..Len(d) |-> TagOf(st[d[k]])]
  BY <1>2 DEF ContentOf, DataBlocksOf
<1> HIDE DEF d
<1> DEFINE m == Len(c) - 1
<1>11. m \in Nat /\ Len(d) = m
  BY <1>7, <1>8
<1>12. ContentOf(st, h) \in [1..m -> Tags]
  BY <1>9, <1>10, <1>11
<1> HIDE DEF m
<1> QED
  BY <1>11, <1>12, IsSequence

LEMMA SectionsTyped ==
  ASSUME StorageAssumption, NEW st, IsStorage(st)
  PROVE  Sections(st) \in [Names -> Seq(Tags)]
<1> DEFINE hs(n) == {b \in LiveHeads(st) : NameOf(st[b]) = n}
           s(n) == IF hs(n) = {} THEN <<>> ELSE ContentOf(st, CHOOSE b \in hs(n) : TRUE)
<1>1. Sections(st) = [n \in Names |-> s(n)]
  BY DEF Sections
<1>2. ASSUME NEW n \in Names PROVE s(n) \in Seq(Tags)
  <2>1. CASE hs(n) = {}
    <3>1. s(n) = <<>>
      BY <2>1
    <3>2. <<>> \in Seq(Tags)
      OBVIOUS
    <3> HIDE DEF s
    <3> QED
      BY <3>1, <3>2
  <2>2. CASE hs(n) # {}
    <3> DEFINE h == CHOOSE b \in hs(n) : TRUE
    <3>1. h \in hs(n)
      BY <2>2
    <3>2. h \in HeadsIn(st)
      BY <3>1 DEF LiveHeads
    <3>3. s(n) = ContentOf(st, h)
      BY <2>2
    <3> QED
      BY <3>2, <3>3, ContentTyped
  <2> QED
    BY <2>1, <2>2
<1> HIDE DEF s
<1> QED
  BY <1>1, <1>2

LEMMA NoHeadsNoSections ==
  ASSUME NEW st, HeadsIn(st) = {}
  PROVE  Sections(st) = [n \in Names |-> <<>>]
<1>1. LiveHeads(st) = {}
  BY DEF LiveHeads
<1> QED
  BY <1>1 DEF Sections

LEMMA PushStep ==
  ASSUME StorageAssumption, StorageInv, SectionInv, NEW n \in Names, Push(n)
  PROVE  CallStep
<1> DEFINE w == writer[n]
           open == [w EXCEPT !.open = FALSE]
           crashed == With(writer, n, open)
           taken == TakeBlocks(storage, list, 1)
           next == taken.blocks[1]
           work == Store(Begin(storage, taken.list), w.next, DataBlock(w.seqNb, w.tag, next))
           w2 == [w EXCEPT !.next = next, !.seqNb = @ + 1]
           ws2 == With(writer, n, w2)
<1>1. /\ call = Idle /\ n \in DOMAIN writer
      /\ IF state = "mounted" /\ list.n > 0 /\ taken.ok
         THEN Begins(work, Nothing, ws2, crashed)
         ELSE /\ writer' = crashed
              /\ state' = IF state = "mounted" /\ list.n > 0 THEN "defect" ELSE state
              /\ UNCHANGED <<storage, aux, list, reader, call>>
  BY DEF Push
<1>0. \A m \in DOMAIN reader : m \notin DOMAIN writer
  BY DEF SectionInv, ReadersApart
<1>5. DOMAIN ws2 = DOMAIN writer /\ DOMAIN crashed = DOMAIN writer
  <2>1. DOMAIN ws2 = DOMAIN writer \cup {n} /\ DOMAIN crashed = DOMAIN writer \cup {n}
    BY WithWriter
  <2> QED
    BY <1>1, <2>1
<1>2. CASE state = "mounted" /\ list.n > 0
  <2>1. PICK H, C : IsLayout(storage, list, writer, H, C)
    BY <1>1, <1>2, Layouts
  <2>2. taken.ok /\ work.ok /\ next \in Link
    <3>1. w = writer[n] /\ taken = TakeBlocks(storage, list, 1) /\ next = taken.blocks[1]
      OBVIOUS
    <3>2. work = Store(Begin(storage, taken.list), w.next, DataBlock(w.seqNb, w.tag, next))
      OBVIOUS
    <3>3. w2 = Advanced(w, next)
      BY DEF Advanced
    <3>4. ws2 = With(writer, n, w2)
      OBVIOUS
    <3>5. n \in DOMAIN writer /\ list.n > 0 /\ IsMounted(storage, list, writer)
      BY <1>1, <1>2, Layouts
    <3>6. next \in Block
      BY <2>1, <3>1, <3>5, TakeOne
    <3> HIDE DEF w, taken, next, work, w2, ws2, crashed, open
    <3>7. taken.ok /\ IsCall(storage, work, ws2)
      BY <3>1, <3>2, <3>3, <3>4, <3>5, PushKeeps
    <3> QED
      BY <3>6, <3>7 DEF IsCall, Link
  <2>3. Begins(work, Nothing, ws2, crashed)
    BY <1>1, <1>2, <2>2
  <2>4. Changes(storage, work.writes, Nothing)
    <3>1. w = writer[n]
      OBVIOUS
    <3>2. work = Store(Begin(storage, taken.list), w.next, DataBlock(w.seqNb, w.tag, next))
      OBVIOUS
    <3> HIDE DEF w, taken, next, work
    <3> QED
      BY <1>1, <2>1, <2>2, <3>1, <3>2, PushChanges
  <2> HIDE DEF work, ws2, crashed, taken, w
  <2>5. OneCall(work, Nothing, ws2, crashed)
    BY <1>0, <1>5, <2>2, <2>3, <2>4, NothingUpdates DEF OneCall, Spared
  <2> QED
    BY <1>1, <1>2, <2>5 DEF CallStep
<1>3. CASE ~ (state = "mounted" /\ list.n > 0)
  <2>1. state' = state /\ UNCHANGED <<storage, aux, reader, call>> /\ writer' = crashed
    BY <1>1, <1>3
  <2> HIDE DEF crashed
  <2> QED
    BY <1>0, <1>1, <1>5, <2>1 DEF CallStep
<1> QED
  BY <1>2, <1>3

(* A writer is closed, but the section system is not mounted any more. *)
LEMMA ClosedDefect ==
  ASSUME StorageInv, SectionInv, call = Idle, NEW n \in DOMAIN writer, state # "mounted",
         state' = "defect", writer' = Without(writer, n),
         UNCHANGED <<storage, aux, list, reader, call>>
  PROVE  CallStep
<1>1. state = "defect"
  BY WriterDefect
<1>2. \A m \in DOMAIN reader : m \notin DOMAIN writer'
  BY WithoutWriter DEF SectionInv, ReadersApart
<1> QED
  BY <1>1, <1>2 DEF CallStep

LEMMA SparedClosed ==
  ASSUME SectionInv, NEW n \in DOMAIN writer, NEW ws, ws = Without(writer, n),
         NEW ch, DOMAIN ch \subseteq {n}
  PROVE  Spared(reader, ch, ws, ws)
<1>1. \A m \in DOMAIN reader : m \notin DOMAIN writer
  BY DEF SectionInv, ReadersApart
<1>2. DOMAIN ws \subseteq DOMAIN writer
  BY WithoutWriter
<1> QED
  BY <1>1, <1>2 DEF Spared

LEMMA CloseOpenStep ==
  ASSUME StorageAssumption, StorageInv, SectionInv, NEW n \in Names, CloseOpen(n)
  PROVE  CallStep
<1> DEFINE w == writer[n]
           data == Store(Begin(storage, list), w.next, DataBlock(w.seqNb, w.tag, NoBlock))
           headed == Store(data, w.head, HeadBlock(n, w.version, w.first))
           work == IF w.old = NoBlock THEN headed ELSE AddChain(headed, w.old, NoBlock)
           ws2 == Without(writer, n)
           tags == [i \in 1..w.seqNb |-> w.tag]
           change == [m \in {n} |-> tags]
<1>1. /\ call = Idle /\ n \in DOMAIN writer
      /\ IF state = "mounted" THEN Begins(work, change, ws2, ws2)
         ELSE state' = "defect" /\ writer' = ws2 /\ UNCHANGED <<storage, aux, list, reader, call>>
  BY DEF CloseOpen
<1>2. CASE state = "mounted"
  <2>1. PICK H, C : IsLayout(storage, list, writer, H, C)
    BY <1>1, <1>2, Layouts
  <2>2. work.ok
    <3>1. IsCall(storage, work, ws2)
      BY <1>1, <2>1, CloseOpenKeeps
    <3> HIDE DEF work
    <3> QED
      BY <3>1 DEF IsCall
  <2>3. Begins(work, change, ws2, ws2)
    BY <1>1, <1>2
  <2>4. DOMAIN change = {n} /\ change[n] = tags /\ IsFunction(change)
    BY DEF IsFunction
  <2>5. Changes(storage, work.writes, change)
    <3>1. w = writer[n] /\ work = ClosingWork(storage, list, n, w)
      BY DEF ClosingWork
    <3>2. DOMAIN change = {n} /\ change[n] = tags /\ tags = TagsWritten(w)
      BY <2>4 DEF TagsWritten
    <3>3. StorageAssumption /\ IsLayout(storage, list, writer, H, C) /\ n \in DOMAIN writer
      BY <1>1, <2>1
    <3> HIDE DEF w, data, headed, work, tags, change
    <3> QED
      BY ONLY <3>1, <3>2, <3>3, CloseOpenChanges
  <2>6. tags \in Seq(Tags)
    <3>1. IsWritten(storage, w, C[w.head]) /\ IsReplaced(storage, H, n, w)
      BY <1>1, <2>1, LayoutApart
    <3>2. w.seqNb \in Nat /\ w.tag \in Tags
      BY <3>1 DEF IsWritten, IsReplaced
    <3> HIDE DEF w
    <3>3. tags \in [1..w.seqNb -> Tags]
      BY <3>2
    <3> QED
      BY <3>2, <3>3, IsSequence
  <2>7. IsUpdate(change)
    BY <2>4, <2>6 DEF IsUpdate
  <2> HIDE DEF work, ws2, change
  <2>8. Spared(reader, change, ws2, ws2)
    BY <1>1, <2>4, SparedClosed DEF ws2
  <2>9. OneCall(work, change, ws2, ws2)
    BY <2>2, <2>3, <2>5, <2>7, <2>8 DEF OneCall
  <2> QED
    BY <1>1, <1>2, <2>9 DEF CallStep
<1>3. CASE state # "mounted"
  BY <1>1, <1>3, ClosedDefect
<1> QED
  BY <1>2, <1>3

LEMMA CloseCrashedStep ==
  ASSUME StorageAssumption, StorageInv, SectionInv, NEW n \in Names, CloseCrashed(n)
  PROVE  CallStep
<1> DEFINE w == writer[n]
           work == AddBlocks(AddChain(Begin(storage, list), w.first, w.next), <<w.head>>)
           ws2 == Without(writer, n)
<1>1. /\ call = Idle /\ n \in DOMAIN writer
      /\ IF state = "mounted" THEN Begins(work, Nothing, ws2, ws2)
         ELSE state' = "defect" /\ writer' = ws2 /\ UNCHANGED <<storage, aux, list, reader, call>>
  BY DEF CloseCrashed
<1>2. CASE state = "mounted"
  <2>1. PICK H, C : IsLayout(storage, list, writer, H, C)
    BY <1>1, <1>2, Layouts
  <2>2. IsCall(storage, work, ws2) /\ Changes(storage, work.writes, Nothing)
    BY <1>1, <2>1, CloseCrashedKeeps, CloseCrashedChanges
  <2>3. Begins(work, Nothing, ws2, ws2)
    BY <1>1, <1>2
  <2>4. Spared(reader, Nothing, ws2, ws2)
    BY <1>1, SparedClosed, NothingUpdates
  <2> HIDE DEF work, ws2
  <2>5. OneCall(work, Nothing, ws2, ws2)
    BY <2>2, <2>3, <2>4, NothingUpdates DEF OneCall, IsCall
  <2> QED
    BY <1>1, <1>2, <2>5 DEF CallStep
<1>3. CASE state # "mounted"
  BY <1>1, <1>3, ClosedDefect
<1> QED
  BY <1>2, <1>3

LEMMA DeleteStep ==
  ASSUME StorageAssumption, StorageInv, SectionInv, NEW n \in Names, Delete(n)
  PROVE  CallStep
<1> DEFINE h == FindHead(storage, n)
           work == AddChain(Begin(storage, list), h, NoBlock)
           change == [m \in {n} |-> <<>>]
<1>1. /\ call = Idle /\ state = "mounted" /\ n \notin DOMAIN writer /\ n \notin DOMAIN reader
      /\ h \in Block
      /\ Begins(work, change, writer, writer)
  BY DEF Delete, IsLocked
<1>2. PICK H, C : IsLayout(storage, list, writer, H, C)
  BY <1>1, Layouts
<1>3. h \in H /\ NameOf(storage[h]) = n
  BY <1>1, <1>2, FindHeadFinds, Sizes
<1>4. NameOf(storage[h]) \notin DOMAIN writer
  BY <1>1, <1>3
<1>5. work.ok
  <2>1. IsCall(storage, work, writer)
    BY <1>2, <1>3, <1>4, DeleteKeeps
  <2> HIDE DEF work
  <2> QED
    BY <2>1 DEF IsCall
<1>6. DOMAIN change = {n} /\ change[n] = <<>> /\ IsFunction(change)
  BY DEF IsFunction
<1>7. Changes(storage, work.writes, change)
  <2>1. work = AddChain(Begin(storage, list), h, NoBlock)
    OBVIOUS
  <2> HIDE DEF h, work, change
  <2> QED
    BY <1>2, <1>3, <1>6, <2>1, DeleteChanges
<1>8. IsUpdate(change)
  <2>1. <<>> \in Seq(Tags)
    OBVIOUS
  <2> QED
    BY <1>6, <2>1 DEF IsUpdate
<1> HIDE DEF work, change, h
<1>9. Spared(reader, change, writer, writer)
  BY <1>1, <1>6, Found DEF Spared
<1>10. OneCall(work, change, writer, writer)
  BY <1>1, <1>5, <1>7, <1>8, <1>9 DEF OneCall
<1> QED
  BY <1>1, <1>10 DEF CallStep

LEMMA RenameStep ==
  ASSUME StorageAssumption, StorageInv, SectionInv,
         NEW n \in Names, NEW to \in Names, Rename(n, to)
  PROVE  CallStep
<1> DEFINE h == FindHead(storage, n)
           taken == TakeBlocks(storage, list, 1)
           t == taken.blocks[1]
           head == RenameHead(storage, h, to)
           work == AddBlocks(Store(Begin(storage, taken.list), t, head), <<h>>)
           change == [m \in {n, to} |-> IF m = to THEN ContentOf(storage, h) ELSE <<>>]
<1>1. /\ call = Idle /\ state = "mounted"
      /\ n \notin DOMAIN writer /\ n \notin DOMAIN reader
      /\ to \notin DOMAIN writer /\ to \notin DOMAIN reader
      /\ h \in Block /\ FindHead(storage, to) = NoBlock /\ list.n > 0
      /\ IF taken.ok THEN Begins(work, change, writer, writer)
         ELSE state' = "defect" /\ UNCHANGED <<storage, aux, list, writer, reader, call>>
  BY DEF Rename, IsLocked, RenameHead
<1>2. PICK H, C : IsLayout(storage, list, writer, H, C)
  BY <1>1, Layouts
<1>3. h \in H /\ NameOf(storage[h]) = n
  BY <1>1, <1>2, FindHeadFinds, Sizes
<1>4. NameOf(storage[h]) \notin DOMAIN writer
  BY <1>1, <1>3
<1>5. \A g \in H : NameOf(storage[g]) # to
  <2>1. H \subseteq Block
    BY <1>2 DEF IsLayout
  <2> QED
    BY <1>1, <1>2, <2>1, FindHeadFinds, Sizes
<1>6. n # to
  BY <1>3, <1>5
<1>7. ContentOf(storage, h) \in Seq(Tags)
  <2>1. HeadsIn(storage) = H /\ IsStorage(storage)
    BY <1>2, LayoutBlocks DEF IsLayout
  <2> QED
    BY <1>3, <2>1, ContentTyped
<1> HIDE DEF h
<1>8. taken.ok /\ IsCall(storage, work, writer)
  BY <1>1, <1>2, <1>3, <1>4, <1>5, RenameKeeps
<1>9. work.ok
  <2> HIDE DEF work
  <2> QED
    BY <1>8 DEF IsCall
<1>10. /\ DOMAIN change = {n, to} /\ change[to] = ContentOf(storage, h) /\ change[n] = <<>>
       /\ IsFunction(change)
  BY <1>6 DEF IsFunction
<1>11. Changes(storage, work.writes, change)
  <2>1. work = RenamingWork(storage, list, h, to) /\ IsUnused(storage, H, to)
    BY <1>5 DEF RenamingWork, IsUnused
  <2>2. /\ StorageAssumption /\ IsLayout(storage, list, writer, H, C) /\ h \in H /\ to \in Names
        /\ list.n > 0 /\ n = NameOf(storage[h])
        /\ DOMAIN change = {n, to} /\ change[to] = ContentOf(storage, h) /\ change[n] = <<>>
    BY <1>1, <1>2, <1>3, <1>10
  <2> HIDE DEF taken, t, head, work, change
  <2> QED
    BY ONLY <2>1, <2>2, RenameChanges
<1>12. IsUpdate(change)
  <2>1. <<>> \in Seq(Tags)
    OBVIOUS
  <2> HIDE DEF change
  <2> QED
    BY <1>7, <1>10, <2>1 DEF IsUpdate
<1>13. Begins(work, change, writer, writer)
  BY <1>1, <1>8
<1> HIDE DEF work, change
<1>14. Spared(reader, change, writer, writer)
  BY <1>1, <1>10, Found DEF Spared
<1>15. OneCall(work, change, writer, writer)
  BY <1>9, <1>11, <1>12, <1>13, <1>14 DEF OneCall
<1> QED
  BY <1>1, <1>15 DEF CallStep

(* As long as no head has the version before the wrap-round, the newer one  *)
(* of two heads has the greater version.                                   *)
NoWrapIn(st) == \A b \in HeadsIn(st) : VersionOf(st[b]) # MaxVersion

LEMMA NewerIs ==
  ASSUME StorageAssumption, NEW st, IsStorage(st), NoWrapIn(st),
         NEW b \in HeadsIn(st), NEW c \in HeadsIn(st)
  PROVE  /\ Newer(VersionOf(st[b]), VersionOf(st[c])) <=> VersionOf(st[c]) < VersionOf(st[b])
         /\ VersionOf(st[b]) \in Nat
<1> DEFINE v == VersionOf(st[b])
           w == VersionOf(st[c])
<1>1. v \in 0..MaxVersion /\ w \in 0..MaxVersion /\ v # MaxVersion /\ w # MaxVersion
  BY VersionsIn DEF NoWrapIn
<1>2. MaxVersion \in Nat
  BY DEF MaxVersion, StorageAssumption
<1> HIDE DEF v, w
<1>3. v \in Nat /\ w \in Nat /\ (Newer(v, w) <=> w < v)
  BY <1>1, <1>2 DEF Newer
<1> QED
  BY <1>3 DEF v, w

LEMMA LosesIs ==
  ASSUME StorageAssumption, NEW st, IsStorage(st), NoWrapIn(st),
         NEW b \in HeadsIn(st), NEW c \in HeadsIn(st), VersionOf(st[b]) # VersionOf(st[c])
  PROVE  Loses(st, b, c) => VersionOf(st[b]) < VersionOf(st[c])
<1>1. /\ Newer(VersionOf(st[b]), VersionOf(st[c])) <=> VersionOf(st[c]) < VersionOf(st[b])
      /\ Newer(VersionOf(st[c]), VersionOf(st[b])) <=> VersionOf(st[b]) < VersionOf(st[c])
      /\ VersionOf(st[b]) \in Nat /\ VersionOf(st[c]) \in Nat
  BY NewerIs
<1> QED
  BY <1>1 DEF Loses

(* What the search by name looks at *)
LEMMA SameNameIs ==
  ASSUME NEW st, IsStorage(st), NEW b \in Block, NEW name \in Names, st[b].ok
  PROVE  SameName(st, name, b) <=> b \in HeadsIn(st) /\ NameOf(st[b]) = name
<1>1. st[b] \in Content
  BY DEF IsStorage, Damaged
<1>2. st[b].ok = TRUE /\ (st[b].type = "head" => st[b].hash = Hash[NameOf(st[b])])
  BY <1>1, ContentFields
<1> QED
  BY <1>2 DEF SameName, HeadsIn, IsReadable

IsHit(st, name, h) == h \in HeadsIn(st) /\ NameOf(st[h]) = name
IsDamaged(st) == \E b \in Block : ~st[b].ok

(* What the search has found in the blocks up to n *)
NewestUpTo(st, name, h, n) ==
  \/ h = NoBlock /\ \A x \in Block : x <= n => ~SameName(st, name, x)
  \/ h = Unreadable /\ IsDamaged(st)
  \/ /\ IsHit(st, name, h) /\ h <= n
     /\ \A x \in Block : x <= n /\ SameName(st, name, x) /\ x # h =>
          IsHit(st, name, x) /\ VersionOf(st[x]) < VersionOf(st[h])

LEMMA NewestNext ==
  ASSUME StorageAssumption, NEW st, IsStorage(st), FewRivals(st), NoWrapIn(st), NEW name \in Names,
         NEW n \in Nat, NEW b \in Block, b = n + 1, NEW h, NewestUpTo(st, name, h, n),
         NEW g, g = NewestStep(st, name, h, b)
  PROVE  NewestUpTo(st, name, g, b)
<1>0. /\ \A x \in Block : x \in Nat /\ (x <= b <=> x <= n \/ x = b)
      /\ NoBlock \notin Block /\ Unreadable \notin Block /\ Ambiguous \notin Block
      /\ NoBlock # Unreadable /\ NoBlock # Ambiguous /\ Unreadable # Ambiguous
      /\ HeadsIn(st) \subseteq Block
  BY Sizes DEF Block, HeadsIn
<1>1. CASE ~SameName(st, name, b)
  <2>1. g = h
    BY <1>1 DEF NewestStep
  <2> QED
    BY <1>0, <1>1, <2>1 DEF NewestUpTo, IsHit
<1>2. CASE h = Unreadable /\ IsDamaged(st)
  <2>1. g = h
    BY <1>2 DEF NewestStep
  <2> QED
    BY <1>2, <2>1 DEF NewestUpTo
<1>3. CASE SameName(st, name, b) /\ h # Unreadable /\ ~st[b].ok
  <2>1. h # Ambiguous
    BY <1>0, <1>3 DEF NewestUpTo, IsHit
  <2>2. g = Unreadable
    BY <1>3, <2>1 DEF NewestStep
  <2> QED
    BY <1>3, <2>2 DEF NewestUpTo, IsDamaged
<1>4. CASE SameName(st, name, b) /\ h # Unreadable /\ st[b].ok
  <2>1. IsHit(st, name, b)
    BY <1>4, SameNameIs DEF IsHit
  <2>2. CASE h = NoBlock
    <3>1. \A x \in Block : x <= n => ~SameName(st, name, x)
      BY <1>0, <2>2 DEF NewestUpTo, IsHit
    <3>2. g = b
      BY <1>0, <1>4, <2>2 DEF NewestStep
    <3> QED
      BY <1>0, <2>1, <3>1, <3>2 DEF NewestUpTo
  <2>3. CASE h # NoBlock
    <3>1. /\ IsHit(st, name, h) /\ h <= n
          /\ \A x \in Block : x <= n /\ SameName(st, name, x) /\ x # h =>
               IsHit(st, name, x) /\ VersionOf(st[x]) < VersionOf(st[h])
      BY <1>4, <2>3 DEF NewestUpTo
    <3>2. h \in HeadsIn(st) /\ b \in HeadsIn(st) /\ NameOf(st[h]) = NameOf(st[b]) /\ h \in Block
      BY <1>0, <2>1, <3>1 DEF IsHit
    <3>3. h # b
      BY <1>0, <3>1, <3>2
    <3>4. VersionOf(st[b]) # VersionOf(st[h])
      BY <3>2, <3>3 DEF FewRivals, Rivals
    <3>5. g = IF Newer(VersionOf(st[b]), VersionOf(st[h])) THEN b ELSE h
      BY <1>0, <1>4, <2>3, <3>2, <3>4 DEF NewestStep
    <3>6. /\ Newer(VersionOf(st[b]), VersionOf(st[h])) <=> VersionOf(st[h]) < VersionOf(st[b])
          /\ VersionOf(st[b]) \in Nat /\ VersionOf(st[h]) \in Nat
      BY <3>2, NewerIs
    <3>7. \A x \in Block : IsHit(st, name, x) => VersionOf(st[x]) \in Nat
      BY NewerIs DEF IsHit
    <3>8. CASE VersionOf(st[h]) < VersionOf(st[b])
      <4>1. g = b
        BY <3>5, <3>6, <3>8
      <4>2. \A x \in Block : x <= b /\ SameName(st, name, x) /\ x # b =>
               IsHit(st, name, x) /\ VersionOf(st[x]) < VersionOf(st[b])
        BY <1>0, <3>1, <3>6, <3>7, <3>8
      <4> QED
        BY <1>0, <2>1, <4>1, <4>2 DEF NewestUpTo
    <3>9. CASE ~ (VersionOf(st[h]) < VersionOf(st[b]))
      <4>1. g = h
        BY <3>5, <3>6, <3>9
      <4>2. VersionOf(st[b]) < VersionOf(st[h])
        BY <3>4, <3>6, <3>9
      <4>3. \A x \in Block : x <= b /\ SameName(st, name, x) /\ x # h =>
               IsHit(st, name, x) /\ VersionOf(st[x]) < VersionOf(st[h])
        BY <1>0, <2>1, <3>1, <4>2
      <4> QED
        BY <1>0, <3>1, <3>2, <4>1, <4>3 DEF NewestUpTo
    <3> QED
      BY <3>8, <3>9
  <2> QED
    BY <2>2, <2>3
<1> QED
  BY <1>0, <1>1, <1>2, <1>3, <1>4 DEF NewestUpTo, IsHit

(* What the confirmation has found in the blocks up to n *)
ConfirmedUpTo(st, x, h, n) ==
  \/ h = Unreadable /\ IsDamaged(st)
  \/ h = NoBlock /\ \E y \in HeadsIn(st) : Rivals(st, y, x) /\ VersionOf(st[x]) < VersionOf(st[y])
  \/ h = x /\ \A y \in Block : y <= n /\ SharesNext(st, x, y) =>
                                 y \in HeadsIn(st) /\ VersionOf(st[y]) < VersionOf(st[x])

LEMMA ConfirmNext ==
  ASSUME StorageAssumption, NEW st, IsStorage(st), FewRivals(st), NoWrapIn(st),
         NEW x \in HeadsIn(st),
         NEW n \in Nat, NEW b \in Block, b = n + 1, NEW h, ConfirmedUpTo(st, x, h, n),
         NEW g, g = ConfirmStep(st, x, h, b)
  PROVE  ConfirmedUpTo(st, x, g, b)
<1>0. /\ \A y \in Block : y \in Nat /\ (y <= b <=> y <= n \/ y = b)
      /\ NoBlock \notin Block /\ Unreadable \notin Block /\ x \in Block /\ NoBlock # Unreadable
  BY Sizes DEF Block, HeadsIn
<1>1. CASE h # x
  <2>1. g = h
    BY <1>1 DEF ConfirmStep
  <2> QED
    BY <1>1, <2>1 DEF ConfirmedUpTo
<1>2. CASE h = x
  <2>1. \A y \in Block : y <= n /\ SharesNext(st, x, y) =>
                           y \in HeadsIn(st) /\ VersionOf(st[y]) < VersionOf(st[x])
    BY <1>0, <1>2 DEF ConfirmedUpTo
  <2>2. CASE ~SharesNext(st, x, b)
    <3>1. g = x
      BY <1>2, <2>2 DEF ConfirmStep
    <3> QED
      BY <1>0, <2>1, <2>2, <3>1 DEF ConfirmedUpTo
  <2>3. CASE SharesNext(st, x, b) /\ ~st[b].ok
    <3>1. g = Unreadable
      BY <1>2, <2>3 DEF ConfirmStep
    <3> QED
      BY <2>3, <3>1 DEF ConfirmedUpTo, IsDamaged
  <2>4. CASE SharesNext(st, x, b) /\ st[b].ok
    <3>1. b \in HeadsIn(st) /\ Rivals(st, b, x)
      BY <2>4 DEF SharesNext, HeadsIn, IsReadable, Rivals
    <3>2. VersionOf(st[b]) # VersionOf(st[x])
      BY <3>1 DEF FewRivals
    <3>3. g = IF Newer(VersionOf(st[b]), VersionOf(st[x])) THEN NoBlock ELSE x
      BY <1>2, <2>4, <3>2 DEF ConfirmStep
    <3>4. /\ Newer(VersionOf(st[b]), VersionOf(st[x])) <=> VersionOf(st[x]) < VersionOf(st[b])
          /\ VersionOf(st[b]) \in Nat /\ VersionOf(st[x]) \in Nat
      BY <3>1, NewerIs
    <3>5. CASE VersionOf(st[x]) < VersionOf(st[b])
      BY <3>1, <3>3, <3>4, <3>5 DEF ConfirmedUpTo
    <3>6. CASE ~ (VersionOf(st[x]) < VersionOf(st[b]))
      <4>1. g = x /\ VersionOf(st[b]) < VersionOf(st[x])
        BY <3>2, <3>3, <3>4, <3>6
      <4> QED
        BY <1>0, <2>1, <3>1, <4>1 DEF ConfirmedUpTo
    <3> QED
      BY <3>5, <3>6
  <2> QED
    BY <2>2, <2>3, <2>4
<1> QED
  BY <1>1, <1>2

LEMMA NewestSearched ==
  ASSUME StorageAssumption, NEW st, IsStorage(st), FewRivals(st), NoWrapIn(st), NEW name \in Names,
         NEW up, NEW newest, NEW co, NewestRun(st, name, up, newest, co)
  PROVE  NewestUpTo(st, name, newest, NBlocks - 1)
<1>1. NBlocks - 1 \in Nat /\ Block = 1..(NBlocks - 1)
  BY Sizes DEF Block
<1> DEFINE S == {n \in Nat : n \in 0..(NBlocks - 1) => NewestUpTo(st, name, up[n], n)}
<1>2. 0 \in S
  BY <1>1 DEF NewestRun, NewestUpTo
<1>3. ASSUME NEW n \in Nat, n \in S PROVE n + 1 \in S
  <2>1. SUFFICES ASSUME n + 1 \in Block PROVE NewestUpTo(st, name, up[n + 1], n + 1)
    BY <1>1
  <2>2. (n + 1) - 1 = n /\ n \in 0..(NBlocks - 1)
    BY <1>1, <2>1
  <2>3. NewestUpTo(st, name, up[n], n)
    BY <1>3, <2>2
  <2>4. up[n + 1] = NewestStep(st, name, up[n], n + 1)
    BY <2>1, <2>2 DEF NewestRun
  <2> HIDE DEF S
  <2> QED
    BY <2>1, <2>3, <2>4, NewestNext
<1>4. \A n \in Nat : n \in S
  <2> HIDE DEF S
  <2> QED
    BY <1>2, <1>3, SetInduction
<1>5. NewestUpTo(st, name, up[NBlocks - 1], NBlocks - 1)
  BY <1>1, <1>4
<1>6. newest = up[NBlocks - 1]
  BY DEF NewestRun
<1> QED
  BY <1>5, <1>6

LEMMA NewestConfirmed ==
  ASSUME StorageAssumption, NEW st, IsStorage(st), FewRivals(st), NoWrapIn(st), NEW name \in Names,
         NEW up, NEW newest, NEW co, NewestRun(st, name, up, newest, co), newest \in HeadsIn(st)
  PROVE  ConfirmedUpTo(st, newest, co[NBlocks - 1], NBlocks - 1)
<1>1. NBlocks - 1 \in Nat /\ Block = 1..(NBlocks - 1)
  BY Sizes DEF Block
<1> DEFINE S == {n \in Nat : n \in 0..(NBlocks - 1) => ConfirmedUpTo(st, newest, co[n], n)}
<1>2. 0 \in S
  BY <1>1 DEF NewestRun, ConfirmedUpTo
<1>3. ASSUME NEW n \in Nat, n \in S PROVE n + 1 \in S
  <2>1. SUFFICES ASSUME n + 1 \in Block PROVE ConfirmedUpTo(st, newest, co[n + 1], n + 1)
    BY <1>1
  <2>2. (n + 1) - 1 = n /\ n \in 0..(NBlocks - 1)
    BY <1>1, <2>1
  <2>3. ConfirmedUpTo(st, newest, co[n], n)
    BY <1>3, <2>2
  <2>4. co[n + 1] = ConfirmStep(st, newest, co[n], n + 1)
    BY <2>1, <2>2 DEF NewestRun
  <2> HIDE DEF S
  <2> QED
    BY <2>1, <2>3, <2>4, ConfirmNext
<1>4. \A n \in Nat : n \in S
  <2> HIDE DEF S
  <2> QED
    BY <1>2, <1>3, SetInduction
<1> QED
  BY <1>1, <1>4

(* Of two rivals the one with the smaller version does not count. *)
LEMMA OlderDead ==
  ASSUME StorageAssumption, NEW st, FewRivals(st), NoWrapIn(st),
         NEW H, NEW C, Alive(st, H, C),
         NEW x \in HeadsIn(st), NEW y \in HeadsIn(st), Rivals(st, y, x),
         VersionOf(st[x]) < VersionOf(st[y])
  PROVE  x \notin H
<1>1. Intact(st, H, C) /\ IsStorage(st)
  BY DEF Alive, Intact
<1>2. SUFFICES ASSUME x \in H PROVE FALSE
  OBVIOUS
<1>3. y # x
  BY DEF Rivals
<1>4. y \notin H
  BY <1>1, <1>2, <1>3 DEF Intact
<1>5. Loses(st, y, x)
  BY <1>2, <1>4 DEF Alive
<1>6. VersionOf(st[x]) \in Nat /\ VersionOf(st[y]) \in Nat
  BY <1>1, NewerIs
<1>7. VersionOf(st[y]) < VersionOf(st[x])
  BY <1>1, <1>5, <1>6, LosesIs
<1> QED
  BY <1>6, <1>7

(* A head whose rivals have smaller versions counts. *)
LEMMA NewerAlive ==
  ASSUME StorageAssumption, NEW st, NoWrapIn(st), NEW H, NEW C, Alive(st, H, C),
         NEW x \in HeadsIn(st),
         \A y \in HeadsIn(st) : Rivals(st, x, y) => VersionOf(st[y]) < VersionOf(st[x])
  PROVE  x \in H
<1>1. IsStorage(st) /\ H \subseteq HeadsIn(st)
  BY DEF Alive, Intact
<1>2. SUFFICES ASSUME x \notin H PROVE FALSE
  OBVIOUS
<1>3. PICK y \in H : Rivals(st, x, y) /\ Loses(st, x, y)
  BY <1>2 DEF Alive
<1>4. VersionOf(st[y]) < VersionOf(st[x])
  BY <1>1, <1>3
<1>5. VersionOf(st[x]) \in Nat /\ VersionOf(st[y]) \in Nat
  BY <1>1, NewerIs
<1>6. VersionOf(st[x]) < VersionOf(st[y])
  BY <1>1, <1>3, <1>4, <1>5, LosesIs
<1> QED
  BY <1>4, <1>5, <1>6

(* What Open() finds before MountStep2 is a section that counts, unless     *)
(* there is none of that name, or a block with a wrong checksum.           *)
LEMMA NewestFinds ==
  ASSUME StorageAssumption, NEW st, FewRivals(st), NoWrapIn(st), NEW H, NEW C, Alive(st, H, C),
         NEW name \in Names, NEW h, h = FindNewestHead(st, name)
  PROVE  \/ h = NoBlock /\ \A g \in H : NameOf(st[g]) # name
         \/ h = Unreadable /\ IsDamaged(st)
         \/ h \in H /\ NameOf(st[h]) = name
<1>1. \E up, newest, co : NewestRun(st, name, up, newest, co)
  BY NewestSteps
<1>1a. PICK up, newest, co : NewestRun(st, name, up, newest, co)
  BY <1>1
<1>2. IsStorage(st) /\ H \subseteq HeadsIn(st)
  BY DEF Alive, Intact
<1>3. /\ \A b \in Block : b <= NBlocks - 1
      /\ NoBlock \notin Block /\ Unreadable \notin Block /\ NoBlock # Unreadable
      /\ HeadsIn(st) \subseteq Block
  BY Sizes DEF Block, HeadsIn
<1>4. NewestUpTo(st, name, newest, NBlocks - 1)
  BY <1>1a, <1>2, NewestSearched
<1> DEFINE only == newest \in Block /\ \A b \in Block : SameName(st, name, b) => b = newest
<1>5. h = IF only THEN co[NBlocks - 1] ELSE newest
  BY <1>1a DEF NewestRun
<1>6. \A g \in H : NameOf(st[g]) = name => SameName(st, name, g)
  <2> SUFFICES ASSUME NEW g \in H, NameOf(st[g]) = name PROVE SameName(st, name, g)
    OBVIOUS
  <2>1. g \in HeadsIn(st) /\ g \in Block /\ st[g].ok
    BY <1>2, <1>3 DEF HeadsIn, IsReadable
  <2> QED
    BY <1>2, <2>1, SameNameIs
<1>7. CASE newest = NoBlock /\ \A x \in Block : x <= NBlocks - 1 => ~SameName(st, name, x)
  BY <1>2, <1>3, <1>5, <1>6, <1>7
<1>8. CASE newest = Unreadable /\ IsDamaged(st)
  BY <1>3, <1>5, <1>8
<1>9. CASE /\ IsHit(st, name, newest)
           /\ \A x \in Block : x <= NBlocks - 1 /\ SameName(st, name, x) /\ x # newest =>
                IsHit(st, name, x) /\ VersionOf(st[x]) < VersionOf(st[newest])
  <2>1. newest \in HeadsIn(st) /\ newest \in Block /\ NameOf(st[newest]) = name
    BY <1>3, <1>9 DEF IsHit
  <2>2. CASE ~only
    <3>1. PICK y \in Block : SameName(st, name, y) /\ y # newest
      BY <2>1, <2>2
    <3>2. y \in HeadsIn(st) /\ NameOf(st[y]) = name /\ VersionOf(st[y]) < VersionOf(st[newest])
      BY <1>3, <1>9, <3>1 DEF IsHit
    <3>3. Rivals(st, newest, y)
      BY <2>1, <3>1, <3>2 DEF Rivals
    <3>4. \A z \in HeadsIn(st) : Rivals(st, newest, z) => z = y
      BY <2>1, <3>2, <3>3 DEF FewRivals
    <3>5. newest \in H
      BY <2>1, <3>2, <3>4, NewerAlive
    <3> QED
      BY <1>5, <2>1, <2>2, <3>5
  <2>3. CASE only
    <3>1. ConfirmedUpTo(st, newest, co[NBlocks - 1], NBlocks - 1)
      BY <1>1a, <1>2, <2>1, NewestConfirmed
    <3>2. h = co[NBlocks - 1]
      BY <1>5, <2>3
    <3>3. CASE h = Unreadable /\ IsDamaged(st)
      BY <3>3
    <3>4. CASE h = NoBlock /\ \E y \in HeadsIn(st) :
                 Rivals(st, y, newest) /\ VersionOf(st[newest]) < VersionOf(st[y])
      <4>1. newest \notin H
        BY <2>1, <3>4, OlderDead
      <4> QED
        BY <1>2, <1>3, <1>6, <2>3, <3>4, <4>1
    <3>5. CASE h = newest /\ \A y \in Block : y <= NBlocks - 1 /\ SharesNext(st, newest, y) =>
                               y \in HeadsIn(st) /\ VersionOf(st[y]) < VersionOf(st[newest])
      <4>1. ASSUME NEW y \in HeadsIn(st), Rivals(st, newest, y)
            PROVE  VersionOf(st[y]) < VersionOf(st[newest])
        <5>1. y \in Block /\ y # newest /\ st[y].ok /\ st[y].type = "head"
          BY <4>1 DEF HeadsIn, IsReadable, Rivals
        <5>2. NameOf(st[y]) # name
          <6>1. NameOf(st[y]) = name => SameName(st, name, y)
            BY <1>2, <5>1, SameNameIs
          <6> QED
            BY <2>3, <5>1, <6>1
        <5>3. SharesNext(st, newest, y)
          BY <2>1, <4>1, <5>1, <5>2 DEF SharesNext, Rivals
        <5> QED
          BY <1>3, <3>5, <5>1, <5>3
      <4>2. newest \in H
        BY <2>1, <4>1, NewerAlive
      <4> QED
        BY <2>1, <3>5, <4>2
    <3> QED
      BY <3>1, <3>2, <3>3, <3>4, <3>5 DEF ConfirmedUpTo
  <2> QED
    BY <2>2, <2>3
<1> QED
  BY <1>4, <1>7, <1>8, <1>9 DEF NewestUpTo

SectionFits(st, c, s, V) ==
  /\ s.at = c /\ Len(c) \in Nat /\ Len(c) >= 2
  /\ s.is \in Seq(V) /\ Len(s.is) = Len(c) - 1
  /\ \A i \in 1..(Len(c) - 1) : s.is[i] = TagOf(st[c[i + 1]]) /\ TagOf(st[c[i + 1]]) \in V

LEMMA SectionFields ==
  ASSUME NEW st, NEW c, IsSection(st, c), NEW s, s = SectionAt(st, c)
  PROVE  \E V : SectionFits(st, c, s, V)
<1> DEFINE m == Len(c) - 1
           is == [i \in 1..m |-> TagOf(st[c[i + 1]])]
           V == {TagOf(st[c[i + 1]]) : i \in 1..m}
<1>1. Len(c) \in Nat /\ Len(c) >= 2 /\ m \in Nat
  BY DEF IsSection
<1>2. s.at = c /\ s.is = is
  BY DEF SectionAt, TagsAlong
<1>3. is \in [1..m -> V]
  OBVIOUS
<1>4. \A i \in 1..m : is[i] = TagOf(st[c[i + 1]]) /\ TagOf(st[c[i + 1]]) \in V
  OBVIOUS
<1> HIDE DEF is, V
<1>5. is \in Seq(V) /\ Len(is) = m
  BY <1>1, <1>3, IsSequence
<1>6. SectionFits(st, c, s, V)
  BY <1>1, <1>2, <1>4, <1>5 DEF SectionFits
<1> QED
  BY <1>6

HasRead(st, c, k, got, V) ==
  got \in Seq(V) /\ Len(got) = k /\ \A i \in 1..k : got[i] = TagOf(st[c[i + 1]])

(* A reader is placed: it has read k blocks. *)
LEMMA PlacedIs ==
  ASSUME NEW st, NEW c, NEW s, NEW V, SectionFits(st, c, s, V),
         NEW k \in 1..(Len(c) - 1), NEW r, HasRead(st, c, k, r.got, V),
         r.at = IF k + 1 < Len(c) THEN c[k + 2] ELSE NoBlock
  PROVE  Placed(r, s)
<1>1. /\ s.at = c /\ Len(c) \in Nat /\ Len(c) >= 2
      /\ s.is \in Seq(V) /\ Len(s.is) = Len(c) - 1
      /\ \A i \in 1..(Len(c) - 1) : s.is[i] = TagOf(st[c[i + 1]])
  BY DEF SectionFits
<1>0. /\ r.got \in Seq(V) /\ Len(r.got) = k
      /\ \A i \in 1..k : r.got[i] = TagOf(st[c[i + 1]])
  BY DEF HasRead
<1> DEFINE t == SubSeq(s.is, 1, k)
<1>2. t \in Seq(V) /\ Len(t) = k /\ \A i \in 1..k : t[i] = s.is[i]
  BY <1>1, SubSeqProperties
<1>3. \A i \in 1..k : r.got[i] = t[i]
  BY <1>0, <1>1, <1>2
<1> HIDE DEF t
<1>4. r.got = t
  BY <1>0, <1>2, <1>3, SeqEqual
<1> QED
  BY <1>0, <1>1, <1>4 DEF Placed, t

LEMMA FirstPlaced ==
  ASSUME NEW st, NEW c, IsSection(st, c), NEW s, s = SectionAt(st, c),
         NEW r, r.at = st[c[2]].next, r.got = <<TagOf(st[c[2]])>>
  PROVE  Placed(r, s)
<1>1. Len(c) \in Nat /\ Len(c) >= 2 /\ st[c[2]].next = IF 2 < Len(c) THEN c[3] ELSE NoBlock
  BY DEF IsSection
<1>2. PICK V : SectionFits(st, c, s, V)
  BY SectionFields
<1> DEFINE x == TagOf(st[c[2]])
<1>3. x \in V
  BY <1>1, <1>2 DEF SectionFits
<1>4. r.got = <<x>>
  OBVIOUS
<1> HIDE DEF x
<1>5. r.got \in Seq(V) /\ Len(r.got) = 1 /\ \A i \in 1..1 : r.got[i] = x
  BY <1>3, <1>4
<1>6. 1 \in 1..(Len(c) - 1) /\ r.at = IF 1 + 1 < Len(c) THEN c[1 + 2] ELSE NoBlock
  BY <1>1
<1>7. \A i \in 1..1 : r.got[i] = TagOf(st[c[i + 1]])
  BY <1>5 DEF x
<1>8. HasRead(st, c, 1, r.got, V)
  BY <1>5, <1>7 DEF HasRead
<1> QED
  BY <1>2, <1>6, <1>8, PlacedIs

LEMMA NextPlaced ==
  ASSUME NEW st, NEW c, IsSection(st, c), NEW s, s = SectionAt(st, c),
         NEW r, Placed(r, s), r.at # NoBlock,
         NEW q, q.at = st[r.at].next, q.got = Append(r.got, TagOf(st[r.at]))
  PROVE  Placed(q, s)
<1> DEFINE k == Len(r.got)
           x == TagOf(st[c[k + 2]])
<1>0. PICK V : SectionFits(st, c, s, V)
  BY SectionFields
<1>1. /\ s.at = c /\ Len(c) \in Nat /\ Len(c) >= 2
      /\ s.is \in Seq(V) /\ Len(s.is) = Len(c) - 1
      /\ \A i \in 1..(Len(c) - 1) : s.is[i] = TagOf(st[c[i + 1]]) /\ TagOf(st[c[i + 1]]) \in V
  BY <1>0 DEF SectionFits
<1>2. /\ k \in 1..(Len(c) - 1) /\ r.got = SubSeq(s.is, 1, k)
      /\ r.at = IF k < Len(c) - 1 THEN c[k + 2] ELSE NoBlock
  BY <1>1 DEF Placed
<1>3. k < Len(c) - 1 /\ r.at = c[k + 2] /\ k \in Nat /\ k >= 1
  BY <1>1, <1>2
<1>4. x = TagOf(st[r.at])
  BY <1>3
<1>5. x \in V
  <2>1. k + 1 \in 1..(Len(c) - 1) /\ (k + 1) + 1 = k + 2
    BY <1>1, <1>3
  <2> QED
    BY <1>1, <2>1
<1>5a. Len(r.got) = k
  OBVIOUS
<1> HIDE DEF k, x
<1>6. r.got \in Seq(V) /\ Len(r.got) = k /\ \A i \in 1..k : r.got[i] = TagOf(st[c[i + 1]])
  <2>1. SubSeq(s.is, 1, k) \in Seq(V) /\ \A i \in 1..k : SubSeq(s.is, 1, k)[i] = s.is[i]
    BY <1>1, <1>3, SubSeqProperties
  <2> QED
    BY <1>1, <1>2, <1>3, <1>5a, <2>1
<1>7. q.got \in Seq(V) /\ Len(q.got) = k + 1
      /\ \A i \in 1..(k + 1) : q.got[i] = TagOf(st[c[i + 1]])
  <2>1. q.got = Append(r.got, x)
    BY <1>4
  <2>2. q.got \in Seq(V) /\ Len(q.got) = k + 1 /\ q.got[k + 1] = x
        /\ \A i \in 1..k : q.got[i] = r.got[i]
    BY <1>3, <1>5, <1>6, <2>1, AppendProperties
  <2>3. x = TagOf(st[c[(k + 1) + 1]])
    <3>1. (k + 1) + 1 = k + 2
      BY <1>3
    <3> QED
      BY <3>1 DEF x
  <2>4. ASSUME NEW i \in 1..(k + 1) PROVE q.got[i] = TagOf(st[c[i + 1]])
    <3>1. CASE i = k + 1
      BY <2>2, <2>3, <3>1
    <3>2. CASE i # k + 1
      <4>1. i \in 1..k
        BY <1>3, <3>2
      <4> QED
        BY <1>6, <2>2, <4>1
    <3> QED
      BY <3>1, <3>2
  <2> QED
    BY <2>2, <2>4
<1>8. st[c[k + 2]].next = IF k + 2 < Len(c) THEN c[k + 3] ELSE NoBlock
  <2>1. k + 2 \in 2..Len(c)
    BY <1>1, <1>3
  <2>2. st[c[k + 2]].next = IF k + 2 < Len(c) THEN c[(k + 2) + 1] ELSE NoBlock
    BY <2>1 DEF IsSection
  <2> QED
    BY <1>3, <2>2
<1>9. k + 1 \in 1..(Len(c) - 1) /\ q.at = IF (k + 1) + 1 < Len(c) THEN c[(k + 1) + 2] ELSE NoBlock
  <2>1. (k + 1) + 1 = k + 2 /\ (k + 1) + 2 = k + 3
    BY <1>3
  <2> QED
    BY <1>1, <1>3, <1>8, <2>1
<1>10. HasRead(st, c, k + 1, q.got, V)
  BY <1>7 DEF HasRead
<1> QED
  BY <1>0, <1>9, <1>10, PlacedIs

LEMMA ImageHead ==
  ASSUME StorageAssumption, NEW st, NEW H, NEW C, Alive(st, H, C), NEW T, T = Image(st, H, C),
         NEW h \in H, NEW n \in Names, NameOf(st[h]) = n
  PROVE  /\ T[n] = SectionAt(st, C[h]) /\ IsSection(st, C[h]) /\ C[h][1] = h
         /\ SectionOf(st, h) = C[h] /\ ContentOf(st, h) = T[n].is
<1>1. Intact(st, H, C)
  BY DEF Alive
<1>2. T[n] = SectionAt(st, C[h])
  BY <1>1, ImageFields
<1>3. IsSection(st, C[h]) /\ C[h][1] = h
  BY <1>1 DEF Intact
<1>4. SectionOf(st, h) = C[h] /\ ContentOf(st, h) = TagsAlong(st, C[h])
  BY AliveLive
<1> QED
  BY <1>2, <1>3, <1>4 DEF SectionAt

LEMMA ImageNone ==
  ASSUME NEW st, NEW H, NEW C, Alive(st, H, C), NEW T, T = Image(st, H, C),
         NEW n \in Names, \A h \in H : NameOf(st[h]) # n
  PROVE  T[n] = NoSection
BY ImageFields DEF Alive

(* The sections that count, for what the storage shows *)
LEMMA QuietHeads ==
  ASSUME NEW st, NEW T, Quiet(st, <<>>, T)
  PROVE  \E H, C : Alive(st, H, C) /\ T = Image(st, H, C)
BY DEF Quiet

(* Open() finds a section that counts. *)
Finds(st, h, n, T) ==
  \E H, C : Alive(st, H, C) /\ T = Image(st, H, C) /\ h \in H /\ NameOf(st[h]) = n

LEMMA OpenFinds ==
  ASSUME StorageAssumption, StorageInv, call = Idle, MayRead, NEW n \in Names,
         NEW T, Quiet(storage, <<>>, T), NEW h \in Block,
         state \in {"ro_mount", "mounted"},
         h = IF state = "mounted" THEN FindHead(storage, n) ELSE FindNewestHead(storage, n)
  PROVE  Finds(storage, h, n, T)
<1>1. CASE state = "mounted"
  <2>1. PICK H, C : IsLayout(storage, list, writer, H, C)
    BY <1>1, Layouts
  <2>2. h = FindHead(storage, n)
    BY <1>1
  <2>3. h \in H /\ NameOf(storage[h]) = n
    BY <2>1, <2>2, FindHeadFinds, Sizes
  <2>4. Alive(storage, H, C)
    BY <2>1, LayoutAlive
  <2>5. Quiet(storage, <<>>, Image(storage, H, C))
    BY <2>4, AloneQuiet
  <2>6. T = Image(storage, H, C)
    BY <2>5, QuietUnique
  <2> QED
    BY <2>3, <2>4, <2>6 DEF Finds
<1>2. CASE state = "ro_mount"
  <2>1. PICK H, C : Alive(storage, H, C) /\ T = Image(storage, H, C)
    BY QuietHeads
  <2>2. h = FindNewestHead(storage, n)
    BY <1>2
  <2>3. FewRivals(storage)
    BY CompatibleFew DEF StorageInv
  <2>4. NoWrapIn(storage)
    BY <1>2 DEF MayRead, NoWrap, NoWrapIn
  <2>5. h # NoBlock /\ h # Unreadable
    BY Sizes
  <2>6. h \in H /\ NameOf(storage[h]) = n
    BY <2>1, <2>2, <2>3, <2>4, <2>5, NewestFinds
  <2> QED
    BY <2>1, <2>6 DEF Finds
<1> QED
  BY <1>1, <1>2

LEMMA OpenPlaced ==
  ASSUME StorageAssumption, NEW st, NEW T, NEW n \in Names, NEW h, Finds(st, h, n, T),
         NEW d, d = DataBlocksOf(st, h),
         NEW r, r.at = st[d[1]].next, r.got = <<TagOf(st[d[1]])>>
  PROVE  Placed(r, T[n])
<1>1. PICK H, C : Alive(st, H, C) /\ T = Image(st, H, C) /\ h \in H /\ NameOf(st[h]) = n
  BY DEF Finds
<1> DEFINE c == C[h]
<1>2. T[n] = SectionAt(st, c) /\ IsSection(st, c) /\ SectionOf(st, h) = c
  BY <1>1, ImageHead
<1>3. c \in Seq(Block) /\ Len(c) >= 2
  BY <1>2 DEF IsSection
<1>4. d = Tail(c)
  BY <1>2 DEF DataBlocksOf
<1> HIDE DEF c
<1>5. d[1] = c[2]
  BY <1>3, <1>4
<1>6. r.at = st[c[2]].next /\ r.got = <<TagOf(st[c[2]])>>
  BY <1>5
<1> QED
  BY <1>2, <1>6, FirstPlaced

LEMMA ReadPlaced ==
  ASSUME StorageAssumption, NEW st, NEW T, Quiet(st, <<>>, T), NEW n \in Names,
         NEW r, Placed(r, T[n]), r.at # NoBlock,
         NEW q, q.at = st[r.at].next, q.got = Append(r.got, TagOf(st[r.at]))
  PROVE  Placed(q, T[n])
<1>1. PICK H, C : Alive(st, H, C) /\ T = Image(st, H, C)
  BY QuietHeads
<1>2. PICK h \in H : NameOf(st[h]) = n
  <2>1. T[n] # NoSection
    <3>1. Len(<<>>) = 0
      OBVIOUS
    <3>2. NoSection.is = <<>>
      BY DEF NoSection
    <3>3. 1..0 = {}
      OBVIOUS
    <3> QED
      BY <3>1, <3>2, <3>3 DEF Placed
  <2> QED
    BY <1>1, <2>1, ImageNone
<1>3. T[n] = SectionAt(st, C[h]) /\ IsSection(st, C[h])
  BY <1>1, <1>2, ImageHead
<1> QED
  BY <1>3, NextPlaced

(* EarlyReadsAreRight *)
LEMMA EarlyRight ==
  ASSUME StorageAssumption, StorageInv, SectionInv
  PROVE  EarlyReadsAreRight
<1> SUFFICES ASSUME state = "ro_mount", MayRead, NEW n \in Names PROVE EarlyReadIsRight(n)
  BY DEF EarlyReadsAreRight
<1> DEFINE h == FindNewestHead(storage, n)
<1>1. call = Idle /\ ~formatting /\ sections = Sections(storage)
  BY DEF SectionInv, Changing, MayRead
<1>2. PICK T : Quiet(storage, <<>>, T)
  BY <1>1 DEF SectionInv, Resting
<1>3. sections = Contents(T)
  BY <1>1, <1>2, QuietSections
<1>4. sections[n] = T[n].is
  BY <1>3 DEF Contents
<1>5. PICK H, C : Alive(storage, H, C) /\ T = Image(storage, H, C)
  BY <1>2, QuietHeads
<1>6. FewRivals(storage) /\ NoWrapIn(storage)
  BY CompatibleFew DEF StorageInv, MayRead, NoWrap, NoWrapIn
<1>7. \/ h = NoBlock /\ \A g \in H : NameOf(storage[g]) # n
      \/ h = Unreadable /\ IsDamaged(storage)
      \/ h \in H /\ NameOf(storage[h]) = n
  BY <1>5, <1>6, NewestFinds
<1>8. H \subseteq Block
  BY <1>5 DEF Alive, Intact, HeadsIn
<1> HIDE DEF h
<1>9. CASE h = NoBlock /\ \A g \in H : NameOf(storage[g]) # n
  <2>1. T[n] = NoSection
    BY <1>5, <1>9, ImageNone
  <2>2. sections[n] = <<>>
    BY <1>4, <2>1 DEF NoSection
  <2>3. h \notin Block /\ h # Unreadable
    BY <1>9, Sizes
  <2> QED
    BY <2>2, <2>3 DEF EarlyReadIsRight, h
<1>10. CASE h = Unreadable /\ IsDamaged(storage)
  <2>1. h \notin Block /\ h # NoBlock
    BY <1>10, Sizes
  <2>2. \E b \in Block : ~storage[b].ok
    BY <1>10 DEF IsDamaged
  <2> QED
    BY <2>1, <2>2 DEF EarlyReadIsRight, h
<1>11. CASE h \in H /\ NameOf(storage[h]) = n
  <2>1. ContentOf(storage, h) = sections[n]
    BY <1>4, <1>5, <1>11, ImageHead
  <2>2. h # NoBlock /\ h # Unreadable
    BY <1>8, <1>11, Sizes
  <2> QED
    BY <2>1, <2>2 DEF EarlyReadIsRight, h
<1> QED
  BY <1>7, <1>9, <1>10, <1>11

(* Only the readers change. *)
AllReaders(rd, wr) ==
  IsFunction(rd) /\ \A n \in DOMAIN rd : n \in Names /\ IsReader(rd[n]) /\ n \notin DOMAIN wr

LEMMA ReadersChange ==
  ASSUME SectionInv, call = Idle, UNCHANGED <<storage, aux, state, list, writer, call>>,
         AllReaders(reader', writer),
         DOMAIN reader' # {} => state \in {"ro_mount", "mounted", "defect"},
         \A T : Quiet(storage, <<>>, T) /\ MayRead /\ Reads(reader, T) => Reads(reader', T)
  PROVE  SectionInv'
<1>1. /\ storage' = storage /\ sections' = sections /\ formatting' = formatting
      /\ state' = state /\ writer' = writer /\ call' = call
  BY DEF aux
<1>2. ReadersApart'
  <2>1. IsFunction(reader')
    BY DEF AllReaders
  <2>2. \A n \in DOMAIN reader' : n \in Names /\ IsReader(reader'[n]) /\ n \notin DOMAIN writer'
    BY <1>1 DEF AllReaders
  <2>3. DOMAIN reader' # {} => state' \in {"ro_mount", "mounted", "defect"}
    BY <1>1
  <2> QED
    BY ONLY <2>1, <2>2, <2>3 DEF ReadersApart
<1>3. MayRead' = MayRead
  BY <1>1 DEF MayRead, NoWrap
<1>4. Resting'
  BY <1>1, <1>3 DEF Resting, SectionInv
<1> QED
  BY <1>1, <1>2, <1>4 DEF SectionInv

LEMMA OpenSections ==
  ASSUME StorageAssumption, StorageInv, SectionInv, NEW n \in Names, Open(n)
  PROVE  SectionInv' /\ state' = state
<1> DEFINE h == IF state = "mounted" THEN FindHead(storage, n) ELSE FindNewestHead(storage, n)
           d == DataBlocksOf(storage, h)
           r == [at |-> storage[d[1]].next, got |-> <<TagOf(storage[d[1]])>>, ok |-> TRUE]
<1>1. /\ call = Idle /\ state \in {"ro_mount", "mounted"} /\ n \notin DOMAIN writer
      /\ \/ h \in Block /\ reader' = With(reader, n, r) /\ UNCHANGED state
         \/ h = Ambiguous /\ UNCHANGED reader
      /\ UNCHANGED <<storage, aux, list, writer, call>>
  BY DEF Open
<1>2. h # Ambiguous
  <2>1. CASE state = "mounted"
    <3>1. PICK H, C : IsLayout(storage, list, writer, H, C)
      BY <1>1, <2>1, Layouts
    <3>2. H \subseteq Block
      BY <3>1 DEF IsLayout
    <3>3. FindHead(storage, n) \in Block \/ FindHead(storage, n) = NoBlock
      BY <3>1, <3>2, FindHeadFinds
    <3> QED
      BY <2>1, <3>3, Sizes
  <2>2. CASE state # "mounted"
    <3>1. IsStorage(storage) /\ FewRivals(storage)
      BY CompatibleFew DEF StorageInv
    <3>2. FindNewestHead(storage, n) # Ambiguous
      BY <3>1, NeverAmbiguous
    <3> QED
      BY <2>2, <3>2
  <2> QED
    BY <2>1, <2>2
<1>3. h \in Block /\ reader' = With(reader, n, r) /\ UNCHANGED state
  BY <1>1, <1>2
<1>4. r.at = storage[d[1]].next /\ r.got = <<TagOf(storage[d[1]])>> /\ IsReader(r)
      /\ d = DataBlocksOf(storage, h)
      /\ h = IF state = "mounted" THEN FindHead(storage, n) ELSE FindNewestHead(storage, n)
  BY DEF IsReader
<1> HIDE DEF h, d, r
<1>5. /\ DOMAIN reader' = DOMAIN reader \cup {n} /\ IsFunction(reader')
      /\ reader'[n] = r /\ \A m \in DOMAIN reader : m # n => reader'[m] = reader[m]
  BY <1>3 DEF With, IsFunction
<1>6. AllReaders(reader', writer)
  <2>1. \A m \in DOMAIN reader : m \in Names /\ IsReader(reader[m]) /\ m \notin DOMAIN writer
    BY DEF SectionInv, ReadersApart
  <2>2. \A m \in DOMAIN reader' : m \in Names /\ IsReader(reader'[m]) /\ m \notin DOMAIN writer
    BY <1>1, <1>4, <1>5, <2>1
  <2> QED
    BY <1>5, <2>2 DEF AllReaders
<1>7. ASSUME NEW T, Quiet(storage, <<>>, T), MayRead, Reads(reader, T)
      PROVE  Reads(reader', T)
  <2>1. Finds(storage, h, n, T)
    BY <1>1, <1>3, <1>4, <1>7, OpenFinds
  <2>2. Placed(r, T[n])
    BY <1>4, <2>1, OpenPlaced
  <2> QED
    BY <1>5, <1>7, <2>2 DEF Reads
<1> QED
  BY <1>1, <1>3, <1>6, <1>7, ReadersChange

LEMMA ReadSections ==
  ASSUME StorageAssumption, StorageInv, SectionInv, NEW n \in Names, Read(n)
  PROVE  SectionInv'
<1> DEFINE r == reader[n]
           good == /\ state \in {"ro_mount", "mounted"}
                   /\ IsReadable(storage[r.at], "data")
                   /\ SeqNbOf(storage[r.at]) = Len(r.got) + 1
           onward == [at |-> storage[r.at].next, got |-> Append(r.got, TagOf(storage[r.at])),
                      ok |-> r.ok]
           refused == [at |-> NoBlock, got |-> r.got, ok |-> FALSE]
           q == IF good THEN onward ELSE refused
<1>1. /\ call = Idle /\ n \in DOMAIN reader /\ r.at # NoBlock
      /\ reader' = With(reader, n, q)
      /\ UNCHANGED <<storage, aux, state, list, writer, call>>
  BY DEF Read
<1>3. IsReader(q) /\ (q.ok => /\ r.ok /\ q.at = storage[r.at].next
                              /\ q.got = Append(r.got, TagOf(storage[r.at])))
  <2>1. q = onward \/ q = refused
    OBVIOUS
  <2> HIDE DEF q
  <2> QED
    BY <2>1 DEF IsReader
<1> HIDE DEF q
<1>4. /\ DOMAIN reader' = DOMAIN reader /\ IsFunction(reader')
      /\ reader'[n] = q /\ \A m \in DOMAIN reader : m # n => reader'[m] = reader[m]
  BY <1>1 DEF With, IsFunction
<1>5. AllReaders(reader', writer)
  <2>1. \A m \in DOMAIN reader : m \in Names /\ IsReader(reader[m]) /\ m \notin DOMAIN writer
    BY DEF SectionInv, ReadersApart
  <2>2. \A m \in DOMAIN reader' : m \in Names /\ IsReader(reader'[m]) /\ m \notin DOMAIN writer
    BY <1>3, <1>4, <2>1
  <2> QED
    BY <1>4, <2>2 DEF AllReaders
<1>6. ASSUME NEW T, Quiet(storage, <<>>, T), MayRead, Reads(reader, T)
      PROVE  Reads(reader', T)
  <2>1. q.ok => Placed(q, T[n])
    <3> SUFFICES ASSUME q.ok PROVE Placed(q, T[n])
      OBVIOUS
    <3>1. Placed(r, T[n])
      BY <1>1, <1>3, <1>6 DEF Reads
    <3> QED
      BY <1>1, <1>3, <1>6, <3>1, ReadPlaced
  <2> QED
    BY <1>4, <1>6, <2>1 DEF Reads
<1>7. DOMAIN reader' # {} => state \in {"ro_mount", "mounted", "defect"}
  BY <1>4 DEF SectionInv, ReadersApart
<1> QED
  BY <1>1, <1>5, <1>6, <1>7, ReadersChange

LEMMA MountStep1Sections ==
  ASSUME StorageAssumption, StorageInv, SectionInv, MountStep1
  PROVE  SectionInv'
<1>1. /\ call = Idle /\ state = "not_mounted" /\ state' = "ro_mount"
      /\ UNCHANGED <<storage, aux, list, writer, reader, call>>
  BY DEF MountStep1
<1>2. DOMAIN reader = {}
  BY <1>1 DEF SectionInv, ReadersApart
<1> QED
  BY <1>1, <1>2, RestKeeps

LEMMA UnmountSections ==
  ASSUME SectionInv, Unmount
  PROVE  SectionInv'
<1>1. /\ call = Idle /\ state' = "not_mounted" /\ DOMAIN reader = {}
      /\ UNCHANGED <<storage, aux, list, writer, reader, call>>
  BY DEF Unmount, AnyLocks
<1> QED
  BY <1>1, RestKeeps

(* What a step of a call shows: the sections as they were or as they will  *)
(* be, and never again as they were.                                       *)
StepShows(st, st2, S, T) ==
  \/ Quiet(st, <<>>, S) /\ (Quiet(st2, <<>>, S) \/ Quiet(st2, <<>>, T))
  \/ Quiet(st, <<>>, T) /\ Quiet(st2, <<>>, T)

LEMMA AtomicStep ==
  ASSUME StorageAssumption, NEW st, NEW vs \in Seq(Writes), vs # <<>>, NEW S, NEW T,
         Atomic(st, vs, S, T),
         NEW st2 \in {st, Stored(st, Head(vs))} \cup CutsOff(st, Head(vs))
  PROVE  StepShows(st, st2, S, T)
<1> DEFINE st1 == Stored(st, Head(vs))
<1>1. CASE Soon0(st, vs, S, T)
  <2>1. Quiet(st, vs, T)
    BY <1>1 DEF Soon0
  <2>2. Quiet(st1, Tail(vs), T) /\ \A x \in CutsOff(st, Head(vs)) : Quiet(x, <<>>, T)
    BY <2>1, QuietStep
  <2> HIDE DEF st1
  <2>3. Quiet(st, <<>>, T) /\ Quiet(st1, <<>>, T)
    BY <2>1, <2>2, QuietAtAll
  <2> QED
    BY <2>2, <2>3 DEF StepShows, st1
<1>2. CASE ~Soon0(st, vs, S, T)
  <2>1. Quiet(st, <<>>, S)
    BY <1>2 DEF Atomic, Soon1, Soon2, Soon3, Before
  <2>2. /\ Atomic(st1, Tail(vs), S, T)
        /\ \A x \in CutsOff(st, Head(vs)) : Quiet(x, <<>>, S) \/ Quiet(x, <<>>, T)
    BY SoonSteps
  <2> HIDE DEF st1
  <2>3. Quiet(st1, <<>>, S) \/ Quiet(st1, <<>>, T)
    BY <2>2, AtomicShows
  <2> QED
    BY <2>1, <2>2, <2>3 DEF StepShows, st1
<1> QED
  BY <1>1, <1>2

(* Nobody reads, and no call is in progress after the step. *)
LEMMA RestsAlone ==
  ASSUME sections' = Sections(storage'), DOMAIN reader' = {}, IsFunction(reader'), call' = Idle,
         formatting' => state' # "mounted",
         ~formatting' => \E T : Quiet(storage', <<>>, T)
  PROVE  SectionInv'
<1>1. ReadersApart'
  BY DEF ReadersApart
<1>2. Resting'
  <2>1. SUFFICES ASSUME ~formatting'
                 PROVE  \E T : Quiet(storage', <<>>, T) /\ (MayRead' => Reads(reader', T))
    BY DEF Resting
  <2>2. PICK T : Quiet(storage', <<>>, T)
    BY <2>1
  <2>3. Reads(reader', T)
    BY NobodyReads
  <2> QED
    BY <2>2, <2>3
<1> QED
  BY <1>1, <1>2 DEF SectionInv

LEMMA MountedAgain ==
  ASSUME StorageAssumption, StorageInv', call' = Idle, state' = "mounted"
  PROVE  \E T : Quiet(storage', <<>>, T)
<1>1. IsMounted(storage', list', writer')
  BY DEF StorageInv, BetweenCalls
<1> QED
  BY <1>1, MountedQuiet

LEMMA MountStep2Sections ==
  ASSUME StorageAssumption, StorageInv, SectionInv, MountStep2
  PROVE  SectionInv'
<1> DEFINE work == Repair(storage)
           c == [writes |-> work.writes, change |-> Nothing, state |-> "mounted",
                 list |-> work.list, writer |-> writer, lost |-> writer]
<1>1. call = Idle /\ DOMAIN writer = {} /\ DOMAIN reader = {}
  BY DEF MountStep2, AnyLocks
<1>2. IsStorage(storage) /\ FewRivals(storage)
  BY CompatibleFew DEF StorageInv
<1>3. IsCall(storage, work, writer)
  BY <1>1, <1>2, RepairKeeps
<1>4. work.ok
  BY <1>3 DEF IsCall
<1>5. /\ storage' = storage /\ sections' = sections /\ reader' = reader /\ writer' = writer
      /\ IF work.writes = <<>>
         THEN state' = "mounted" /\ call' = call /\ formatting' = FALSE
         ELSE state' = "checking" /\ call' = c /\ formatting' = formatting
  BY <1>4 DEF MountStep2
<1>6. sections' = Sections(storage') /\ IsFunction(reader)
  BY <1>5 DEF SectionInv, ReadersApart
<1>7. CASE work.writes = <<>>
  <2>1. StorageInv'
    BY MountStep2Fine DEF Fine
  <2>2. \E T : Quiet(storage', <<>>, T)
    BY <1>1, <1>5, <1>7, <2>1, MountedAgain
  <2> QED
    BY <1>1, <1>5, <1>6, <1>7, <2>2, RestsAlone
<1>8. CASE work.writes # <<>>
  <2> DEFINE vs == work.writes
  <2>1. IsNewCall(c, vs, Nothing, work.list, writer, writer)
    BY DEF IsNewCall
  <2>2. ~formatting => \E T : Quiet(storage, vs, T)
    <3>1. SUFFICES ASSUME ~formatting PROVE \E T : Quiet(storage, vs, T)
      OBVIOUS
    <3>2. PICK T : Quiet(storage, <<>>, T)
      BY <1>1, <3>1 DEF SectionInv, Resting
    <3>3. Quiet(storage, work.writes, T)
      BY <1>2, <3>2, RepairQuiet
    <3> QED
      BY <3>3
  <2>3. call' = c /\ state' = "checking" /\ formatting' = formatting
    BY <1>5, <1>8
  <2>4. vs # <<>>
    BY <1>8
  <2> HIDE DEF c, vs, work
  <2>5. c.writes = vs /\ c.change = Nothing /\ c.writer = writer /\ c.lost = writer /\ c # Idle
    BY <2>1, <2>4, CallFields
  <2>6. IsUpdate(c.change) /\ Untouched(reader, c)
    BY <1>1, <2>5, NothingUpdates DEF Untouched
  <2>7. ~formatting => \E S, T : /\ Atomic(storage, c.writes, S, T)
                                 /\ Becomes(S, T, c.change) /\ Reads(reader, S)
    <3>1. SUFFICES ASSUME ~formatting
                   PROVE  \E S, T : /\ Atomic(storage, c.writes, S, T)
                                    /\ Becomes(S, T, c.change) /\ Reads(reader, S)
      OBVIOUS
    <3>2. PICK T : Quiet(storage, vs, T)
      BY <2>2, <3>1
    <3>3. Atomic(storage, vs, T, T)
      BY <3>2 DEF Atomic, Soon0
    <3>4. Becomes(T, T, Nothing) /\ Reads(reader, T)
      BY <1>1, BecomesNothing, NobodyReads
    <3> QED
      BY <2>5, <3>3, <3>4
  <2>8. Changing'
    BY <1>1, <1>5, <2>3, <2>5, <2>6, <2>7 DEF Changing
  <2>9. ReadersApart'
    BY <1>1, <1>5, <1>6 DEF ReadersApart
  <2> QED
    BY <1>6, <2>3, <2>5, <2>8, <2>9 DEF SectionInv
<1> QED
  BY <1>7, <1>8

LEMMA FormatSections ==
  ASSUME StorageAssumption, StorageInv, SectionInv, Format
  PROVE  SectionInv'
<1> DEFINE change == [n \in Names |-> <<>>]
           vs == FormatWrites
           c == [writes |-> vs, change |-> change, state |-> "mounted",
                 list |-> AllFree, writer |-> Nothing, lost |-> Nothing]
<1>1. call = Idle /\ state = "not_mounted" /\ call' = c
      /\ storage' = storage /\ sections' = sections /\ state' = state
      /\ writer' = writer /\ reader' = reader /\ formatting' = TRUE
  BY DEF Format, FormatWrites
<1>2. DOMAIN reader = {} /\ IsFunction(reader) /\ sections = Sections(storage)
  BY <1>1 DEF SectionInv, ReadersApart
<1>3. IsStorage(storage) /\ DOMAIN Nothing = {}
  BY DEF StorageInv, Nothing
<1>4. vs # <<>> /\ HeadsIn(After(storage, vs)) = {}
  BY <1>3, FormatKeeps
<1>5. IsNewCall(c, vs, change, AllFree, Nothing, Nothing)
  BY DEF IsNewCall
<1>6. IsUpdate(change)
  <2>1. <<>> \in Seq(Tags)
    OBVIOUS
  <2> QED
    BY <2>1 DEF IsUpdate, IsFunction
<1>7. change = [n \in Names |-> <<>>]
  OBVIOUS
<1> HIDE DEF c, vs, change
<1>8. c.writes = vs /\ c.change = change /\ c.writer = Nothing /\ c.lost = Nothing /\ c # Idle
  BY <1>4, <1>5, CallFields
<1>9. Clearing(c, storage) /\ Untouched(reader, c) /\ IsUpdate(c.change)
  BY <1>2, <1>4, <1>6, <1>7, <1>8 DEF Clearing, Untouched
<1>10. Changing'
  BY <1>1, <1>2, <1>9 DEF Changing
<1>11. ReadersApart'
  BY <1>1, <1>2 DEF ReadersApart
<1> QED
  BY <1>1, <1>2, <1>8, <1>10, <1>11 DEF SectionInv

(* What the storage may hold after a step of the call in progress *)
LEMMA CutOffIs ==
  ASSUME NEW st2 \in CutOff
  PROVE  /\ call = Idle => st2 = storage
         /\ call # Idle => st2 \in {storage, Stored(storage, Head(call.writes))}
                                     \cup CutsOff(storage, Head(call.writes))
BY DEF CutOff, CutsOff

LEMMA InCall ==
  ASSUME StorageInv, SectionInv, call # Idle
  PROVE  /\ call.writes \in Seq(Writes) /\ call.writes # <<>> /\ IsStorage(storage)
         /\ call.state = "mounted" /\ Changing /\ ReadersApart /\ IsCallRecord(call)
<1>1. DuringCall /\ Changing /\ ReadersApart /\ IsStorage(storage)
  BY DEF StorageInv, SectionInv
<1>2. /\ call = [writes |-> call.writes, change |-> call.change, state |-> "mounted",
                 list |-> call.list, writer |-> call.writer, lost |-> call.lost]
      /\ call.writes \in Seq(Writes) /\ call.writes # <<>>
  BY <1>1 DEF DuringCall, IsPending
<1>3. call.state = "mounted"
  BY <1>2
<1> QED
  BY <1>1, <1>2, <1>3 DEF IsCallRecord

(* The sections that a call may leave, if it is cut off or returns. *)
LEMMA Leaves ==
  ASSUME StorageAssumption, StorageInv, SectionInv, call # Idle, ~formatting,
         NEW st2 \in {storage, Stored(storage, Head(call.writes))}
                       \cup CutsOff(storage, Head(call.writes))
  PROVE  \E S, T, U : /\ StepShows(storage, st2, S, T) /\ Becomes(S, T, call.change)
                      /\ U \in {S, T} /\ Quiet(st2, <<>>, U) /\ Reads(reader, U)
<1>1. call.writes \in Seq(Writes) /\ call.writes # <<>> /\ Changing /\ ReadersApart
  BY InCall
<1>2. PICK S, T : /\ Atomic(storage, call.writes, S, T)
                  /\ Becomes(S, T, call.change) /\ Reads(reader, S)
  BY <1>1 DEF Changing
<1>3. StepShows(storage, st2, S, T)
  BY <1>1, <1>2, AtomicStep
<1>4. Reads(reader, T)
  BY <1>1, <1>2, ReadsOn DEF Changing, Untouched, ReadersApart
<1>5. \E U \in {S, T} : Quiet(st2, <<>>, U)
  BY <1>3 DEF StepShows
<1> QED
  BY <1>2, <1>3, <1>4, <1>5

(* The call has been cut off. *)
LEMMA PowerFailSections ==
  ASSUME StorageAssumption, StorageInv, SectionInv, PowerFail
  PROVE  SectionInv'
<1>1. /\ storage' \in CutOff /\ sections' = Sections(storage') /\ state' = "not_mounted"
      /\ reader' = Nothing /\ call' = Idle /\ formatting' = formatting
  BY DEF PowerFail
<1>2. DOMAIN reader' = {} /\ IsFunction(reader')
  BY <1>1 DEF Nothing, IsFunction
<1>3. ~formatting => \E T : Quiet(storage', <<>>, T)
  <2>1. CASE call = Idle
    <3>1. storage' = storage
      BY <1>1, <2>1, CutOffIs
    <3> QED
      BY <2>1, <3>1 DEF SectionInv, Resting
  <2>2. CASE call # Idle /\ ~formatting
    BY <1>1, <2>2, CutOffIs, Leaves
  <2> QED
    BY <2>1, <2>2
<1> QED
  BY <1>1, <1>2, <1>3, RestsAlone

LEMMA WriteFailsSections ==
  ASSUME StorageAssumption, StorageInv, SectionInv, WriteFails
  PROVE  SectionInv'
<1> DEFINE st1 == Stored(storage, Head(call.writes))
<1>1. /\ call # Idle /\ storage' \in CutOff \cup {st1} /\ sections' = Sections(storage')
      /\ state' = IF state = "not_mounted" THEN "not_mounted" ELSE "defect"
      /\ writer' = call.lost /\ call' = Idle
      /\ reader' = reader /\ formatting' = formatting
  BY DEF WriteFails, Stored
<1>2. storage' \in {storage, st1} \cup CutsOff(storage, Head(call.writes))
  BY <1>1, CutOffIs
<1>3. Changing /\ ReadersApart
  BY <1>1, InCall
<1> HIDE DEF st1
<1>4. ~formatting => \E T : Quiet(storage', <<>>, T) /\ Reads(reader, T)
  <2>1. SUFFICES ASSUME ~formatting PROVE \E T : Quiet(storage', <<>>, T) /\ Reads(reader, T)
    OBVIOUS
  <2>2. \E S, T, U : /\ StepShows(storage, storage', S, T) /\ Becomes(S, T, call.change)
                     /\ U \in {S, T} /\ Quiet(storage', <<>>, U) /\ Reads(reader, U)
    BY <1>1, <1>2, <2>1, Leaves DEF st1
  <2> QED
    BY <2>2
<1>5. Resting'
  <2>1. SUFFICES ASSUME ~formatting
                 PROVE  \E T : Quiet(storage', <<>>, T) /\ (MayRead' => Reads(reader, T))
    BY <1>1 DEF Resting
  <2> QED
    BY <1>4, <2>1
<1>6. ReadersApart'
  <2>1. /\ IsFunction(reader)
        /\ \A n \in DOMAIN reader : n \in Names /\ IsReader(reader[n])
        /\ DOMAIN reader # {} => state \in {"ro_mount", "mounted", "defect"}
    BY <1>3 DEF ReadersApart
  <2>2. \A n \in DOMAIN reader : n \notin DOMAIN call.lost
    BY <1>3 DEF Changing, Untouched
  <2>3. DOMAIN reader # {} => state' = "defect"
    BY <1>1, <2>1
  <2> QED
    BY <1>1, <2>1, <2>2, <2>3 DEF ReadersApart
<1>7. formatting' => state' # "mounted"
  BY <1>1
<1> QED
  BY <1>1, <1>5, <1>6, <1>7 DEF SectionInv

LEMMA StoreBlockSections ==
  ASSUME StorageAssumption, StorageInv, SectionInv, StoreBlock
  PROVE  SectionInv'
<1> DEFINE vs == call.writes
           st2 == Stored(storage, Head(vs))
<1>1. /\ call # Idle /\ storage' = st2 /\ sections' = Sections(storage') /\ reader' = reader
      /\ IF Len(vs) > 1
         THEN /\ call' = [call EXCEPT !.writes = Tail(@)]
              /\ UNCHANGED <<state, list, writer, formatting>>
         ELSE /\ call' = Idle /\ formatting' = FALSE
              /\ state' = call.state /\ writer' = call.writer
  BY DEF StoreBlock, Stored
<1>2. /\ vs \in Seq(Writes) /\ vs # <<>> /\ IsStorage(storage) /\ call.state = "mounted"
      /\ Changing /\ ReadersApart /\ IsCallRecord(call)
  BY <1>1, InCall
<1>3. /\ state \in {"mounted", "checking", "not_mounted"}
      /\ IsUpdate(call.change) /\ Untouched(reader, call)
      /\ formatting => DOMAIN reader = {} /\ (call.change = Nothing \/ Clearing(call, storage))
  BY <1>2 DEF Changing
<1>4. CASE Len(vs) > 1
  <2> DEFINE t == Tail(vs)
             c == [writes |-> t, change |-> call.change, state |-> "mounted",
                   list |-> call.list, writer |-> call.writer, lost |-> call.lost]
  <2>1. t # <<>>
    BY <1>2, <1>4, MoreWrites
  <2>2. call' = [call EXCEPT !.writes = t]
        /\ state' = state /\ writer' = writer /\ formatting' = formatting
    BY <1>1, <1>4
  <2>3. call' = c
    <3> HIDE DEF t
    <3> QED
      BY <1>2, <2>2, CallGoesOn DEF IsRest
  <2>4. After(st2, t) = After(storage, vs)
    <3>1. IsStored(st2, storage, Head(vs)[1], Head(vs)[2])
      BY DEF IsStored, Stored
    <3> HIDE DEF st2
    <3> QED
      BY <1>2, <3>1, StoreKeeps
  <2> DEFINE ch == call.change
             li == call.list
             wr == call.writer
             lo == call.lost
  <2>5. IsNewCall(c, t, ch, li, wr, lo)
    BY DEF IsNewCall
  <2> HIDE DEF t, c, ch, li, wr, lo
  <2>6. c.writes = t /\ c.change = ch /\ c.writer = wr /\ c.lost = lo /\ c # Idle
    BY <2>1, <2>5, CallFields
  <2>7. IsUpdate(c.change) /\ Untouched(reader, c)
    BY <1>3, <2>6 DEF ch, wr, lo, Untouched
  <2>8. Clearing(call, storage) => Clearing(c, st2)
    BY <2>4, <2>6 DEF Clearing, ch
  <2>9. ASSUME ~formatting
        PROVE  \E S, T : /\ Atomic(st2, c.writes, S, T)
                         /\ Becomes(S, T, c.change) /\ Reads(reader, S)
    <3>1. PICK S, T : /\ Atomic(storage, vs, S, T)
                      /\ Becomes(S, T, call.change) /\ Reads(reader, S)
      BY <1>2, <2>9 DEF Changing
    <3>2. Atomic(Stored(storage, Head(vs)), Tail(vs), S, T)
      BY <1>2, <3>1, SoonSteps
    <3> QED
      BY <2>6, <3>1, <3>2 DEF t, ch
  <2>10. formatting => DOMAIN reader = {} /\ (c.change = Nothing \/ Clearing(c, st2))
    BY <1>3, <2>6, <2>8 DEF ch
  <2>11. Changing'
    <3> HIDE DEF st2
    <3>1. /\ call' = c /\ storage' = st2 /\ state' = state /\ formatting' = formatting
          /\ reader' = reader
      BY <1>1, <2>2, <2>3
    <3> QED
      BY <1>3, <2>7, <2>9, <2>10, <3>1 DEF Changing
  <2>12. ReadersApart'
    BY <1>1, <1>2, <2>2 DEF ReadersApart
  <2>13. formatting' => state' # "mounted"
    BY <2>2 DEF SectionInv
  <2> HIDE DEF st2
  <2> QED
    BY <1>1, <2>3, <2>6, <2>11, <2>12, <2>13 DEF SectionInv
<1>5. CASE ~ (Len(vs) > 1)
  <2>1. call' = Idle /\ formatting' = FALSE /\ state' = "mounted" /\ writer' = call.writer
    BY <1>1, <1>2, <1>5
  <2>2. \E T : Quiet(storage', <<>>, T) /\ Reads(reader, T)
    <3>1. CASE formatting
      <4>1. StorageInv'
        BY StoreBlockFine DEF Fine
      <4>2. \E T : Quiet(storage', <<>>, T)
        BY <2>1, <4>1, MountedAgain
      <4> QED
        BY <1>3, <3>1, <4>2, NobodyReads
    <3>2. CASE ~formatting
      <4>1. storage' \in {storage, st2} \cup CutsOff(storage, Head(vs))
        BY <1>1
      <4> HIDE DEF st2
      <4>2. \E S, T, U : /\ StepShows(storage, storage', S, T) /\ Becomes(S, T, call.change)
                         /\ U \in {S, T} /\ Quiet(storage', <<>>, U) /\ Reads(reader, U)
        BY <1>1, <3>2, <4>1, Leaves DEF st2
      <4> QED
        BY <4>2
    <3> QED
      BY <3>1, <3>2
  <2>3. Resting'
    BY <1>1, <2>1, <2>2 DEF Resting
  <2>4. ReadersApart'
    <3>1. /\ IsFunction(reader)
          /\ \A n \in DOMAIN reader : n \in Names /\ IsReader(reader[n])
      BY <1>2 DEF ReadersApart
    <3>2. \A n \in DOMAIN reader : n \notin DOMAIN call.writer
      BY <1>3 DEF Untouched
    <3> QED
      BY <1>1, <2>1, <3>1, <3>2 DEF ReadersApart
  <2> HIDE DEF st2
  <2> QED
    BY <1>1, <2>1, <2>3, <2>4 DEF SectionInv
<1> QED
  BY <1>4, <1>5

LEMMA InitSections ==
  ASSUME StorageAssumption, Init
  PROVE  SectionInv
<1>1. /\ storage = Formatted /\ state = "mounted" /\ reader = Nothing /\ call = Idle
      /\ sections = [n \in Names |-> <<>>] /\ formatting = FALSE
  BY DEF Init
<1>2. DOMAIN reader = {} /\ IsFunction(reader)
  BY <1>1 DEF Nothing, IsFunction
<1>3. IsMounted(storage, list, writer)
  BY <1>1, InitInv DEF StorageInv, BetweenCalls
<1>4. HeadsIn(storage) = {}
  <2>1. ASSUME NEW b \in Block PROVE Formatted[b].type = "free"
    BY DEF Formatted, Block, FreeBlock
  <2>2. ASSUME NEW b \in Block PROVE ~IsReadable(storage[b], "head")
    BY <1>1, <2>1, <2>2 DEF IsReadable
  <2> QED
    BY <2>2 DEF HeadsIn
<1>5. sections = Sections(storage)
  BY <1>1, <1>4, NoHeadsNoSections
<1>6. PICK T : Quiet(storage, <<>>, T)
  BY <1>3, MountedQuiet
<1>7. Reads(reader, T)
  BY <1>2, NobodyReads
<1>8. Resting
  BY <1>6, <1>7 DEF Resting
<1>9. ReadersApart
  BY <1>2 DEF ReadersApart
<1> QED
  BY <1>1, <1>5, <1>8, <1>9 DEF SectionInv

LEMMA StutterSections ==
  ASSUME SectionInv, UNCHANGED vars
  PROVE  SectionInv'
<1>1. /\ storage' = storage /\ sections' = sections /\ formatting' = formatting
      /\ state' = state /\ writer' = writer /\ reader' = reader /\ call' = call
  BY DEF vars, aux
<1>2. MayRead' = MayRead
  BY <1>1 DEF MayRead, NoWrap
<1>3. ReadersApart'
  BY <1>1 DEF SectionInv, ReadersApart
<1>4. Resting => Resting'
  BY <1>1, <1>2 DEF Resting
<1>5. Changing => Changing'
  BY <1>1 DEF Changing
<1> QED
  BY <1>1, <1>3, <1>4, <1>5 DEF SectionInv

LEMMA StepSections ==
  ASSUME StorageAssumption, StorageInv, SectionInv, Next
  PROVE  SectionInv'
<1>1. ASSUME NEW n \in Names, NEW tag \in Tags, NEW overwrite \in BOOLEAN,
             Create(n, overwrite, tag)
      PROVE  CallStep
  BY <1>1, CreateStep
<1>2. ASSUME NEW n \in Names, Push(n) PROVE CallStep
  BY <1>2, PushStep
<1>3. ASSUME NEW n \in Names, CloseOpen(n) PROVE CallStep
  BY <1>3, CloseOpenStep
<1>4. ASSUME NEW n \in Names, CloseCrashed(n) PROVE CallStep
  BY <1>4, CloseCrashedStep
<1>5. ASSUME NEW n \in Names, Delete(n) PROVE CallStep
  BY <1>5, DeleteStep
<1>6. ASSUME NEW n \in Names, NEW to \in Names, Rename(n, to) PROVE CallStep
  BY <1>6, RenameStep
<1>7. ASSUME NEW n \in Names, Open(n) PROVE SectionInv'
  BY <1>7, OpenSections
<1>8. ASSUME NEW n \in Names, Read(n) PROVE SectionInv'
  BY <1>8, ReadSections
<1>9. ASSUME NEW n \in Names, CloseReader(n) PROVE SectionInv'
  BY <1>9, CloseReaderSections
<1> QED
  BY <1>1, <1>2, <1>3, <1>4, <1>5, <1>6, <1>7, <1>8, <1>9, CallSections, MountStep1Sections,
     MountStep2Sections, UnmountSections, FormatSections, StoreBlockSections,
     PowerFailSections, WriteFailsSections DEF Next

(* What the storage shows, and what is pending, in every reachable state.  *)
THEOREM SectionsAreSound == Spec => [](StorageInv /\ SectionInv)
<1>1. Init => SectionInv
  BY StorageAssumption, InitSections
<1>2. StorageInv /\ SectionInv /\ [Next]_vars => SectionInv'
  BY StorageAssumption, StepSections, StutterSections
<1> QED
  BY <1>1, <1>2, StorageIsSound, PTL DEF Spec

-----------------------------------------------------------------------------
(* The content of a section and the blocks that it is in *)
LEMMA ShownSection ==
  ASSUME StorageAssumption, NEW st, NEW T, Quiet(st, <<>>, T), NEW n \in Names
  PROVE  T[n] = NoSection \/ \E c : IsSection(st, c) /\ T[n] = SectionAt(st, c)
<1>1. PICK H, C : Alive(st, H, C) /\ T = Image(st, H, C)
  BY QuietHeads
<1>2. CASE \A h \in H : NameOf(st[h]) # n
  BY <1>1, <1>2, ImageNone
<1>3. CASE \E h \in H : NameOf(st[h]) = n
  BY <1>1, <1>3, ImageHead
<1> QED
  BY <1>2, <1>3

LEMMA WholeSubSeq ==
  ASSUME NEW V, NEW s \in Seq(V), NEW k \in 1..Len(s), NEW g, g = SubSeq(s, 1, k)
  PROVE  IsPrefix(g, s) /\ (k = Len(s) => g = s)
<1>1. k \in Nat /\ k >= 1 /\ k <= Len(s) /\ Len(s) \in Nat
  OBVIOUS
<1>2. g \in Seq(V) /\ Len(g) = k
  BY <1>1
<1>3. SubSeq(g, 1, k) = g
  BY <1>1, <1>2
<1>4. k = Len(s) => g = s
  BY <1>1
<1> QED
  BY <1>1, <1>2, <1>3, <1>4 DEF IsPrefix

LEMMA PlacedRight ==
  ASSUME StorageAssumption, NEW st, NEW T, Quiet(st, <<>>, T), NEW n \in Names,
         NEW r, Placed(r, T[n])
  PROVE  IsPrefix(r.got, T[n].is) /\ (r.at = NoBlock => r.got = T[n].is)
<1> DEFINE s == T[n]
           k == Len(r.got)
<1>1. k \in 1..Len(s.is) /\ r.got = SubSeq(s.is, 1, k)
      /\ r.at = IF k < Len(s.is) THEN s.at[k + 2] ELSE NoBlock
  BY DEF Placed
<1>2. s # NoSection
  <2>1. Len(<<>>) = 0 /\ NoSection.is = <<>> /\ 1..0 = {}
    BY DEF NoSection
  <2> QED
    BY <1>1, <2>1
<1>3. PICK c : IsSection(st, c) /\ s = SectionAt(st, c)
  BY <1>2, ShownSection
<1> HIDE DEF s, k
<1>4. PICK V : SectionFits(st, c, s, V)
  BY <1>3, SectionFields
<1>5. s.at = c /\ s.is \in Seq(V) /\ Len(c) \in Nat /\ Len(s.is) = Len(c) - 1
  BY <1>4 DEF SectionFits
<1>6. c \in Seq(Block)
  BY <1>3 DEF IsSection
<1>7. IsPrefix(r.got, s.is) /\ (k = Len(s.is) => r.got = s.is)
  BY <1>1, <1>5, WholeSubSeq
<1>8. r.at = NoBlock => k = Len(s.is)
  <2> SUFFICES ASSUME k < Len(s.is) PROVE r.at # NoBlock
    BY <1>1, <1>5
  <2>1. k + 2 \in 1..Len(c)
    BY <1>1, <1>5
  <2>2. r.at = c[k + 2]
    BY <1>1, <1>5
  <2>3. c[k + 2] \in Block
    BY <1>6, <2>1
  <2> QED
    BY <2>2, <2>3, Sizes
<1> QED
  BY <1>7, <1>8 DEF s

LEMMA VersionRead ==
  ASSUME StorageAssumption, StorageInv, SectionInv
  PROVE  ReadersSeeOneVersion
<1> SUFFICES ASSUME NEW n \in DOMAIN reader, reader[n].ok, MayRead
             PROVE  /\ IsPrefix(reader[n].got, sections[n])
                    /\ reader[n].at = NoBlock => reader[n].got = sections[n]
  BY DEF ReadersSeeOneVersion
<1>1. n \in Names /\ ~formatting /\ sections = Sections(storage)
  BY DEF SectionInv, ReadersApart, MayRead
<1>2. \E T : Quiet(storage, <<>>, T) /\ Reads(reader, T)
  <2>1. CASE call = Idle
    BY <1>1, <2>1 DEF SectionInv, Resting
  <2>2. CASE call # Idle
    <3>1. storage \in {storage, Stored(storage, Head(call.writes))}
                        \cup CutsOff(storage, Head(call.writes))
      OBVIOUS
    <3>2. \E S, T, U : /\ StepShows(storage, storage, S, T) /\ Becomes(S, T, call.change)
                       /\ U \in {S, T} /\ Quiet(storage, <<>>, U) /\ Reads(reader, U)
      BY <1>1, <2>2, <3>1, Leaves
    <3> QED
      BY <3>2
  <2> QED
    BY <2>1, <2>2
<1>3. PICK T : Quiet(storage, <<>>, T) /\ Reads(reader, T)
  BY <1>2
<1>4. sections[n] = T[n].is
  BY <1>1, <1>3, QuietSections DEF Contents
<1>5. Placed(reader[n], T[n])
  BY <1>3 DEF Reads
<1> QED
  BY <1>1, <1>3, <1>4, <1>5, PlacedRight

(* Who reads a section reads one version of it, from the first block to the *)
(* last one.                                                                *)
THEOREM OneVersionIsRead == Spec => []ReadersSeeOneVersion
<1>1. StorageInv /\ SectionInv => ReadersSeeOneVersion
  BY StorageAssumption, VersionRead
<1> QED
  BY <1>1, SectionsAreSound, PTL

(* What is read before MountStep2() is what the storage will keep. *)
THEOREM EarlyReadsAreSound == Spec => []EarlyReadsAreRight
<1>1. StorageInv /\ SectionInv => EarlyReadsAreRight
  BY StorageAssumption, EarlyRight
<1> QED
  BY <1>1, SectionsAreSound, PTL

(* What a call makes of the sections *)
ResultOf(ch, s) == [n \in Names |-> IF n \in DOMAIN ch THEN ch[n] ELSE s[n]]

LEMMA BecomesResult ==
  ASSUME NEW S, NEW T, NEW ch, Becomes(S, T, ch)
  PROVE  Contents(T) = ResultOf(ch, Contents(S)) /\ Contents(T) = ResultOf(ch, Contents(T))
<1>1. \A n \in Names : IF n \in DOMAIN ch THEN T[n].is = ch[n] ELSE T[n] = S[n]
  BY DEF Becomes
<1>2. \A n \in Names : Contents(T)[n] = T[n].is /\ Contents(S)[n] = S[n].is
  BY DEF Contents
<1>3. \A n \in Names : /\ T[n].is = IF n \in DOMAIN ch THEN ch[n] ELSE Contents(S)[n]
                       /\ T[n].is = IF n \in DOMAIN ch THEN ch[n] ELSE Contents(T)[n]
  BY <1>1, <1>2
<1> QED
  BY <1>3 DEF Contents, ResultOf

LEMMA NothingResult ==
  ASSUME NEW T, NEW s, s = Contents(T)
  PROVE  ResultOf(Nothing, s) = s
BY DEF ResultOf, Nothing, Contents

(* What storage may hold after a step of a call *)
Reached(st2) ==
  st2 \in {storage, Stored(storage, Head(call.writes))} \cup CutsOff(storage, Head(call.writes))

MayBecome(s, t) ==
  t = s \/ t = ResultOf(call.change, s) \/ (formatting /\ t \in [Names -> Seq(Tags)])

LEMMA StepBecomes ==
  ASSUME StorageAssumption, StorageInv, SectionInv, call # Idle,
         NEW st2, Reached(st2), IsStorage(st2)
  PROVE  MayBecome(sections, Sections(st2))
<1>1. CASE formatting
  BY <1>1, SectionsTyped DEF MayBecome
<1>2. CASE ~formatting
  <2>1. PICK S, T : StepShows(storage, st2, S, T) /\ Becomes(S, T, call.change)
    BY <1>2, Leaves DEF Reached
  <2>2. /\ Contents(T) = ResultOf(call.change, Contents(S))
        /\ Contents(T) = ResultOf(call.change, Contents(T))
    BY <2>1, BecomesResult
  <2>3. \A R : /\ Quiet(storage, <<>>, R) => sections = Contents(R)
               /\ Quiet(st2, <<>>, R) => Sections(st2) = Contents(R)
    BY QuietSections DEF SectionInv
  <2> QED
    BY <2>1, <2>2, <2>3 DEF StepShows, MayBecome
<1> QED
  BY <1>1, <1>2

(* The call returns: it has changed all that it was to change. *)
LEMMA EndBecomes ==
  ASSUME StorageAssumption, StorageInv, SectionInv, call # Idle,
         ~ (Len(call.writes) > 1), NEW st2, st2 = Stored(storage, Head(call.writes)),
         ~formatting \/ call.change # Nothing
  PROVE  Sections(st2) = ResultOf(call.change, sections)
<1> DEFINE vs == call.writes
<1>1. vs \in Seq(Writes) /\ vs # <<>> /\ Changing /\ IsStorage(storage)
  BY InCall
<1>2. Tail(vs) = <<>>
  BY <1>1, LastWrite
<1>3. CASE ~formatting
  <2>1. PICK S, T : Atomic(storage, vs, S, T) /\ Becomes(S, T, call.change)
    BY <1>1, <1>3 DEF Changing
  <2>2. Atomic(st2, Tail(vs), S, T)
    BY <1>1, <2>1, SoonSteps
  <2>3. Quiet(st2, <<>>, T)
    BY <1>2, <2>2, AtomicEnds
  <2>4. Sections(st2) = Contents(T)
    BY <2>3, QuietSections
  <2>5. Quiet(storage, <<>>, S) \/ Quiet(storage, <<>>, T)
    BY <2>1, AtomicShows
  <2>6. sections = Contents(S) \/ sections = Contents(T)
    BY <2>5, QuietSections DEF SectionInv
  <2> QED
    BY <2>1, <2>4, <2>6, BecomesResult
<1>4. CASE formatting
  <2>1. Clearing(call, storage)
    BY <1>1, <1>4 DEF Changing
  <2>2. call.change = [n \in Names |-> <<>>] /\ HeadsIn(After(storage, vs)) = {}
    BY <2>1 DEF Clearing
  <2>3. After(st2, Tail(vs)) = After(storage, vs) /\ IsStorage(st2)
    <3>1. IsStored(st2, storage, Head(vs)[1], Head(vs)[2])
      BY DEF IsStored, Stored
    <3> QED
      BY <1>1, <3>1, StoreKeeps
  <2>4. After(st2, <<>>) = st2
    BY <2>3, AfterNothing DEF IsStorage
  <2>5. Sections(st2) = [n \in Names |-> <<>>]
    BY <1>2, <2>2, <2>3, <2>4, NoHeadsNoSections
  <2>6. ResultOf(call.change, sections) = [n \in Names |-> <<>>]
    BY <2>2 DEF ResultOf
  <2> QED
    BY <2>5, <2>6
<1> QED
  BY <1>3, <1>4

-----------------------------------------------------------------------------
(* Every step is a step of SectionStore, or none. *)
StoreStep == Abstract!Next \/ UNCHANGED Abstract!storeVars

Pend == IF call = Idle THEN Nothing ELSE call.change
Usable == state \in {"ro_mount", "mounted"}

LEMMA SameStore ==
  ASSUME UNCHANGED <<sections, formatting, call>>, Usable' = Usable
  PROVE  StoreStep
BY DEF StoreStep, Abstract!storeVars, Usable

LEMMA SwitchStep ==
  ASSUME UNCHANGED <<sections, formatting>>, Pend = Nothing, Pend' = Nothing
  PROVE  StoreStep
<1>1. Abstract!Switch
  BY DEF Abstract!Switch, Abstract!Nothing, Pend, Nothing
<1> QED
  BY <1>1 DEF StoreStep, Abstract!Next

LEMMA SalvageStep ==
  ASSUME formatting, formatting' = FALSE, Pend = Nothing, Pend' = Nothing, Usable',
         sections' = sections \/ sections' \in [Names -> Seq(Tags)]
  PROVE  StoreStep
<1>1. Abstract!MayLeave(sections, sections')
  BY DEF Abstract!MayLeave
<1>2. Abstract!Salvage
  BY <1>1 DEF Abstract!Salvage, Abstract!Nothing, Pend, Nothing, Usable
<1> QED
  BY <1>2 DEF StoreStep, Abstract!Next

LEMMA BeginStep ==
  ASSUME UNCHANGED <<sections, state, formatting>>, Pend = Nothing,
         IsUpdate(Pend')
  PROVE  StoreStep
<1>1. Pend' \in [DOMAIN Pend' -> Seq(Tags)] /\ DOMAIN Pend' \in SUBSET Names
  BY DEF IsUpdate, IsFunction
<1>2. \E names \in SUBSET Names : Pend' \in [names -> (Seq(Tags) \ {<<>>}) \cup {<<>>}]
  <2>1. (Seq(Tags) \ {<<>>}) \cup {<<>>} = Seq(Tags)
    <3>1. <<>> \in Seq(Tags)
      OBVIOUS
    <3> QED
      BY <3>1
  <2> QED
    BY <1>1, <2>1
<1>3. Abstract!Call
  BY <1>2 DEF Abstract!Call, Abstract!Nothing, Pend, Nothing
<1> QED
  BY <1>3 DEF StoreStep, Abstract!Next

LEMMA FormatStep ==
  ASSUME UNCHANGED <<sections, state>>, formatting' = TRUE, Pend = Nothing, ~Usable,
         Pend' = [n \in Names |-> <<>>]
  PROVE  StoreStep
<1>1. Abstract!Format
  BY DEF Abstract!Format, Abstract!Nothing, Pend, Nothing, Usable
<1> QED
  BY <1>1 DEF StoreStep, Abstract!Next

LEMMA MayLeaveIs ==
  ASSUME call # Idle, MayBecome(sections, sections')
  PROVE  Abstract!MayLeave(sections, sections')
<1>1. Abstract!Result(sections) = ResultOf(call.change, sections)
  BY DEF Abstract!Result, ResultOf
<1>2. (Seq(Tags) \ {<<>>}) \cup {<<>>} = Seq(Tags)
  <2>1. <<>> \in Seq(Tags)
    OBVIOUS
  <2> QED
    BY <2>1
<1> QED
  BY <1>1, <1>2 DEF MayBecome, Abstract!MayLeave

LEMMA ProgressStep ==
  ASSUME call # Idle, MayBecome(sections, sections'), Pend' = Pend,
         UNCHANGED <<state, formatting>>
  PROVE  StoreStep
<1>1. Abstract!Progress
  BY MayLeaveIs DEF Abstract!Progress, Pend
<1> QED
  BY <1>1 DEF StoreStep, Abstract!Next

LEMMA FailStep ==
  ASSUME call # Idle => MayBecome(sections, sections'),
         call = Idle => sections' = sections \/ (formatting /\ sections' \in [Names -> Seq(Tags)]),
         Pend' = Nothing, ~Usable', formatting' = formatting
  PROVE  StoreStep
<1>1. Abstract!MayLeave(sections, sections')
  <2>1. CASE call # Idle
    BY <2>1, MayLeaveIs
  <2>2. CASE call = Idle /\ sections' = sections
    BY <2>2 DEF Abstract!MayLeave
  <2>3. CASE formatting /\ sections' \in [Names -> Seq(Tags)]
    <3>1. (Seq(Tags) \ {<<>>}) \cup {<<>>} = Seq(Tags)
      <4>1. <<>> \in Seq(Tags)
        OBVIOUS
      <4> QED
        BY <4>1
    <3> QED
      BY <2>3, <3>1 DEF Abstract!MayLeave
  <2> QED
    BY <2>1, <2>2, <2>3
<1>2. Abstract!Fail
  BY <1>1 DEF Abstract!Fail, Abstract!Nothing, Pend, Nothing, Usable
<1> QED
  BY <1>2 DEF StoreStep, Abstract!Next

LEMMA ReturnStep ==
  ASSUME call # Idle, call.change # Nothing, sections' = ResultOf(call.change, sections),
         Pend' = Nothing, Usable', formatting' = FALSE
  PROVE  StoreStep
<1>1. Abstract!Result(sections) = ResultOf(call.change, sections)
  BY DEF Abstract!Result, ResultOf
<1>2. Abstract!Return
  BY <1>1 DEF Abstract!Return, Abstract!Nothing, Pend, Nothing, Usable
<1> QED
  BY <1>2 DEF StoreStep, Abstract!Next

LEMMA CallStores ==
  ASSUME CallStep
  PROVE  StoreStep
<1>1. call = Idle
  BY DEF CallStep
<1>2. CASE UNCHANGED <<storage, aux, state, reader, call>>
  BY <1>2, SameStore DEF Usable, aux
<1>3. CASE state = "mounted" /\ \E work, change, ws, lost : OneCall(work, change, ws, lost)
  <2>1. PICK work, change, ws, lost : OneCall(work, change, ws, lost)
    BY <1>3
  <2>2. Begins(work, change, ws, lost) /\ work.ok /\ IsUpdate(change)
    BY <2>1 DEF OneCall
  <2> DEFINE vs == work.writes
  <2>3. CASE vs = <<>>
    <3>1. state' = "mounted" /\ UNCHANGED <<storage, aux, reader, call>>
      BY <2>2, <2>3, BeginsWrites
    <3> QED
      BY <1>3, <3>1, SameStore DEF Usable, aux
  <2>4. CASE vs # <<>>
    <3> DEFINE c == [writes |-> vs, change |-> change, state |-> "mounted",
                     list |-> work.list, writer |-> ws, lost |-> lost]
    <3>1. call' = c /\ UNCHANGED <<storage, aux, state, list, writer, reader>>
      BY <2>2, <2>4, BeginsWrites
    <3>2. IsNewCall(c, vs, change, work.list, ws, lost)
      BY DEF IsNewCall
    <3> HIDE DEF c, vs
    <3>3. c.change = change /\ c # Idle
      BY <2>4, <3>2, CallFields
    <3>4. Pend = Nothing /\ Pend' = change
      BY <1>1, <3>1, <3>3 DEF Pend
    <3>5. sections' = sections /\ state' = state /\ formatting' = formatting
      BY <3>1 DEF aux
    <3> QED
      BY <2>2, <3>4, <3>5, BeginStep
  <2> QED
    BY <2>3, <2>4
<1> QED
  BY <1>2, <1>3 DEF CallStep

LEMMA MountStores ==
  ASSUME MountStep1 \/ Unmount
  PROVE  StoreStep
<1>1. call = Idle /\ call' = Idle /\ sections' = sections /\ formatting' = formatting
  BY DEF MountStep1, Unmount, aux
<1>2. Pend = Nothing /\ Pend' = Nothing
  BY <1>1 DEF Pend
<1> QED
  BY <1>1, <1>2, SwitchStep

LEMMA MountStep2Stores ==
  ASSUME StorageAssumption, StorageInv, formatting \in BOOLEAN, MountStep2
  PROVE  StoreStep
<1> DEFINE work == Repair(storage)
           c == [writes |-> work.writes, change |-> Nothing, state |-> "mounted",
                 list |-> work.list, writer |-> writer, lost |-> writer]
<1>1. call = Idle /\ DOMAIN writer = {}
  BY DEF MountStep2, AnyLocks
<1>2. IsStorage(storage) /\ FewRivals(storage)
  BY CompatibleFew DEF StorageInv
<1>3. work.ok
  BY <1>1, <1>2, RepairKeeps DEF IsCall
<1>4. /\ sections' = sections
      /\ IF work.writes = <<>>
         THEN state' = "mounted" /\ call' = call /\ formatting' = FALSE
         ELSE state' = "checking" /\ call' = c /\ formatting' = formatting
  BY <1>3 DEF MountStep2
<1>5. CASE work.writes = <<>>
  <2>1. Pend = Nothing /\ Pend' = Nothing /\ Usable'
    BY <1>1, <1>4, <1>5 DEF Pend, Usable
  <2>2. CASE formatting
    BY <1>4, <1>5, <2>1, <2>2, SalvageStep
  <2>3. CASE ~formatting
    <3>1. formatting' = formatting
      BY <1>4, <1>5, <2>3
    <3> QED
      BY <1>4, <2>1, <3>1, SwitchStep
  <2> QED
    BY <2>2, <2>3
<1>6. CASE work.writes # <<>>
  <2> DEFINE vs == work.writes
  <2>1. IsNewCall(c, vs, Nothing, work.list, writer, writer)
    BY DEF IsNewCall
  <2>2. vs # <<>> /\ call' = c /\ formatting' = formatting
    BY <1>4, <1>6
  <2> HIDE DEF c, vs, work
  <2>3. c.change = Nothing /\ c # Idle
    BY <2>1, <2>2, CallFields
  <2>4. Pend = Nothing /\ Pend' = Nothing
    BY <1>1, <2>2, <2>3 DEF Pend
  <2> QED
    BY <1>4, <2>2, <2>4, SwitchStep
<1> QED
  BY <1>5, <1>6

LEMMA FormatStores ==
  ASSUME StorageAssumption, StorageInv, Format
  PROVE  StoreStep
<1> DEFINE change == [n \in Names |-> <<>>]
           vs == FormatWrites
           c == [writes |-> vs, change |-> change, state |-> "mounted",
                 list |-> AllFree, writer |-> Nothing, lost |-> Nothing]
<1>1. call = Idle /\ state = "not_mounted" /\ call' = c
      /\ sections' = sections /\ state' = state /\ formatting' = TRUE
  BY DEF Format, FormatWrites
<1>2. IsStorage(storage) /\ DOMAIN Nothing = {}
  BY DEF StorageInv, Nothing
<1>3. vs # <<>>
  BY <1>2, FormatKeeps
<1>4. IsNewCall(c, vs, change, AllFree, Nothing, Nothing)
  BY DEF IsNewCall
<1>5. change = [n \in Names |-> <<>>]
  OBVIOUS
<1> HIDE DEF c, vs, change
<1>6. c.change = change /\ c # Idle
  BY <1>3, <1>4, CallFields
<1>7. Pend = Nothing /\ Pend' = change
  BY <1>1, <1>6 DEF Pend
<1>8. ~Usable
  BY <1>1 DEF Usable
<1> QED
  BY <1>1, <1>5, <1>7, <1>8, FormatStep

LEMMA StoreBlockStores ==
  ASSUME StorageAssumption, StorageInv, SectionInv, formatting \in BOOLEAN, StoreBlock
  PROVE  StoreStep
<1> DEFINE vs == call.writes
           st2 == Stored(storage, Head(vs))
<1>1. /\ call # Idle /\ storage' = st2 /\ sections' = Sections(storage')
      /\ IF Len(vs) > 1
         THEN /\ call' = [call EXCEPT !.writes = Tail(@)]
              /\ UNCHANGED <<state, list, writer, formatting>>
         ELSE call' = Idle /\ formatting' = FALSE /\ state' = call.state
  BY DEF StoreBlock, Stored
<1>2. /\ vs \in Seq(Writes) /\ vs # <<>> /\ IsStorage(storage) /\ call.state = "mounted"
      /\ Changing /\ IsCallRecord(call)
  BY <1>1, InCall
<1>3. Reached(st2)
  BY DEF Reached
<1>4. IsStorage(st2)
  <2>1. Head(vs) \in Writes
    BY <1>2, HeadTailSet
  <2> QED
    BY <1>2, <2>1, StoredIsStorage
<1> HIDE DEF st2
<1>5. MayBecome(sections, sections')
  BY <1>1, <1>3, <1>4, StepBecomes
<1>6. CASE Len(vs) > 1
  <2> DEFINE t == Tail(vs)
             c == [writes |-> t, change |-> call.change, state |-> "mounted",
                   list |-> call.list, writer |-> call.writer, lost |-> call.lost]
  <2>1. t # <<>>
    BY <1>2, <1>6, MoreWrites
  <2>2. call' = [call EXCEPT !.writes = t] /\ state' = state /\ formatting' = formatting
    BY <1>1, <1>6
  <2>3. call' = c
    <3> HIDE DEF t
    <3> QED
      BY <1>2, <2>2, CallGoesOn DEF IsRest
  <2> DEFINE ch == call.change
             li == call.list
             wr == call.writer
             lo == call.lost
  <2>4. IsNewCall(c, t, ch, li, wr, lo)
    BY DEF IsNewCall
  <2> HIDE DEF t, c, ch, li, wr, lo
  <2>5. c.change = ch /\ c # Idle
    BY <2>1, <2>4, CallFields
  <2>6. Pend' = Pend
    BY <1>1, <2>3, <2>5 DEF Pend, ch
  <2> QED
    BY <1>1, <1>5, <2>2, <2>6, ProgressStep
<1>7. CASE ~ (Len(vs) > 1)
  <2>1. call' = Idle /\ formatting' = FALSE /\ state' = "mounted"
    BY <1>1, <1>2, <1>7
  <2>2. Pend' = Nothing /\ Usable'
    BY <2>1 DEF Pend, Usable
  <2>3. ~formatting \/ call.change # Nothing => sections' = ResultOf(call.change, sections)
    BY <1>1, <1>7, EndBecomes DEF st2
  <2>4. CASE call.change # Nothing
    BY <1>1, <2>1, <2>2, <2>3, <2>4, ReturnStep
  <2>5. CASE call.change = Nothing /\ formatting
    <3>1. sections' \in [Names -> Seq(Tags)]
      BY <1>1, <1>4, SectionsTyped
    <3>2. Pend = Nothing
      BY <2>5 DEF Pend
    <3> QED
      BY <2>1, <2>2, <2>5, <3>1, <3>2, SalvageStep
  <2>6. CASE call.change = Nothing /\ ~formatting
    <3>1. sections' = ResultOf(Nothing, sections) /\ Pend = Nothing
      BY <2>3, <2>6 DEF Pend
    <3>2. \E S, T : StepShows(storage, storage, S, T)
      <4>1. Reached(storage)
        BY DEF Reached
      <4> QED
        BY <1>1, <2>6, <4>1, Leaves DEF Reached
    <3>3. PICK R : Quiet(storage, <<>>, R)
      BY <3>2 DEF StepShows
    <3>4. sections = Contents(R)
      BY <3>3, QuietSections DEF SectionInv
    <3>5. sections' = sections
      BY <3>1, <3>4, NothingResult
    <3>6. formatting' = formatting
      BY <2>1, <2>6
    <3> QED
      BY <2>2, <3>1, <3>5, <3>6, SwitchStep
  <2> QED
    BY <2>4, <2>5, <2>6
<1> QED
  BY <1>6, <1>7

LEMMA PowerFailStores ==
  ASSUME StorageAssumption, StorageInv, SectionInv, PowerFail
  PROVE  StoreStep
<1>1. /\ storage' \in CutOff /\ sections' = Sections(storage') /\ state' = "not_mounted"
      /\ call' = Idle /\ formatting' = formatting
  BY DEF PowerFail
<1>2. IsStorage(storage')
  BY PowerFailFine DEF Fine, StorageInv
<1>3. Pend' = Nothing /\ ~Usable'
  BY <1>1 DEF Pend, Usable
<1>4. call = Idle => sections' = sections
  BY <1>1, CutOffIs DEF SectionInv
<1>5. call # Idle => MayBecome(sections, sections')
  <2>1. call # Idle => Reached(storage')
    BY <1>1, CutOffIs DEF Reached
  <2> QED
    BY <1>1, <1>2, <2>1, StepBecomes
<1> QED
  BY <1>1, <1>3, <1>4, <1>5, FailStep

LEMMA WriteFailsStores ==
  ASSUME StorageAssumption, StorageInv, SectionInv, WriteFails
  PROVE  StoreStep
<1> DEFINE st1 == Stored(storage, Head(call.writes))
<1>1. /\ call # Idle /\ storage' \in CutOff \cup {st1} /\ sections' = Sections(storage')
      /\ state' \in {"not_mounted", "defect"} /\ call' = Idle /\ formatting' = formatting
  BY DEF WriteFails, Stored
<1>2. IsStorage(storage')
  BY WriteFailsFine DEF Fine, StorageInv
<1>3. Pend' = Nothing /\ ~Usable'
  BY <1>1 DEF Pend, Usable
<1>4. Reached(storage')
  BY <1>1, CutOffIs DEF Reached
<1>5. MayBecome(sections, sections')
  BY <1>1, <1>2, <1>4, StepBecomes
<1> QED
  BY <1>1, <1>3, <1>5, FailStep

LEMMA StepStores ==
  ASSUME StorageAssumption, StorageInv, SectionInv, formatting \in BOOLEAN, Next
  PROVE  StoreStep
<1>1. ASSUME NEW n \in Names, NEW tag \in Tags, NEW overwrite \in BOOLEAN,
             Create(n, overwrite, tag)
      PROVE  StoreStep
  BY <1>1, CreateStep, CallStores
<1>2. ASSUME NEW n \in Names, Push(n) PROVE StoreStep
  BY <1>2, PushStep, CallStores
<1>3. ASSUME NEW n \in Names, CloseOpen(n) PROVE StoreStep
  BY <1>3, CloseOpenStep, CallStores
<1>4. ASSUME NEW n \in Names, CloseCrashed(n) PROVE StoreStep
  BY <1>4, CloseCrashedStep, CallStores
<1>5. ASSUME NEW n \in Names, Delete(n) PROVE StoreStep
  BY <1>5, DeleteStep, CallStores
<1>6. ASSUME NEW n \in Names, NEW to \in Names, Rename(n, to) PROVE StoreStep
  BY <1>6, RenameStep, CallStores
<1>7. ASSUME NEW n \in Names, Open(n) PROVE StoreStep
  <2>1. state' = state
    BY <1>7, OpenSections
  <2>2. UNCHANGED <<sections, formatting, call>>
    BY <1>7 DEF Open, aux
  <2> QED
    BY <2>1, <2>2, SameStore DEF Usable
<1>8. ASSUME NEW n \in Names, Read(n) \/ CloseReader(n) PROVE StoreStep
  <2>1. UNCHANGED <<sections, formatting, call, state>>
    BY <1>8 DEF Read, CloseReader, aux
  <2> QED
    BY <2>1, SameStore DEF Usable
<1> QED
  BY <1>1, <1>2, <1>3, <1>4, <1>5, <1>6, <1>7, <1>8, MountStores, MountStep2Stores,
     FormatStores, StoreBlockStores, PowerFailStores, WriteFailsStores DEF Next

LEMMA FlagKept ==
  ASSUME formatting \in BOOLEAN, [Next]_vars
  PROVE  formatting' \in BOOLEAN
<1>1. ASSUME NEW n \in Names, NEW tag \in Tags, NEW overwrite \in BOOLEAN,
             Create(n, overwrite, tag)
      PROVE  formatting' = formatting
  BY <1>1 DEF Create, aux
<1>2. ASSUME NEW n \in Names, Push(n) PROVE formatting' = formatting
  BY <1>2 DEF Push, Begins, aux
<1>3. ASSUME NEW n \in Names, CloseOpen(n) PROVE formatting' = formatting
  BY <1>3 DEF CloseOpen, Begins, aux
<1>4. ASSUME NEW n \in Names, CloseCrashed(n) PROVE formatting' = formatting
  BY <1>4 DEF CloseCrashed, Begins, aux
<1>5. ASSUME NEW n \in Names, Delete(n) PROVE formatting' = formatting
  BY <1>5 DEF Delete, Begins, aux
<1>6. ASSUME NEW n \in Names, NEW to \in Names, Rename(n, to) PROVE formatting' = formatting
  BY <1>6 DEF Rename, Begins, aux
<1>7. ASSUME NEW n \in Names, Open(n) \/ Read(n) \/ CloseReader(n) PROVE formatting' = formatting
  BY <1>7 DEF Open, Read, CloseReader, aux
<1>8. CASE MountStep1 \/ Unmount
  BY <1>8 DEF MountStep1, Unmount, aux
<1>9. CASE MountStep2
  BY <1>9 DEF MountStep2
<1>10. CASE Format
  BY <1>10 DEF Format
<1>11. CASE StoreBlock
  BY <1>11 DEF StoreBlock
<1>12. CASE PowerFail \/ WriteFails
  BY <1>12 DEF PowerFail, WriteFails
<1>13. CASE UNCHANGED vars
  BY <1>13 DEF vars, aux
<1> QED
  BY <1>1, <1>2, <1>3, <1>4, <1>5, <1>6, <1>7, <1>8, <1>9, <1>10, <1>11, <1>12, <1>13 DEF Next

(* The detailed section system implements the abstract store: the sections *)
(* are changed by one call at a time, as a whole or not at all, whatever   *)
(* fails.                                                                  *)
THEOREM StoreIsImplemented == Spec => ImplementsSectionStore
<1>1. Init => Abstract!Init /\ formatting \in BOOLEAN
  BY DEF Init, Abstract!Init, Abstract!Nothing, Nothing
<1>2. formatting \in BOOLEAN /\ [Next]_vars => (formatting \in BOOLEAN)'
  BY FlagKept
<1>3. StorageInv /\ SectionInv /\ formatting \in BOOLEAN /\ [Next]_vars =>
        [Abstract!Next]_(Abstract!storeVars)
  <2>1. ASSUME StorageInv, SectionInv, formatting \in BOOLEAN, Next
        PROVE  StoreStep
    BY <2>1, StorageAssumption, StepStores
  <2>2. ASSUME UNCHANGED vars PROVE StoreStep
    BY <2>2, SameStore DEF vars, aux, Usable
  <2> QED
    BY <2>1, <2>2 DEF StoreStep
<1> QED
  BY <1>1, <1>2, <1>3, SectionsAreSound, PTL DEF Spec, ImplementsSectionStore, Abstract!Spec
=============================================================================
