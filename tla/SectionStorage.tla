---------------------------- MODULE SectionStorage ----------------------------
(***************************************************************************)
(* The storage of an EEPROMSectionSystem and the algorithms that read and  *)
(* rearrange it, as functions of the storage: the list of free blocks, the *)
(* search for section heads and the examination of all blocks when the     *)
(* section system is mounted.                                              *)
(*                                                                         *)
(* A block is a record: its type, the hash of the section name, the index  *)
(* of the next block, what else it carries (name and version of a head,    *)
(* sequence number and content of a data block) and whether its checksum   *)
(* is right.  type, hash and next can be read without the checksum.        *)
(***************************************************************************)
EXTENDS Naturals, Sequences, FiniteSets, SequencesExt

CONSTANTS NBlocks,     \* blocks of the storage, block 0 is the info block
          Names,       \* names of sections
          Hash,        \* the hash of each name
          NVersions,   \* 2^16 in the code
          DeleteChunk, \* blocks that are freed at once, 8 in the code
          MountChunk   \* the same for the garbage collection of a mount

ASSUME StorageAssumption ==
  /\ NBlocks \in Nat /\ NBlocks >= 3
  /\ NVersions \in Nat /\ NVersions >= 3
  /\ DeleteChunk \in Nat \ {0} /\ MountChunk \in Nat \ {0}
  /\ Hash \in [Names -> Nat \ {0}]

Block == 1..(NBlocks - 1)
NoBlock == NBlocks
Unreadable == NBlocks + 1      \* a search met a block with a wrong checksum
Ambiguous == NBlocks + 2       \* a search met two heads of the same version
MaxVersion == NVersions - 1

InfoBlock == [type |-> "info", hash |-> 0, next |-> NoBlock, body |-> <<>>, ok |-> TRUE]
FreeBlock(next) == [type |-> "free", hash |-> 0, next |-> next, body |-> <<>>, ok |-> TRUE]
HeadBlock(name, version, next) ==
  [type |-> "head", hash |-> Hash[name], next |-> next, body |-> <<name, version>>, ok |-> TRUE]
DataBlock(seqNb, tag, next) ==
  [type |-> "data", hash |-> 0, next |-> next, body |-> <<seqNb, tag>>, ok |-> TRUE]

NameOf(b) == b.body[1]
VersionOf(b) == b.body[2]
SeqNbOf(b) == b.body[1]
TagOf(b) == b.body[2]
IsReadable(b, type) == b.ok /\ b.type = type

(* What a write that is cut off leaves behind: the fields that were        *)
(* reached are new, the others are old, the index of the next block may be *)
(* a mixture of both; the checksum is wrong.                               *)
Torn(old, new) ==
  {[type |-> new.type, hash |-> old.hash, next |-> old.next, body |-> <<>>, ok |-> FALSE]} \cup
  {[type |-> new.type, hash |-> new.hash, next |-> n, body |-> <<>>, ok |-> FALSE] :
     n \in IF old.next = new.next THEN {new.next} ELSE Block \cup {NoBlock}}

(* Where the indices of the next blocks lead to from a block.              *)
Follow(st, start) ==
  LET nth[k \in 1..NBlocks] ==
        LET before == nth[k - 1]
        IN  IF k = 1 THEN start ELSE IF before = NoBlock THEN NoBlock ELSE st[before].next
  IN  nth

(* The blocks from start on, as long as the next one may follow the k-th.  *)
RunLength(S) == CHOOSE k \in 1..NBlocks : k \notin S /\ \A j \in 1..(k - 1) : j \in S
ChainFrom(st, start, MayFollow(_, _, _)) ==
  LET nth == Follow(st, start)
      goesOn == {k \in 1..(NBlocks - 1) :
                   /\ nth[k + 1] # NoBlock
                   /\ \A j \in 1..k : nth[j] # nth[k + 1]
                   /\ MayFollow(k, nth[k], nth[k + 1])}
  IN  [k \in 1..RunLength(goesOn) |-> nth[k]]

(* The storage after some writes; the last write to a block counts.        *)
After(st, writes) ==
  [b \in DOMAIN st |->
     LET ks == {k \in DOMAIN writes : writes[k][1] = b}
     IN  IF ks = {} THEN st[b] ELSE writes[CHOOSE k \in ks : \A j \in ks : j <= k][2]]

-----------------------------------------------------------------------------
(* The list of free blocks is kept in RAM as its length, head and end.     *)
(* work is what an operation has done up to now: the storage, the list,    *)
(* the blocks it has written in order and whether all went well.           *)

EmptyList == [n |-> 0, head |-> NoBlock, end |-> NoBlock]

Begin(st, list) == [st |-> st, list |-> list, writes |-> <<>>, ok |-> TRUE]

StoreAll(work, writes) ==
  [work EXCEPT !.st = After(@, writes), !.writes = @ \o writes]
Store(work, b, block) == StoreAll(work, <<<<b, block>>>>)

(* AddBlocksToListOfFreeBlocks, AddBlockToListOfFreeBlocks *)
AddBlocks(work, bs) ==
  LET n == Len(bs)
      end == work.list.end
      freed == StoreAll(work, [i \in 1..n |->
                 <<bs[i], FreeBlock(IF i < n THEN bs[i + 1] ELSE NoBlock)>>])
  IN  IF ~work.ok \/ bs = <<>> THEN work
      ELSE IF work.list.n + n >= NBlocks THEN [work EXCEPT !.ok = FALSE]
      ELSE IF work.list.n = 0
      THEN [freed EXCEPT !.list = [n |-> n, head |-> bs[1], end |-> bs[n]]]
      ELSE IF freed.st[end] # FreeBlock(NoBlock) THEN [freed EXCEPT !.ok = FALSE]
      ELSE [Store(freed, end, FreeBlock(bs[1])) EXCEPT
              !.list = [n |-> @.n + n, head |-> @.head, end |-> bs[n]]]

(* Blocks are added in pieces of at most size blocks. *)
Piece(bs, size, k) ==
  SubSeq(bs, (k - 1) * size + 1, IF k * size < Len(bs) THEN k * size ELSE Len(bs))
AddInPieces(work, bs, size) ==
  LET done[k \in 0..Len(bs)] ==
        IF k = 0 THEN work ELSE AddBlocks(done[k - 1], Piece(bs, size, k))
  IN  done[Len(bs)]

(* AddChainOfBlocksToListOfFreeBlocks: reserved is the last block of a     *)
(* section whose writer has not written it yet.                            *)
AddChain(work, start, reserved) ==
  LET st == work.st
      Fits(k, b, n) ==
        /\ b # reserved
        /\ st[n].ok
        /\ \/ st[n].type = "free" /\ n = reserved
           \/ st[n].type = "data" /\ SeqNbOf(st[n]) =
                k + (IF st[start].type = "data" THEN SeqNbOf(st[start]) ELSE 0)
      chain == ChainFrom(st, start, Fits)
      good == /\ st[start].ok
              /\ st[start].type = "free" => start = reserved
              /\ Last(chain) = reserved \/ st[Last(chain)].next = NoBlock
      full == Len(chain) - (Len(chain) % DeleteChunk)
      freed == AddInPieces(work, IF good THEN chain ELSE SubSeq(chain, 1, full), DeleteChunk)
  IN  [freed EXCEPT !.ok = @ /\ good]

(* GetBlocksFromListOfFreeBlocks, GetBlockFromListOfFreeBlocks: the first  *)
(* n blocks are taken from the list, the storage is not written.           *)
TakeBlocks(st, list, n) ==
  LET IsFree(k, b, c) == k < n /\ IsReadable(st[c], "free")
      blocks == ChainFrom(st, list.head, IsFree)
      rest == st[Last(blocks)].next
      left == list.n - n
  IN  [blocks |-> blocks,
       list |-> IF left = 0 THEN EmptyList ELSE [n |-> left, head |-> rest, end |-> list.end],
       ok |-> /\ IsReadable(st[list.head], "free")
              /\ Len(blocks) = n
              /\ \A i \in 1..(n - 1) : blocks[i] # list.end
              /\ (left = 0) <=> (rest = NoBlock)]

-----------------------------------------------------------------------------
(* FindSectionHead in a section system that is mounted *)
FindHead(st, name) ==
  LET hits == {b \in Block : /\ st[b].type = "head" /\ st[b].hash = Hash[name]
                             /\ st[b].ok => NameOf(st[b]) = name}
      first == CHOOSE b \in hits : \A c \in hits : b <= c
  IN  IF hits = {} THEN NoBlock ELSE IF st[first].ok THEN first ELSE Unreadable

(* Create, Rename: versions are 16 bit wide. *)
NextVersion(v) == (v + 1) % NVersions

(* The comparison of two versions of a head; versions wrap round. *)
Newer(v, w) == (v # MaxVersion /\ v > w) \/ (v = 0 /\ w = MaxVersion)

(* Deviation: as in a section system that is mounted. *)
FindNewestHead_First(st, name) == FindHead(st, name)

(* Open before MountStep2: the newest head of that name, unless another    *)
(* head leads to the same data and is newer.                               *)
FindNewestHead(st, name) ==
  LET SameName(b) == /\ st[b].type = "head" /\ st[b].hash = Hash[name]
                     /\ st[b].ok => NameOf(st[b]) = name
      NewestOf(h, b) ==
        IF ~SameName(b) \/ h \in {Unreadable, Ambiguous} THEN h
        ELSE IF ~st[b].ok THEN Unreadable
        ELSE IF h = NoBlock THEN b
        ELSE IF VersionOf(st[b]) = VersionOf(st[h]) THEN Ambiguous
        ELSE IF Newer(VersionOf(st[b]), VersionOf(st[h])) THEN b ELSE h
      upTo[b \in 0..(NBlocks - 1)] == IF b = 0 THEN NoBlock ELSE NewestOf(upTo[b - 1], b)
      newest == upTo[NBlocks - 1]
      Shares(b) == /\ b # newest /\ st[b].next = st[newest].next
                   /\ st[b].ok => st[b].type = "head"
      Confirm(h, b) ==
        IF h # newest \/ ~Shares(b) THEN h
        ELSE IF ~st[b].ok THEN Unreadable
        ELSE IF VersionOf(st[b]) = VersionOf(st[newest]) THEN Ambiguous
        ELSE IF Newer(VersionOf(st[b]), VersionOf(st[newest])) THEN NoBlock ELSE h
      confirmed[b \in 0..(NBlocks - 1)] ==
        IF b = 0 THEN newest ELSE Confirm(confirmed[b - 1], b)
  IN  IF newest \in Block /\ \A b \in Block : SameName(b) => b = newest
      THEN confirmed[NBlocks - 1]
      ELSE newest

(* The section with head h; it ends where a data block is missing *)
SectionOf(st, h) ==
  LET IsNext(k, b, n) == IsReadable(st[n], "data") /\ SeqNbOf(st[n]) = k
  IN  ChainFrom(st, h, IsNext)
DataBlocksOf(st, h) == Tail(SectionOf(st, h))

-----------------------------------------------------------------------------
(* MountStep2 examines the blocks in ascending order and sorts them into   *)
(* used blocks (sections and free list) and garbage.                       *)

NotExamined == [used |-> {}, garbage |-> {}, list |-> EmptyList, ok |-> TRUE]

(* Mount_ProcessFreeBlock: the free blocks that follow i *)
ScanFree(st, scan, i) ==
  LET marked == scan.used \cup scan.garbage
      IsNew(k, b, n) == n # scan.list.head /\ n \notin marked /\ IsReadable(st[n], "free")
      chain == ChainFrom(st, i, IsNew)
      stop == st[Last(chain)].next
      joins == stop = scan.list.head
      clash == stop # NoBlock /\ ~joins /\ IsReadable(st[stop], "free")
      garbage == [scan EXCEPT !.garbage = @ \cup ToSet(chain)]
      used == [scan EXCEPT !.used = @ \cup ToSet(chain)]
  IN  IF clash THEN garbage
      ELSE IF scan.list.n = 0
      THEN [used EXCEPT !.list = [n |-> Len(chain), head |-> i, end |-> Last(chain)]]
      ELSE IF joins THEN [used EXCEPT !.list.n = @ + Len(chain), !.list.head = i]
      ELSE garbage

(* Two heads of one section: the older one is garbage. *)
Meet(st, scan, b) ==
  LET old == VersionOf(st[scan.cur])
      new == VersionOf(st[b])
  IN  IF b \in scan.used \cup scan.garbage \/ new = old THEN [scan EXCEPT !.ok = FALSE]
      ELSE IF Newer(new, old)
      THEN [scan EXCEPT !.garbage = @ \cup {scan.cur}, !.cur = b, !.met = TRUE]
      ELSE [scan EXCEPT !.garbage = @ \cup {b}, !.met = TRUE]

(* Mount_ProcessSectionHead, the search behind block i: the blocks looked  *)
(* at are loaded.                                                          *)
LookAt(st, scan, b, rivals) ==
  IF ~st[b].ok
  THEN IF b \in scan.used THEN [scan EXCEPT !.ok = FALSE]
       ELSE [scan EXCEPT !.garbage = @ \cup {b}]
  ELSE IF b \in rivals THEN Meet(st, scan, b) ELSE scan

SearchRivals(st, scan, i, looked, rivals) ==
  LET found[b \in i..(NBlocks - 1)] ==
        IF b = i THEN scan
        ELSE IF ~found[b - 1].ok \/ b \notin looked THEN found[b - 1]
        ELSE LookAt(st, found[b - 1], b, rivals)
  IN  found[NBlocks - 1]

(* Mount_ProcessSectionHead, the examination of the section that is kept *)
ExamineSection(st, scan, h) ==
  LET IsNext(k, b, n) == /\ n \notin scan.used \cup scan.garbage
                         /\ IsReadable(st[n], "data") /\ SeqNbOf(st[n]) = k
      chain == ChainFrom(st, h, IsNext)
      stop == st[Last(chain)].next
  IN  IF stop = NoBlock THEN [scan EXCEPT !.used = @ \cup ToSet(chain)]
      ELSE IF st[stop].ok THEN [scan EXCEPT !.garbage = @ \cup ToSet(chain)]
      ELSE [scan EXCEPT !.garbage = @ \cup ToSet(chain) \cup {stop}, !.ok = stop \notin scan.used]

(* Mount_ProcessSectionHead *)
ScanHead(st, scan, i) ==
  LET head == st[i]
      start == [used |-> scan.used, garbage |-> scan.garbage, cur |-> i, met |-> FALSE, ok |-> TRUE]
      heads == {b \in Block : IsReadable(st[b], "head")}
      byNext == SearchRivals(st, start, i, {b \in Block : st[b].next = head.next}, heads)
      byName == SearchRivals(st, byNext, i,
                  {b \in Block : st[b].type = "head" /\ st[b].hash = head.hash},
                  {b \in heads : NameOf(st[b]) = NameOf(head)})
      found == IF byNext.met THEN byNext ELSE byName
      done == IF found.ok THEN ExamineSection(st, found, found.cur) ELSE found
  IN  [scan EXCEPT !.used = done.used, !.garbage = done.garbage, !.ok = done.ok]

ScanBlock(st, scan, i) ==
  IF ~scan.ok \/ i \in scan.used \cup scan.garbage \/ st[i].type = "data" THEN scan
  ELSE IF ~st[i].ok THEN [scan EXCEPT !.garbage = @ \cup {i}]
  ELSE IF st[i].type = "free" THEN ScanFree(st, scan, i)
  ELSE ScanHead(st, scan, i)

Scan(st) ==
  LET scanned[i \in 0..(NBlocks - 1)] ==
        IF i = 0 THEN NotExamined ELSE ScanBlock(st, scanned[i - 1], i)
  IN  scanned[NBlocks - 1]

(* Deviation: the last free block is left as it is. *)
CheckLastFreeBlock_None(work) == work

(* Mount_CheckLastFreeBlock *)
CheckLastFreeBlock(work) ==
  IF ~work.ok \/ work.list.n = 0 THEN work
  ELSE IF ~IsReadable(work.st[work.list.end], "free") THEN [work EXCEPT !.ok = FALSE]
  ELSE IF work.st[work.list.end].next = NoBlock THEN work
  ELSE Store(work, work.list.end, FreeBlock(NoBlock))

(* Mount_CollectGarbageBlocks: in ascending order *)
Ascending(S) ==
  LET upTo[i \in 0..(NBlocks - 1)] ==
        IF i = 0 THEN <<>> ELSE IF i \in S THEN Append(upTo[i - 1], i) ELSE upTo[i - 1]
  IN  upTo[NBlocks - 1]

(* MountStep2: the whole repair *)
Repair(st) ==
  LET scan == Scan(st)
      checked == CheckLastFreeBlock([Begin(st, scan.list) EXCEPT !.ok = scan.ok])
  IN  AddInPieces(checked, Ascending(Block \ scan.used), MountChunk)
=============================================================================
