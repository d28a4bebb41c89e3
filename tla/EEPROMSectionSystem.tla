------------------------- MODULE EEPROMSectionSystem -------------------------
(***************************************************************************)
(* gpcc::file_systems::eeprom_section_system::EEPROMSectionSystem with its *)
(* SectionWriter and SectionReader.  Calls are executed with the mutex     *)
(* locked.  A call that writes is one step that decides what is written    *)
(* (the storage is read before anything that is read is overwritten), and  *)
(* one step per block that is written, so that power can fail, or the      *)
(* storage device report an error, at every block.  Calls that are refused *)
(* change nothing and have no step.                                        *)
(***************************************************************************)
EXTENDS SectionStorage

CONSTANTS Tags,        \* what a section may contain
          Sequential,  \* the device writes a block byte by byte, not at once
          MaxReaders   \* bound: readers at the same time

VARIABLES
  storage,  \* the blocks
  state,    \* the state of the section system
  list,     \* the list of free blocks, as far as it is kept in RAM
  writer,   \* the section writers, by section: these hold the write locks
  reader,   \* the section readers, by section: these hold the read locks
  call,     \* the call in progress and the blocks it has still to write
  sections,   \* auxiliary, not in the code: the sections that storage holds
  formatting  \* auxiliary: Format() has begun, and nothing was mounted since

aux == <<sections, formatting>>

vars == <<storage, aux, state, list, writer, reader, call>>

(* The sections that a storage holds, stated without the algorithms above: *)
(* of two heads that have the same name or lead to the same data, the one  *)
(* that mounting takes for the older one does not count.                   *)

HeadsIn(st) == {b \in Block : IsReadable(st[b], "head")}
Rivals(st, b, c) ==
  b # c /\ (NameOf(st[b]) = NameOf(st[c]) \/ st[b].next = st[c].next)
Loses(st, b, c) ==
  IF b < c THEN Newer(VersionOf(st[c]), VersionOf(st[b]))
  ELSE ~Newer(VersionOf(st[b]), VersionOf(st[c]))
IsWhole(st, h) == st[Last(SectionOf(st, h))].next = NoBlock
LiveHeads(st) ==
  {b \in HeadsIn(st) : /\ \A c \in HeadsIn(st) : Rivals(st, b, c) => ~Loses(st, b, c)
                       /\ IsWhole(st, b)}
ContentOf(st, h) == [i \in 1..Len(DataBlocksOf(st, h)) |-> TagOf(st[DataBlocksOf(st, h)[i]])]
Sections(st) ==
  [n \in Names |->
     LET hs == {b \in LiveHeads(st) : NameOf(st[b]) = n}
     IN  IF hs = {} THEN <<>> ELSE ContentOf(st, CHOOSE b \in hs : TRUE)]

-----------------------------------------------------------------------------
Idle == [writes |-> <<>>]
Nothing == [n \in {} |-> <<>>]

With(f, x, v) == [y \in DOMAIN f \cup {x} |-> IF y = x THEN v ELSE f[y]]
Without(f, x) == [y \in DOMAIN f \ {x} |-> f[y]]

(* What Format() leaves *)
Formatted == [b \in 0..(NBlocks - 1) |->
                IF b = 0 THEN InfoBlock ELSE FreeBlock(b + 1)]
AllFree == [n |-> NBlocks - 1, head |-> 1, end |-> NBlocks - 1]

Init ==
  /\ storage = Formatted
  /\ state = "mounted"
  /\ list = AllFree
  /\ writer = Nothing /\ reader = Nothing
  /\ call = Idle
  /\ sections = [n \in Names |-> <<>>] /\ formatting = FALSE

-----------------------------------------------------------------------------
(* A call that writes the blocks of work begins.  change is what it does   *)
(* to the sections, ws the writers when it has succeeded, lost if not.     *)
Begins(work, change, ws, lost) ==
  LET done == IF work.ok THEN "mounted" ELSE "defect"
  IN  IF work.writes = <<>>
      THEN /\ state' = done /\ list' = work.list /\ writer' = ws
           /\ UNCHANGED <<storage, aux, reader, call>>
      ELSE /\ call' = [writes |-> work.writes, change |-> change, state |-> done,
                       list |-> work.list, writer |-> ws, lost |-> lost]
           /\ UNCHANGED <<storage, aux, state, list, writer, reader>>

(* Deviation: readers are forgotten. *)
IsLocked_Writers(n) == n \in DOMAIN writer

(* SectionLockManager *)
IsLocked(n) == n \in DOMAIN writer \/ n \in DOMAIN reader
AnyLocks == DOMAIN writer \cup DOMAIN reader # {}

(* Create: an old section of that name is left alone until Close. *)
Create(n, overwrite, tag) ==
  LET old == FindHead(storage, n)
      taken == TakeBlocks(storage, list, 2)
  IN  /\ call = Idle /\ state = "mounted"
      /\ ~IsLocked(n)
      /\ old # Unreadable
      /\ overwrite \/ old = NoBlock
      /\ list.n >= 2
      /\ IF taken.ok
         THEN /\ list' = taken.list
              /\ writer' = With(writer, n,
                   [head |-> taken.blocks[1], first |-> taken.blocks[2], next |-> taken.blocks[2],
                    old |-> old, seqNb |-> 1, tag |-> tag, open |-> TRUE,
                    version |-> IF old = NoBlock THEN 1
                                ELSE NextVersion(VersionOf(storage[old]))])
              /\ UNCHANGED state
         ELSE state' = "defect" /\ UNCHANGED <<list, writer>>
      /\ UNCHANGED <<storage, aux, reader, call>>

(* StoreCurrentBlockAndReserveNextBlock: the buffer of the writer is full. *)
Push(n) ==
  LET w == writer[n]
      crashed == With(writer, n, [w EXCEPT !.open = FALSE])
      taken == TakeBlocks(storage, list, 1)
      next == taken.blocks[1]
  IN  /\ call = Idle
      /\ n \in DOMAIN writer /\ w.open
      /\ IF state = "mounted" /\ list.n > 0 /\ taken.ok
         THEN Begins(Store(Begin(storage, taken.list), w.next, DataBlock(w.seqNb, w.tag, next)),
                     Nothing,
                     With(writer, n, [w EXCEPT !.next = next, !.seqNb = @ + 1]), crashed)
         ELSE /\ writer' = crashed
              /\ state' = IF state = "mounted" /\ list.n > 0 THEN "defect" ELSE state
              /\ UNCHANGED <<storage, aux, list, reader, call>>

(* Deviation: the old section is released before the new head is written. *)
CloseOpen_OldFirst(n) ==
  LET w == writer[n]
      data == Store(Begin(storage, list), w.next, DataBlock(w.seqNb, w.tag, NoBlock))
      freed == IF w.old = NoBlock THEN data ELSE AddChain(data, w.old, NoBlock)
  IN  /\ call = Idle
      /\ n \in DOMAIN writer /\ w.open
      /\ IF state = "mounted"
         THEN Begins(Store(freed, w.head, HeadBlock(n, w.version, w.first)),
                     [m \in {n} |-> [i \in 1..w.seqNb |-> w.tag]],
                     Without(writer, n), Without(writer, n))
         ELSE /\ state' = "defect" /\ writer' = Without(writer, n)
              /\ UNCHANGED <<storage, aux, list, reader, call>>

(* CloseAnOpenSectionWriter *)
CloseOpen(n) ==
  LET w == writer[n]
      data == Store(Begin(storage, list), w.next, DataBlock(w.seqNb, w.tag, NoBlock))
      headed == Store(data, w.head, HeadBlock(n, w.version, w.first))
      work == IF w.old = NoBlock THEN headed ELSE AddChain(headed, w.old, NoBlock)
  IN  /\ call = Idle
      /\ n \in DOMAIN writer /\ w.open
      /\ IF state = "mounted"
         THEN Begins(work, [m \in {n} |-> [i \in 1..w.seqNb |-> w.tag]],
                     Without(writer, n), Without(writer, n))
         ELSE /\ state' = "defect" /\ writer' = Without(writer, n)
              /\ UNCHANGED <<storage, aux, list, reader, call>>

(* Deviation: the block that was to become the head is forgotten. *)
CloseCrashed_HeadLost(n) ==
  LET w == writer[n]
      work == AddChain(Begin(storage, list), w.first, w.next)
  IN  /\ call = Idle
      /\ n \in DOMAIN writer /\ ~w.open
      /\ IF state = "mounted"
         THEN Begins(work, Nothing, Without(writer, n), Without(writer, n))
         ELSE /\ state' = "defect" /\ writer' = Without(writer, n)
              /\ UNCHANGED <<storage, aux, list, reader, call>>

(* CloseCrashedSectionWriter: all blocks of the writer are given back. *)
CloseCrashed(n) ==
  LET w == writer[n]
      work == AddBlocks(AddChain(Begin(storage, list), w.first, w.next), <<w.head>>)
  IN  /\ call = Idle
      /\ n \in DOMAIN writer /\ ~w.open
      /\ IF state = "mounted"
         THEN Begins(work, Nothing, Without(writer, n), Without(writer, n))
         ELSE /\ state' = "defect" /\ writer' = Without(writer, n)
              /\ UNCHANGED <<storage, aux, list, reader, call>>

Delete(n) ==
  LET h == FindHead(storage, n)
  IN  /\ call = Idle /\ state = "mounted"
      /\ ~IsLocked(n)
      /\ h \in Block
      /\ Begins(AddChain(Begin(storage, list), h, NoBlock), [m \in {n} |-> <<>>], writer, writer)

Rename(from, to) ==
  LET h == FindHead(storage, from)
      taken == TakeBlocks(storage, list, 1)
      head == HeadBlock(to, NextVersion(VersionOf(storage[h])), storage[h].next)
      work == AddBlocks(Store(Begin(storage, taken.list), taken.blocks[1], head), <<h>>)
  IN  /\ call = Idle /\ state = "mounted"
      /\ ~IsLocked(from) /\ ~IsLocked(to)
      /\ FindHead(storage, to) = NoBlock
      /\ h \in Block
      /\ list.n > 0
      /\ IF taken.ok
         THEN Begins(work, [m \in {from, to} |-> IF m = to THEN ContentOf(storage, h) ELSE <<>>],
                     writer, writer)
         ELSE state' = "defect" /\ UNCHANGED <<storage, aux, list, writer, reader, call>>

(* Open: the first data block is loaded at once. *)
Open(n) ==
  LET h == IF state = "mounted" THEN FindHead(storage, n) ELSE FindNewestHead(storage, n)
      data == DataBlocksOf(storage, h)
  IN  /\ call = Idle /\ state \in {"ro_mount", "mounted"}
      /\ n \notin DOMAIN writer /\ n \notin DOMAIN reader
      /\ Cardinality(DOMAIN reader) < MaxReaders
      /\ \/ /\ h \in Block /\ data # <<>>
            /\ reader' = With(reader, n, [at |-> storage[data[1]].next,
                                          got |-> <<TagOf(storage[data[1]])>>, ok |-> TRUE])
            /\ UNCHANGED state
         \/ h = Ambiguous /\ state' = "defect" /\ UNCHANGED reader
      /\ UNCHANGED <<storage, aux, list, writer, call>>

(* SectionReader::LoadNextBlock *)
Read(n) ==
  LET r == reader[n]
      good == /\ state \in {"ro_mount", "mounted"}
              /\ IsReadable(storage[r.at], "data")
              /\ SeqNbOf(storage[r.at]) = Len(r.got) + 1
  IN  /\ call = Idle
      /\ n \in DOMAIN reader /\ reader[n].at # NoBlock
      /\ reader' = With(reader, n,
           IF good THEN [at |-> storage[r.at].next, got |-> Append(r.got, TagOf(storage[r.at])),
                         ok |-> r.ok]
           ELSE [at |-> NoBlock, got |-> r.got, ok |-> FALSE])
      /\ UNCHANGED <<storage, aux, state, list, writer, call>>

CloseReader(n) ==
  /\ call = Idle
  /\ n \in DOMAIN reader
  /\ reader' = Without(reader, n)
  /\ UNCHANGED <<storage, aux, state, list, writer, call>>

-----------------------------------------------------------------------------
(* Mounting and formatting *)

MountStep1 ==
  /\ call = Idle /\ state = "not_mounted"
  /\ IsReadable(storage[0], "info")
  /\ state' = "ro_mount"
  /\ UNCHANGED <<storage, aux, list, writer, reader, call>>

MountStep2 ==
  /\ call = Idle /\ state \in {"ro_mount", "mounted", "defect"}
  /\ ~AnyLocks
  /\ \E work \in {Repair(storage)} :
       LET done == IF work.ok THEN "mounted" ELSE "defect"
       IN  IF work.writes = <<>>
           THEN /\ state' = done /\ list' = work.list /\ UNCHANGED call
                /\ formatting' = (formatting /\ ~work.ok)
           ELSE /\ UNCHANGED formatting
                /\ state' = "checking" /\ list' = EmptyList
                /\ call' = [writes |-> work.writes, change |-> Nothing, state |-> done,
                            list |-> work.list, writer |-> writer, lost |-> writer]
  /\ UNCHANGED <<storage, sections, writer, reader>>

Unmount ==
  /\ call = Idle /\ state \in {"ro_mount", "mounted", "defect"}
  /\ ~AnyLocks
  /\ state' = "not_mounted"
  /\ UNCHANGED <<storage, aux, list, writer, reader, call>>

(* Format: the info block is written last. *)
Format ==
  /\ call = Idle /\ state = "not_mounted"
  /\ call' = [writes |-> [i \in 1..NBlocks |->
                            IF i < NBlocks THEN <<i, Formatted[i]>> ELSE <<0, InfoBlock>>],
              change |-> [n \in Names |-> <<>>], state |-> "mounted",
              list |-> AllFree, writer |-> Nothing, lost |-> Nothing]
  /\ list' = EmptyList
  /\ formatting' = TRUE
  /\ UNCHANGED <<storage, sections, state, writer, reader>>

-----------------------------------------------------------------------------
(* BlockAccessor::StoreBlock for the next block of the call; with the last *)
(* one the call returns.                                                   *)
StoreBlock ==
  LET write == Head(call.writes)
  IN  /\ call # Idle
      /\ storage' = [storage EXCEPT ![write[1]] = write[2]]
      /\ sections' = Sections(storage')
      /\ IF Len(call.writes) > 1
         THEN /\ call' = [call EXCEPT !.writes = Tail(@)]
              /\ UNCHANGED <<state, list, writer, formatting>>
         ELSE /\ call' = Idle /\ formatting' = FALSE
              /\ state' = call.state /\ list' = call.list /\ writer' = call.writer
      /\ UNCHANGED reader

(* What the storage may hold when the write in progress is cut off *)
CutOff ==
  {storage} \cup
  (IF call = Idle \/ ~Sequential THEN {}
   ELSE LET write == Head(call.writes)
        IN  {[storage EXCEPT ![write[1]] = b] : b \in Torn(storage[write[1]], write[2])})

(* Power fails: the RAM is lost. *)
PowerFail ==
  /\ state # "not_mounted" \/ call # Idle
  /\ storage' \in CutOff
  /\ sections' = Sections(storage')
  /\ state' = "not_mounted" /\ list' = EmptyList
  /\ writer' = Nothing /\ reader' = Nothing
  /\ call' = Idle
  /\ UNCHANGED formatting

(* WriteAndCheck reports an error; the block may be old, new or torn. *)
WriteFails ==
  /\ call # Idle
  /\ LET write == Head(call.writes)
     IN  storage' \in CutOff \cup {[storage EXCEPT ![write[1]] = write[2]]}
  /\ sections' = Sections(storage')
  /\ state' = IF state = "not_mounted" THEN "not_mounted" ELSE "defect"
  /\ writer' = call.lost
  /\ call' = Idle
  /\ UNCHANGED <<list, reader, formatting>>

Next ==
  \/ \E n \in Names :
       \/ \E tag \in Tags, overwrite \in BOOLEAN : Create(n, overwrite, tag)
       \/ Push(n) \/ CloseOpen(n) \/ CloseCrashed(n)
       \/ Delete(n)
       \/ \E to \in Names : Rename(n, to)
       \/ Open(n) \/ Read(n) \/ CloseReader(n)
  \/ MountStep1 \/ MountStep2 \/ Unmount \/ Format
  \/ StoreBlock \/ PowerFail \/ WriteFails

Spec == Init /\ [][Next]_vars

-----------------------------------------------------------------------------
TypeOK ==
  /\ \A b \in 0..(NBlocks - 1) :
       /\ storage[b].type \in {"info", "free", "head", "data"}
       /\ storage[b].next \in Block \cup {NoBlock}
       /\ storage[b].ok \in BOOLEAN
  /\ state \in {"not_mounted", "ro_mount", "checking", "mounted", "defect"}
  /\ list \in [n : 0..(NBlocks - 1), head : Block \cup {NoBlock}, end : Block \cup {NoBlock}]
  /\ DOMAIN writer \subseteq Names /\ DOMAIN reader \subseteq Names
  /\ \A n \in DOMAIN writer :
       /\ {writer[n].head, writer[n].first, writer[n].next} \subseteq Block
       /\ writer[n].version \in 0..MaxVersion
  /\ call # Idle => call.writes # <<>>

(* Between two calls every block of a mounted section system is in exactly *)
(* one place: in the list of free blocks, which the storage links as the   *)
(* RAM says, in one section, or with one section writer; there is no stale *)
(* head, and the section a writer will replace is still where Create()     *)
(* found it.  Blocks are moved between these places by every call, by      *)
(* crashed writers and by the repair after a power failure.                *)
FreeChain ==
  LET IsNext(k, b, c) == IsReadable(storage[c], "free")
  IN  IF list.n = 0 THEN <<>> ELSE ChainFrom(storage, list.head, IsNext)
Written(w) ==
  LET IsNext(k, b, c) == b # w.next
  IN  ChainFrom(storage, w.first, IsNext)
Places ==
  {ToSet(FreeChain)} \cup
  {{writer[n].head} \cup ToSet(Written(writer[n])) : n \in DOMAIN writer} \cup
  {ToSet(SectionOf(storage, h)) : h \in LiveHeads(storage)}
BlocksAccounted ==
  call = Idle /\ state = "mounted" =>
    /\ Len(FreeChain) = list.n
    /\ list.n > 0 => /\ Last(FreeChain) = list.end
                     /\ storage[list.end].next = NoBlock
    /\ \A p \in Places : \A q \in Places : p = q \/ p \cap q = {}
    /\ UNION Places = Block
    /\ LiveHeads(storage) = HeadsIn(storage)
    /\ \A n \in DOMAIN writer : writer[n].old = FindHead(storage, n)

(* A section system becomes defect by an error of the storage device only: *)
(* no sequence of calls and power failures leaves a storage that a later   *)
(* call or MountStep2() takes for damaged.                                 *)
DefectOnlyByDevice ==
  [][state # "defect" /\ state' = "defect" => call # Idle /\ call.state # "defect"]_vars

(* No head carries the version before the wrap-round: what happens then    *)
(* before MountStep2() is shown by EarlyReadsAreAlwaysRight.  What         *)
(* formatting leaves when it is cut off is undefined.                      *)
NoWrap == \A b \in HeadsIn(storage) : VersionOf(storage[b]) # MaxVersion
MayRead == ~formatting /\ (state = "ro_mount" => NoWrap)

(* Who reads a section reads one version of it from the first block to the *)
(* last one, whatever other sections are written meanwhile.                *)
ReadersSeeOneVersion ==
  \A n \in DOMAIN reader : reader[n].ok /\ MayRead =>
    /\ IsPrefix(reader[n].got, sections[n])
    /\ reader[n].at = NoBlock => reader[n].got = sections[n]

(* What can be read before MountStep2() has repaired the storage is what   *)
(* it will keep, unless a cut-off write has left a wrong checksum: then    *)
(* the read is refused, it is not wrong.                                   *)
EarlyReadIsRight(n) ==
  LET h == FindNewestHead(storage, n)
  IN  /\ h = NoBlock => sections[n] = <<>>
      /\ h \in Block /\ IsWhole(storage, h) => ContentOf(storage, h) = sections[n]
      /\ h = Unreadable => \E b \in Block : ~storage[b].ok
EarlyReadsAreRight ==
  state = "ro_mount" /\ MayRead => \A n \in Names : EarlyReadIsRight(n)

(* EEPROMSectionSystem.hpp:76: after a power failure and after mounting,   *)
(* the data is as before the operation or as after it; the versions of     *)
(* heads are meant to wrap round (EEPROMSectionSystemInternals.hpp:98).    *)
EarlyReadsAreAlwaysRight ==
  state = "ro_mount" /\ ~formatting => \A n \in Names : EarlyReadIsRight(n)

(* The sections are changed by one call at a time, and as a whole: before  *)
(* and after power failures, failed writes, repairs and repairs that are   *)
(* themselves cut off.                                                     *)
Abstract == INSTANCE SectionStore WITH
  Contents <- Seq(Tags) \ {<<>>},
  Absent <- <<>>,
  store <- sections,
  update <- IF call = Idle THEN Nothing ELSE call.change,
  usable <- state \in {"ro_mount", "mounted"}
ImplementsSectionStore == Abstract!Spec
=============================================================================
