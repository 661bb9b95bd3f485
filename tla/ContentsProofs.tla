--------------------------- MODULE ContentsProofs ---------------------------
(***************************************************************************)
(* What the slabs contain and what the index says of it, for every value   *)
(* of the constants.  The invariant Contents, on top of Ownership, relates *)
(* the index, the headers and the data of every slab to the places of the  *)
(* three threads; IndexSound, NrUsedCoversEntries, NoSlabOverrun and       *)
(* ObjectsFitSlots follow from it.                                         *)
(***************************************************************************)
EXTENDS KVCacheProofs

\* No index entry names s.
Vacant(s) == \A g \in Digests : index_table[g] # None => index_table[g].slab # s

\* The digests whose entries name a slab of D.
EntriesIn(D) == {g \in Digests : index_table[g] # None /\ index_table[g].slab \in D}

\* dst has been written with the image of src.
Copied(src, dst) == /\ slab[dst].cid = slab[src].cid
                    /\ slab[dst].nr_alloc = slab[src].nr_alloc
                    /\ data[dst] = data[src]

\* An entry names an allocated slot that holds a key with the entry's digest.
EntriesSound ==
    \A g \in Digests : index_table[g] # None =>
        /\ index_table[g].slot < slab[index_table[g].slab].nr_alloc
        /\ DigestOf[data[index_table[g].slab][index_table[g].slot].key] = g

\* An allocated slot holds an object that is no larger than the slot, and no
\* slab has allocated more slots than it has.
SlotsFilled ==
    \A s \in Slabs :
        /\ slab[s].nr_alloc <= NrSlots(slab[s].cid)
        /\ \A i \in SlotIds : i < slab[s].nr_alloc =>
              /\ data[s][i] \in Slot
              /\ KVSize[data[s][i].key][data[s][i].value] <= SlotSize[slab[s].cid]

\* A slab that may be handed out is blank.
BlankHeaders ==
    \A s \in mslab_free \cup dslab_free \cup ops_pool : slab[s] = ResetHeader

\* A slab that Put may allocate from has its class and a slot left.  The slot of
\* a Put holds its object until the index names it; a Put that waits for an entry
\* still has none for its digest.
PutContents ==
    /\ \A c \in Classes : \A m \in slab_partial[c] :
          slab[m].cid = c /\ slab[m].nr_alloc < NrSlots(c)
    /\ put_pc # "idle" => put_arg \in Slot
    /\ put_pc \in {"index", "wait_index"} =>
          /\ put_slot.slot < slab[put_slot.slab].nr_alloc
          /\ data[put_slot.slab][put_slot.slot] = put_arg
    /\ put_pc = "wait_index" => index_table[PutDigest] = None

\* The flush thread has no block until it picks one, and a blank one then; between
\* write_block and modify_index_to it is the image of the mslab, and no entry names
\* it; the mslab about to be recycled has no entry left.
FlushContents ==
    /\ flush_pc \in {"wait", "pick", "wait_gc"} => flush_dslab = None
    /\ flush_pc = "write" => slab[flush_dslab] = ResetHeader
    /\ flush_pc = "index" => Copied(flush_mslab, flush_dslab) /\ Vacant(flush_dslab)
    /\ flush_pc = "recycle" => Vacant(flush_mslab)

\* The same of the collector's buffer and its target.
GcTarget ==
    /\ gc_pc \notin {"move", "index"} => Vacant(gc_buffer)
    /\ gc_pc \in {"move", "index"} => ops_slab \in dslab_full
    /\ gc_pc \in {"move", "index"} => slab[gc_buffer].cid = gc_class
    /\ gc_pc = "move" => slab[ops_slab] = ResetHeader
    /\ gc_pc = "index" => Copied(gc_buffer, ops_slab) /\ Vacant(ops_slab)

\* The dslabs of a round that the collector has visited have no entry left.
GcVisited ==
    /\ gc_pc \notin {"evict", "move"} => todo = {}
    /\ gc_pc = "evict" => todo \subseteq to_drop
    /\ gc_pc = "move" => todo \subseteq free_list
    /\ \A d \in free_list \ todo : Vacant(d)
    /\ gc_pc = "evict" => \A d \in to_drop \ todo : Vacant(d)

\* A batch is of one class, and its valid objects that are still to be moved fit
\* what is left of the buffer.
GcBatch ==
    /\ gc_pc \in {"batch", "take"} => \A d \in to_drop : slab[d].cid = gc_class
    /\ gc_pc = "move" => gc_class < NrSlabClass /\ \A d \in todo : slab[d].cid = gc_class
    /\ (gc_pc \in {"batch", "take"} /\ gc_class < NrSlabClass) =>
          /\ Cardinality(EntriesIn(to_drop)) <= nr_slots_moved
          /\ nr_slots_moved <= NrSlots(gc_class)
    /\ gc_pc = "move" =>
          Cardinality(EntriesIn(todo)) + slab[gc_buffer].nr_alloc <= NrSlots(gc_class)

SlabsSound == EntriesSound /\ SlotsFilled /\ NrUsedCoversEntries

GcContents == GcTarget /\ GcVisited /\ GcBatch

Contents == SlabsSound /\ BlankHeaders /\ PutContents /\ FlushContents /\ GcContents

-----------------------------------------------------------------------------
(* Facts about slots, entries and counts.                                  *)

\* Every class has at least one slot per slab, and every slot of a slab is one of
\* SlotIds, which are the slots of the smallest class.
LEMMA SlotRange ==
  ASSUME NEW c \in Classes
  PROVE  /\ NrSlots(c) \in Nat /\ 1 <= NrSlots(c)
         /\ \A i \in Nat : i < NrSlots(c) => i \in SlotIds
  <1>1. 0 \in Classes /\ c \in Nat /\ c # NoClass
    BY ConstantsAssumption DEF Classes, NoClass
  <1> DEFINE a == SlotSize[0]
             b == SlotSize[c]
  <1>2. SlabBytes \in Nat /\ a \in 1..SlabBytes /\ b \in 1..SlabBytes
    BY <1>1, ConstantsAssumption
  <1>3. a <= b
    BY <1>1, <1>2, ConstantsAssumption
  <1>4. NrSlots(c) = SlabBytes \div b /\ SlotIds = 0..((SlabBytes \div a) - 1)
    BY <1>1 DEF NrSlots, SlotIds
  <1> HIDE DEF a, b
  <1> DEFINE q == SlabBytes \div b
             p == SlabBytes \div a
  <1>5. q \in Nat /\ p \in Nat /\ b * q <= SlabBytes /\ SlabBytes < a * (p + 1)
    BY <1>2
  <1>6. 1 <= q
    BY <1>2
  <1> HIDE DEF p, q
  <1>7. a * q <= b * q
    BY <1>2, <1>3, <1>5
  <1>8. a * q < a * (p + 1)
    BY <1>2, <1>5, <1>7
  <1>9. q < p + 1
    BY <1>2, <1>5, <1>8
  <1> QED
    BY <1>4, <1>5, <1>6, <1>9 DEF p, q

\* The digests with some property are finitely many.
LEMMA DigestCount ==
  ASSUME NEW S \in SUBSET Digests
  PROVE  IsFiniteSet(S) /\ Cardinality(S) \in Nat
  BY ConstantsAssumption, FS_Subset, FS_CardinalityType

\* Counting fewer digests.
LEMMA FewerDigests ==
  ASSUME NEW S \in SUBSET Digests, NEW T \in SUBSET S
  PROVE  Cardinality(T) \in Nat /\ Cardinality(S) \in Nat /\ Cardinality(T) <= Cardinality(S)
  BY DigestCount, FS_Subset

\* One digest more, and one digest less.
LEMMA OneDigest ==
  ASSUME NEW S \in SUBSET Digests, NEW g \in Digests
  PROVE  /\ Cardinality(S) \in Nat
         /\ g \notin S => Cardinality(S \cup {g}) = Cardinality(S) + 1
         /\ g \in S => Cardinality(S \ {g}) = Cardinality(S) - 1
  BY DigestCount, FS_AddElement, FS_RemoveElement

\* An entry names a slab and a slot that exist, and the slot holds an object.
LEMMA EntrySlot ==
  ASSUME CacheTypeOK, EntriesSound, SlotsFilled, NEW g \in Digests, index_table[g] # None
  PROVE  /\ index_table[g] \in IndexEntry
         /\ index_table[g].slab \in Slabs
         /\ index_table[g].slot \in SlotIds
         /\ data[index_table[g].slab][index_table[g].slot] \in Slot
  <1> DEFINE e == index_table[g]
  <1>1. e \in IndexEntry
    BY DEF CacheTypeOK
  <1>2. e.slab \in Slabs /\ e.slot \in Nat /\ e.slot < slab[e.slab].nr_alloc
    BY <1>1 DEF EntriesSound, IndexEntry
  <1>3. /\ slab[e.slab].cid \in Classes \cup {NoClass} /\ slab[e.slab].nr_alloc \in Nat
        /\ slab[e.slab].nr_alloc <= NrSlots(slab[e.slab].cid)
    BY <1>2 DEF CacheTypeOK, SlabHeader, SlotsFilled
  <1>4. slab[e.slab].cid # NoClass
    BY <1>2, <1>3 DEF NrSlots
  <1>5. e.slot \in SlotIds
    BY <1>2, <1>3, <1>4, SlotRange
  <1> QED
    BY <1>1, <1>2, <1>5 DEF SlotsFilled

\* A blank slab has no entry.
LEMMA BlankIsVacant ==
  ASSUME CacheTypeOK, EntriesSound, NEW s \in Slabs, slab[s] = ResetHeader
  PROVE  Vacant(s)
  BY DEF EntriesSound, Vacant, ResetHeader, CacheTypeOK, IndexEntry

\* The valid objects for_each_slot finds in a slab are the entries that name it.
LEMMA LiveIsEntries ==
  ASSUME CacheTypeOK, EntriesSound, SlotsFilled, NEW s \in Slabs
  PROVE  LiveDigests(s) = EntriesOf(s)
  <1>1. ASSUME NEW g \in EntriesOf(s) PROVE g \in LiveDigests(s)
    BY <1>1, EntrySlot DEF EntriesOf, LiveDigests, EntriesSound
  <1>2. LiveDigests(s) \subseteq EntriesOf(s)
    BY DEF LiveDigests, EntriesOf
  <1> QED
    BY <1>1, <1>2

\* A slab nobody names has no entries to count.
LEMMA VacantCount ==
  ASSUME NEW s, Vacant(s)
  PROVE  EntriesOf(s) = {} /\ Cardinality(EntriesOf(s)) = 0
  BY FS_EmptySet DEF Vacant, EntriesOf

\* The slot a Put has allocated and not yet indexed, counted.
PutBit(s) == IF put_pc \in {"index", "wait_index"} /\ put_slot.slab = s THEN 1 ELSE 0

\* NrUsedCoversEntries, slab by slab.
LEMMA NrUsedCovers ==
  NrUsedCoversEntries <=>
    \A s \in Slabs : slab[s].nr_used >= Cardinality(EntriesOf(s)) + PutBit(s)
  BY DEF NrUsedCoversEntries, PutBit

-----------------------------------------------------------------------------
(* What the three operations that threads perform on whole slabs preserve: *)
(* a reset, a copy to a block, and moving the index.                       *)

\* Entries stay sound when no slab that has one is touched.
LEMMA EntriesKept ==
  ASSUME CacheTypeOK, EntriesSound, UNCHANGED index_table,
         \A s \in Slabs : \/ Vacant(s)
                          \/ slab'[s].nr_alloc = slab[s].nr_alloc /\ data'[s] = data[s]
  PROVE  EntriesSound'
  <1> SUFFICES ASSUME NEW g \in Digests, index_table[g] # None
               PROVE  /\ index_table[g].slot < slab'[index_table[g].slab].nr_alloc
                      /\ DigestOf[data'[index_table[g].slab][index_table[g].slot].key] = g
    BY DEF EntriesSound
  <1>1. index_table[g].slab \in Slabs /\ ~Vacant(index_table[g].slab)
    BY DEF CacheTypeOK, IndexEntry, Vacant
  <1> QED
    BY <1>1 DEF EntriesSound

\* Slots stay filled when every slab is empty or the image of some slab.
LEMMA SlotsKept ==
  ASSUME CacheTypeOK, SlotsFilled,
         \A s \in Slabs : \/ slab'[s] = ResetHeader
                          \/ \E r \in Slabs : /\ slab'[s].cid = slab[r].cid
                                              /\ slab'[s].nr_alloc = slab[r].nr_alloc
                                              /\ data'[s] = data[r]
  PROVE  SlotsFilled'
  <1> SUFFICES ASSUME NEW s \in Slabs
               PROVE  /\ slab'[s].nr_alloc <= NrSlots(slab'[s].cid)
                      /\ \A i \in SlotIds : i < slab'[s].nr_alloc =>
                            /\ data'[s][i] \in Slot
                            /\ KVSize[data'[s][i].key][data'[s][i].value]
                                  <= SlotSize[slab'[s].cid]
    BY DEF SlotsFilled
  <1>1. CASE slab'[s] = ResetHeader
    BY <1>1 DEF ResetHeader, NrSlots, SlotIds
  <1>2. CASE \E r \in Slabs : /\ slab'[s].cid = slab[r].cid
                              /\ slab'[s].nr_alloc = slab[r].nr_alloc
                              /\ data'[s] = data[r]
    BY <1>2 DEF SlotsFilled
  <1> QED
    BY <1>1, <1>2

\* The counts still cover the entries when only those of slabs without entries
\* change.
LEMMA CountKept ==
  ASSUME CacheTypeOK, CacheTypeOK', NrUsedCoversEntries, UNCHANGED <<index_table, put_pc, put_slot>>,
         \A s \in Slabs : \/ slab'[s].nr_used = slab[s].nr_used
                          \/ slab'[s].nr_used >= 0 /\ Vacant(s) /\ PutBit(s) = 0
  PROVE  NrUsedCoversEntries'
  <1> SUFFICES ASSUME NEW s \in Slabs
               PROVE  slab'[s].nr_used >= Cardinality(EntriesOf(s)') + PutBit(s)'
    BY DEF NrUsedCoversEntries, PutBit
  <1>1. EntriesOf(s)' = EntriesOf(s) /\ PutBit(s)' = PutBit(s)
    BY DEF EntriesOf, PutBit
  <1>2. slab[s].nr_used >= Cardinality(EntriesOf(s)) + PutBit(s)
    BY NrUsedCovers
  <1>3. CASE slab'[s].nr_used = slab[s].nr_used
    BY <1>1, <1>2, <1>3
  <1>4. CASE slab'[s].nr_used >= 0 /\ Vacant(s) /\ PutBit(s) = 0
    <2>1. Cardinality(EntriesOf(s)) = 0
      BY <1>4, VacantCount
    <2>2. slab'[s].nr_used >= 0 + 0
      BY <1>4
    <2> QED
      BY <1>1, <1>4, <2>1, <2>2
  <1> QED
    BY <1>3, <1>4

\* Resetting slabs that have no entry.
LEMMA ResetKeeps ==
  ASSUME CacheTypeOK, CacheTypeOK', SlabsSound,
         UNCHANGED <<data, index_table, put_pc, put_slot>>,
         \A s \in Slabs : \/ slab'[s] = slab[s]
                          \/ slab'[s] = ResetHeader /\ Vacant(s) /\ PutBit(s) = 0
  PROVE  SlabsSound'
  <1>1. EntriesSound'
    BY EntriesKept DEF SlabsSound
  <1>2. SlotsFilled'
    BY SlotsKept DEF SlabsSound
  <1>3. ResetHeader.nr_used >= 0
    BY DEF ResetHeader
  <1>4. NrUsedCoversEntries'
    BY <1>3, CountKept DEF SlabsSound
  <1> QED
    BY <1>1, <1>2, <1>4 DEF SlabsSound

\* Writing a slab to a blank block.
LEMMA CopyKeeps ==
  ASSUME CacheTypeOK, CacheTypeOK', SlabsSound, NEW src \in Slabs, NEW dst \in Slabs, src # dst,
         flush_mslab_to_dslab(src, dst), slab[dst] = ResetHeader, PutBit(dst) = 0,
         UNCHANGED <<index_table, put_pc, put_slot>>
  PROVE  SlabsSound' /\ Copied(src, dst)' /\ Vacant(dst)'
  <1>1. Vacant(dst)
    BY BlankIsVacant DEF SlabsSound
  <1>2. /\ slab'[dst] = slab[src] /\ data'[dst] = data[src]
        /\ \A s \in Slabs \ {dst} : slab'[s] = slab[s] /\ data'[s] = data[s]
    BY DEF flush_mslab_to_dslab, CacheTypeOK
  <1>3. EntriesSound'
    BY <1>1, <1>2, EntriesKept DEF SlabsSound
  <1>4. SlotsFilled'
    BY <1>2, SlotsKept DEF SlabsSound
  <1>5. slab[src].nr_used >= 0
    <2>1. slab[src].nr_used >= Cardinality(EntriesOf(src)) + PutBit(src)
      BY NrUsedCovers DEF SlabsSound
    <2>2. Cardinality(EntriesOf(src)) \in Nat
      BY DigestCount DEF EntriesOf
    <2>3. PutBit(src) \in Nat
      BY DEF PutBit
    <2>4. slab[src].nr_used \in Int
      BY DEF CacheTypeOK, SlabHeader
    <2> QED
      BY <2>1, <2>2, <2>3, <2>4
  <1>6. NrUsedCoversEntries'
    BY <1>1, <1>2, <1>5, CountKept DEF SlabsSound
  <1>7. Copied(src, dst)' /\ Vacant(dst)'
    BY <1>1, <1>2 DEF Copied, Vacant
  <1> QED
    BY <1>3, <1>4, <1>6, <1>7 DEF SlabsSound

\* Pointing the entries of a slab to its image on a block that has none.
LEMMA ModifyIndexKeeps ==
  ASSUME CacheTypeOK, CacheTypeOK', SlabsSound, NEW src \in Slabs, NEW dst \in Slabs, src # dst,
         modify_index_to(src, dst), Copied(src, dst), Vacant(dst),
         PutBit(src) = 0, PutBit(dst) = 0, UNCHANGED <<data, put_pc, put_slot>>
  PROVE  /\ SlabsSound' /\ Vacant(src)'
         /\ \A g \in Digests : \/ index_table'[g] = index_table[g]
                               \/ /\ index_table[g] # None /\ index_table[g].slab = src
                                  /\ index_table'[g] = [slab |-> dst, slot |-> index_table[g].slot]
         /\ \A s \in Slabs : /\ slab'[s].cid = slab[s].cid
                             /\ slab'[s].nr_alloc = slab[s].nr_alloc
                             /\ s \notin {src, dst} => slab'[s] = slab[s]
  <1> USE DEF SlabsSound
  <1>1. LiveDigests(src) = EntriesOf(src)
    BY LiveIsEntries
  <1>2. ASSUME NEW g \in Digests
        PROVE  index_table'[g] = IF index_table[g] # None /\ index_table[g].slab = src
                                 THEN [slab |-> dst, slot |-> index_table[g].slot]
                                 ELSE index_table[g]
    <2>1. index_table'[g] = IF g \in EntriesOf(src)
                            THEN [index_table[g] EXCEPT !.slab = dst] ELSE index_table[g]
      BY <1>1 DEF modify_index_to
    <2>2. CASE g \in EntriesOf(src)
      <3>1. index_table[g] \in IndexEntry
        BY <2>2 DEF EntriesOf, CacheTypeOK
      <3>2. [index_table[g] EXCEPT !.slab = dst] = [slab |-> dst, slot |-> index_table[g].slot]
        BY <3>1 DEF IndexEntry
      <3> QED
        BY <2>1, <2>2, <3>2 DEF EntriesOf
    <2>3. CASE g \notin EntriesOf(src)
      BY <2>1, <2>3 DEF EntriesOf
    <2> QED
      BY <2>2, <2>3
  <1>3. ASSUME NEW g \in Digests, index_table[g] # None, index_table[g].slab = src
         PROVE  /\ index_table'[g] # None
                /\ index_table'[g].slab = dst /\ index_table'[g].slot = index_table[g].slot
    <2>1. index_table'[g] = [slab |-> dst, slot |-> index_table[g].slot]
      BY <1>2, <1>3
    <2>2. index_table[g].slot \in Nat
      BY <1>3 DEF CacheTypeOK, IndexEntry
    <2>3. index_table'[g] \in IndexEntry
      BY <2>1, <2>2 DEF IndexEntry
    <2> QED
      BY <2>1, <2>3, NoneAssumption
  <1>4. ASSUME NEW g \in Digests, ~(index_table[g] # None /\ index_table[g].slab = src)
         PROVE  index_table'[g] = index_table[g]
    BY <1>2, <1>4
  <1> DEFINE n == Cardinality(EntriesOf(src))
  <1>5. n \in Nat
    BY DigestCount DEF EntriesOf
  <1>6. /\ slab'[src] = [slab[src] EXCEPT !.nr_used = 0]
        /\ slab'[dst] = [slab[dst] EXCEPT !.nr_used = n]
        /\ \A s \in Slabs : s \notin {src, dst} => slab'[s] = slab[s]
    BY <1>1 DEF modify_index_to, CacheTypeOK
  <1> HIDE DEF n
  <1>7. ASSUME NEW s \in Slabs
        PROVE  slab'[s].cid = slab[s].cid /\ slab'[s].nr_alloc = slab[s].nr_alloc
    <2>1. slab[s] \in SlabHeader
      BY DEF CacheTypeOK
    <2>2. \/ slab'[s] = [slab[s] EXCEPT !.nr_used = 0]
          \/ slab'[s] = [slab[s] EXCEPT !.nr_used = n]
          \/ slab'[s] = slab[s]
      BY <1>6
    <2> QED
      BY <2>1, <2>2 DEF SlabHeader
  <1>8. EntriesSound'
    <2> SUFFICES ASSUME NEW g \in Digests, index_table'[g] # None
                 PROVE  /\ index_table'[g].slot < slab'[index_table'[g].slab].nr_alloc
                        /\ DigestOf[data'[index_table'[g].slab][index_table'[g].slot].key] = g
      BY DEF EntriesSound
    <2>1. CASE index_table[g] # None /\ index_table[g].slab = src
      BY <1>7, <1>3, <2>1 DEF EntriesSound, Copied
    <2>2. CASE ~(index_table[g] # None /\ index_table[g].slab = src)
      <3>1. index_table'[g] = index_table[g]
        BY <1>4, <2>2
      <3>2. index_table[g].slab \in Slabs
        BY <3>1, EntrySlot
      <3> QED
        BY <1>7, <3>1, <3>2 DEF EntriesSound
    <2> QED
      BY <2>1, <2>2
  <1>9. SlotsFilled'
    BY <1>7, SlotsKept
  <1>10. Vacant(src)'
    <2> SUFFICES ASSUME NEW g \in Digests, index_table'[g] # None
                 PROVE  index_table'[g].slab # src
      BY DEF Vacant
    <2>1. CASE index_table[g] # None /\ index_table[g].slab = src
      BY <1>3, <2>1
    <2>2. CASE ~(index_table[g] # None /\ index_table[g].slab = src)
      BY <1>4, <2>2
    <2> QED
      BY <2>1, <2>2
  <1>11. NrUsedCoversEntries'
    <2> SUFFICES ASSUME NEW s \in Slabs
                 PROVE  slab'[s].nr_used >= Cardinality(EntriesOf(s)') + PutBit(s)'
      BY DEF NrUsedCoversEntries, PutBit
    <2>1. PutBit(s)' = PutBit(s)
      BY DEF PutBit
    <2>2. CASE s = src
      <3>1. Cardinality(EntriesOf(s)') = 0
        BY <1>10, <2>2, FS_EmptySet DEF Vacant, EntriesOf
      <3>2. slab'[s].nr_used = 0
        BY <1>6, <2>2 DEF CacheTypeOK, SlabHeader
      <3> QED
        BY <2>1, <2>2, <3>1, <3>2
    <2>3. CASE s = dst
      <3>1. EntriesOf(s)' = EntriesOf(src)
        <4>1. ASSUME NEW g \in Digests
              PROVE  (index_table'[g] # None /\ index_table'[g].slab = dst) <=>
                     (index_table[g] # None /\ index_table[g].slab = src)
          BY <1>3, <1>4 DEF Vacant
        <4> QED
          BY <2>3, <4>1 DEF EntriesOf
      <3>2. slab'[s].nr_used = n
        BY <1>6, <2>3 DEF CacheTypeOK, SlabHeader
      <3> QED
        BY <1>5, <2>1, <2>3, <3>1, <3>2 DEF n
    <2>4. CASE s \notin {src, dst}
      <3>1. ASSUME NEW g \in Digests
            PROVE  (index_table'[g] # None /\ index_table'[g].slab = s) <=>
                   (index_table[g] # None /\ index_table[g].slab = s)
        BY <1>3, <1>4, <2>4
      <3>2. EntriesOf(s)' = EntriesOf(s)
        BY <3>1 DEF EntriesOf
      <3>3. slab'[s] = slab[s]
        BY <1>6, <2>4
      <3> QED
        BY <2>1, <3>3, <3>2, NrUsedCovers
    <2> QED
      BY <2>2, <2>3, <2>4
  <1> QED
    BY <1>2, <1>6, <1>7, <1>8, <1>9, <1>10, <1>11

-----------------------------------------------------------------------------
(* What one thread relies on, the others leave alone.                      *)

USE DEF Slabs, MemSlabs

\* A step leaves the contents of the slabs in S alone; clients may lower the count
\* of valid objects of a slab that has some.
Untouched(S) ==
    \A s \in S : /\ slab'[s].cid = slab[s].cid
                 /\ slab'[s].nr_alloc = slab[s].nr_alloc
                 /\ slab[s] = ResetHeader => slab'[s] = ResetHeader
                 /\ data'[s] = data[s]

\* A step makes no entry name a slab of S that did not name it before.
NoNewEntries(S) ==
    \A g \in Digests : (index_table'[g] # None /\ index_table'[g].slab \in S) =>
        index_table[g] # None /\ index_table[g].slab = index_table'[g].slab

\* The slabs the collector works on, and those nobody but a Put touches.
GcSlabs == {gc_buffer} \cup (DSlabs \ {flush_dslab})
PutSlabs == MSlabs \ {flush_mslab}

\* A slab without entries stays without.
LEMMA VacantKept ==
  ASSUME NEW S, NoNewEntries(S), NEW s \in S, Vacant(s)
  PROVE  Vacant(s)'
  BY DEF NoNewEntries, Vacant

\* The slab of a Put is neither free nor in the hands of the flush thread.
LEMMA PutSlotSlab ==
  ASSUME Ownership, PutHasSlot
  PROVE  put_slot.slab \in PutSlabs /\ put_slot.slab \notin mslab_free /\ put_slot.slot \in Nat
  <1>1. put_slot \in [slab : MSlabs, slot : Nat]
    BY DEF Ownership, TypeOK, ClientTypeOK, PutHolding
  <1>2. put_slot.slab \in Partial \cup PutHolds
    BY DEF PutHolds
  <1>3. put_slot.slab \notin {flush_mslab} \ {None} /\ put_slot.slab \notin mslab_free
    BY <1>2 DEF Ownership, OneHand, MslabHands, Disjoint
  <1> QED
    BY <1>1, <1>3, NoneAssumption DEF PutSlabs

\* Hence no other slab is counted for it.
LEMMA NoPutBit ==
  ASSUME Ownership, NEW s, s \notin PutSlabs \/ s \in mslab_free
  PROVE  PutBit(s) = 0
  BY PutSlotSlab DEF PutBit, PutHasSlot

\* What a Put relies on.
LEMMA PutFrame ==
  ASSUME Ownership, PutContents, UNCHANGED <<putVars, slab_partial>>, Untouched(PutSlabs),
         \A g \in Digests : index_table[g] = None => index_table'[g] = None
  PROVE  PutContents'
  <1>1. ASSUME NEW c \in Classes, NEW m \in slab_partial[c]
        PROVE  slab'[m].cid = c /\ slab'[m].nr_alloc < NrSlots(c)
    <2>1. m \in Partial /\ m \in MSlabs /\ m # None
      BY NoneAssumption DEF Partial, Ownership, TypeOK, CacheTypeOK
    <2>2. m \in PutSlabs
      BY <2>1 DEF PutSlabs, Ownership, OneHand, MslabHands, Disjoint
    <2> QED
      BY <2>2 DEF Untouched, PutContents
  <1>2. ASSUME put_pc \in {"index", "wait_index"}
        PROVE  /\ put_slot.slot < slab'[put_slot.slab].nr_alloc
               /\ data'[put_slot.slab][put_slot.slot] = put_arg
    <2>1. put_slot.slab \in PutSlabs
      BY <1>2, PutSlotSlab DEF PutHasSlot
    <2> QED
      BY <1>2, <2>1 DEF Untouched, PutContents
  <1>3. put_pc = "wait_index" => index_table'[PutDigest] = None
    <2>1. put_pc = "wait_index" => PutDigest \in Digests
      BY ConstantsAssumption DEF PutContents, PutDigest, Slot
    <2> QED
      BY <2>1 DEF PutContents
  <1>4. put_pc # "idle" => put_arg \in Slot
    BY DEF PutContents
  <1>5. PutDigest' = PutDigest
    BY DEF PutDigest, putVars
  <1> QED
    BY <1>1, <1>2, <1>3, <1>4, <1>5 DEF PutContents, putVars

\* What the flush thread relies on.
LEMMA FlushFrame ==
  ASSUME Ownership, FlushContents, UNCHANGED flushVars,
         Untouched({flush_mslab, flush_dslab} \cap Slabs),
         NoNewEntries({flush_mslab, flush_dslab} \cap Slabs)
  PROVE  FlushContents'
  <1> DEFINE S == {flush_mslab, flush_dslab} \cap Slabs
  <1>1. flush_pc \in {"write", "index"} => flush_mslab \in S /\ flush_dslab \in S
    BY DEF Ownership, FlushHolding, TypeOK, FlushTypeOK
  <1>2. flush_pc = "recycle" => flush_mslab \in S
    BY DEF Ownership, FlushHolding, TypeOK, FlushTypeOK
  <1>3. Untouched(S) /\ NoNewEntries(S)
    OBVIOUS
  <1> HIDE DEF S
  <1>4. flush_pc = "write" => slab'[flush_dslab] = ResetHeader
    BY <1>1, <1>3 DEF Untouched, FlushContents
  <1>5. flush_pc = "index" => Vacant(flush_dslab)' /\ Copied(flush_mslab, flush_dslab)'
    <2>1. flush_pc = "index" => Vacant(flush_dslab)'
      <3>1. \A s \in S : Vacant(s) => Vacant(s)'
        BY <1>3, VacantKept
      <3> QED
        BY <1>1, <3>1 DEF FlushContents, Vacant, flushVars
    <2>2. flush_pc = "index" => Copied(flush_mslab, flush_dslab)'
      BY <1>1, <1>3 DEF Untouched, FlushContents, Copied, flushVars
    <2> QED
      BY <2>1, <2>2
  <1>6. flush_pc = "recycle" => Vacant(flush_mslab)'
    <2>1. \A s \in S : Vacant(s) => Vacant(s)'
      BY <1>3, VacantKept
    <2> QED
      BY <1>2, <2>1 DEF FlushContents, Vacant, flushVars
  <1> QED
    BY <1>4, <1>5, <1>6 DEF FlushContents, flushVars

\* What the collector has in hand are its slabs.
LEMMA GcHasSlabs ==
  ASSUME Ownership, GcContents
  PROVE  /\ gc_buffer \in GcSlabs
         /\ free_list \subseteq GcSlabs
         /\ gc_pc \in {"move", "index"} => ops_slab \in GcSlabs
         /\ gc_pc \in {"select", "evict", "batch", "take"} => to_drop \subseteq GcSlabs
         /\ todo \subseteq GcSlabs
  <1> USE DEF GcSlabs
  <1>1. flush_dslab # None => flush_dslab \notin dslab_full \cup GcHolds
    BY DEF Ownership, OneHand, DslabHands, Disjoint
  <1>2. None \notin DSlabs
    BY NoneAssumption
  <1>3. free_list \subseteq GcSlabs
    BY <1>1, <1>2 DEF Ownership, TypeOK, GcTypeOK, GcHolds
  <1>4. gc_pc \in {"move", "index"} => ops_slab \in GcSlabs
    BY <1>1, <1>2 DEF GcContents, GcTarget, Ownership, TypeOK, CacheTypeOK
  <1>5. gc_pc \in {"select", "evict", "batch", "take"} => to_drop \subseteq GcSlabs
    BY <1>1, <1>2 DEF Ownership, TypeOK, GcTypeOK, GcHolds, GcHolding
  <1>6. todo \subseteq GcSlabs
    BY <1>3, <1>5 DEF GcContents, GcVisited
  <1> QED
    BY <1>3, <1>4, <1>5, <1>6

\* Entries that name none of the slabs of D anew are no more than before.
LEMMA EntriesInShrink ==
  ASSUME NEW S, NoNewEntries(S), NEW D \in SUBSET S
  PROVE  /\ Cardinality(EntriesIn(D)') \in Nat /\ Cardinality(EntriesIn(D)) \in Nat
         /\ Cardinality(EntriesIn(D)') <= Cardinality(EntriesIn(D))
  <1>1. EntriesIn(D)' \subseteq EntriesIn(D) /\ EntriesIn(D) \subseteq Digests
    BY DEF NoNewEntries, EntriesIn
  <1> QED
    BY <1>1, FewerDigests

\* What the collector relies on.
LEMMA GcFrame ==
  ASSUME Ownership, GcContents, UNCHANGED gcVars, dslab_full \subseteq dslab_full',
         Untouched(GcSlabs), NoNewEntries(GcSlabs)
  PROVE  GcContents'
  <1> USE DEF gcVars, batchVars
  <1>1. /\ gc_buffer \in GcSlabs
        /\ free_list \subseteq GcSlabs
        /\ gc_pc \in {"move", "index"} => ops_slab \in GcSlabs
        /\ gc_pc \in {"select", "evict", "batch", "take"} => to_drop \subseteq GcSlabs
        /\ todo \subseteq GcSlabs
    BY GcHasSlabs
  <1>2. \A s \in GcSlabs : Vacant(s) => Vacant(s)'
    BY VacantKept
  <1> HIDE DEF GcSlabs
  <1>3. GcTarget'
    <2>1. gc_pc \notin {"move", "index"} => Vacant(gc_buffer)'
      BY <1>1, <1>2 DEF GcContents, GcTarget
    <2>2. gc_pc = "index" => Copied(gc_buffer, ops_slab)' /\ Vacant(ops_slab)'
      <3>1. gc_pc = "index" => Vacant(ops_slab)'
        BY <1>1, <1>2 DEF GcContents, GcTarget, Vacant
      <3>2. gc_pc = "index" => Copied(gc_buffer, ops_slab)'
        BY <1>1 DEF GcContents, GcTarget, Copied, Untouched
      <3> QED
        BY <3>1, <3>2
    <2>3. gc_pc = "move" => slab'[ops_slab] = ResetHeader
      BY <1>1 DEF GcContents, GcTarget, Untouched
    <2>4. gc_pc \in {"move", "index"} => slab'[gc_buffer].cid = gc_class
      BY <1>1 DEF GcContents, GcTarget, Untouched
    <2> QED
      BY <2>1, <2>2, <2>3, <2>4 DEF GcContents, GcTarget
  <1>4. GcVisited'
    <2>1. \A d \in free_list \ todo : Vacant(d)'
      BY <1>1, <1>2 DEF GcContents, GcVisited
    <2>2. gc_pc = "evict" => \A d \in to_drop \ todo : Vacant(d)'
      BY <1>1, <1>2 DEF GcContents, GcVisited
    <2> QED
      BY <2>1, <2>2 DEF GcContents, GcVisited, Vacant
  <1>5. GcBatch'
    <2>1. gc_pc \in {"batch", "take"} => \A d \in to_drop : slab'[d].cid = gc_class
      BY <1>1 DEF GcContents, GcBatch, Untouched
    <2>2. gc_pc = "move" => \A d \in todo : slab'[d].cid = gc_class
      BY <1>1 DEF GcContents, GcBatch, Untouched
    <2>3. (gc_pc \in {"batch", "take"} /\ gc_class < NrSlabClass) =>
             Cardinality(EntriesIn(to_drop)') <= nr_slots_moved
      <3> SUFFICES ASSUME gc_pc \in {"batch", "take"}, gc_class < NrSlabClass
                   PROVE  Cardinality(EntriesIn(to_drop)') <= nr_slots_moved
        OBVIOUS
      <3>1. Cardinality(EntriesIn(to_drop)) <= nr_slots_moved
        BY DEF GcContents, GcBatch
      <3>2. /\ Cardinality(EntriesIn(to_drop)') \in Nat /\ Cardinality(EntriesIn(to_drop)) \in Nat
            /\ Cardinality(EntriesIn(to_drop)') <= Cardinality(EntriesIn(to_drop))
        <4>1. to_drop \in SUBSET GcSlabs
          BY <1>1
        <4>2. \A D \in SUBSET GcSlabs :
                 /\ Cardinality(EntriesIn(D)') \in Nat /\ Cardinality(EntriesIn(D)) \in Nat
                 /\ Cardinality(EntriesIn(D)') <= Cardinality(EntriesIn(D))
          BY EntriesInShrink
        <4> QED
          BY <4>1, <4>2 DEF EntriesIn
      <3>3. nr_slots_moved \in Int
        BY DEF Ownership, TypeOK, GcTypeOK
      <3> QED
        BY <3>1, <3>2, <3>3
    <2>4. gc_pc = "move" =>
             Cardinality(EntriesIn(todo)') + slab'[gc_buffer].nr_alloc <= NrSlots(gc_class)
      <3> SUFFICES ASSUME gc_pc = "move"
                   PROVE  Cardinality(EntriesIn(todo)') + slab'[gc_buffer].nr_alloc
                              <= NrSlots(gc_class)
        OBVIOUS
      <3>1. Cardinality(EntriesIn(todo)) + slab[gc_buffer].nr_alloc <= NrSlots(gc_class)
        BY DEF GcContents, GcBatch
      <3>2. /\ Cardinality(EntriesIn(todo)') \in Nat /\ Cardinality(EntriesIn(todo)) \in Nat
            /\ Cardinality(EntriesIn(todo)') <= Cardinality(EntriesIn(todo))
        <4>1. todo \in SUBSET GcSlabs
          BY <1>1
        <4>2. \A D \in SUBSET GcSlabs :
                 /\ Cardinality(EntriesIn(D)') \in Nat /\ Cardinality(EntriesIn(D)) \in Nat
                 /\ Cardinality(EntriesIn(D)') <= Cardinality(EntriesIn(D))
          BY EntriesInShrink
        <4> QED
          BY <4>1, <4>2 DEF EntriesIn
      <3>3. slab'[gc_buffer].nr_alloc = slab[gc_buffer].nr_alloc /\ slab[gc_buffer].nr_alloc \in Nat
        BY <1>1 DEF Untouched, Ownership, TypeOK, CacheTypeOK, SlabHeader
      <3>4. NrSlots(gc_class) \in Int
        <4>1. gc_class \in Classes
          BY ConstantsAssumption DEF GcContents, GcBatch, Classes, Ownership, TypeOK, GcTypeOK
        <4> QED
          BY <4>1, SlotRange
      <3> QED
        BY <3>1, <3>2, <3>3, <3>4
    <2> QED
      BY <2>1, <2>2, <2>3, <2>4 DEF GcContents, GcBatch, EntriesIn
  <1> QED
    BY <1>3, <1>4, <1>5 DEF GcContents

\* Lists that gain no slab and whose slabs are left alone stay lists of blanks.
LEMMA BlankFrame ==
  ASSUME BlankHeaders,
         \A s \in (mslab_free \cup dslab_free \cup ops_pool)' :
            \/ s \in mslab_free \cup dslab_free \cup ops_pool /\ Untouched({s})
            \/ slab'[s] = ResetHeader
  PROVE  BlankHeaders'
  BY DEF BlankHeaders, Untouched

-----------------------------------------------------------------------------
(* Steps of the clients.                                                   *)

\* The slabs the other two threads work on.
OtherSlabs == Slabs \ PutSlabs

\* A step that changes neither slabs nor index, and counts no slot of a Put anew.
LEMMA SoundFrame ==
  ASSUME SlabsSound, UNCHANGED <<slab, data, index_table>>,
         \A s \in Slabs : PutBit(s)' = PutBit(s)
  PROVE  SlabsSound'
  <1>1. EntriesSound' /\ SlotsFilled'
    BY DEF SlabsSound, EntriesSound, SlotsFilled
  <1>2. \A s \in Slabs : EntriesOf(s)' = EntriesOf(s)
    BY DEF EntriesOf
  <1>3. \A s \in Slabs : slab[s].nr_used >= Cardinality(EntriesOf(s)) + PutBit(s)
    BY NrUsedCovers DEF SlabsSound
  <1>4. NrUsedCoversEntries'
    BY <1>2, <1>3 DEF NrUsedCoversEntries, PutBit
  <1> QED
    BY <1>1, <1>4 DEF SlabsSound

\* slot_alloc fills a slot that no entry names.
LEMMA SlotAllocKeeps ==
  ASSUME Ownership, CacheTypeOK', Contents, slot_alloc
  PROVE  /\ SlabsSound' /\ BlankHeaders' /\ PutContents'
         /\ Untouched(OtherSlabs) /\ NoNewEntries(OtherSlabs)
  <1> USE DEF Contents
  <1>1. CacheTypeOK /\ MslabHands
    BY DEF Ownership, TypeOK, OneHand
  <1>2. PICK c \in get_slab_class(put_arg) : \E m \in slab_partial[c] :
           /\ slab' = [slab EXCEPT ![m] = Allocated(@)]
           /\ data' = [data EXCEPT ![m][slab[m].nr_alloc] = put_arg]
           /\ slab_partial' = IF is_full(slab'[m])
                              THEN [slab_partial EXCEPT ![c] = @ \ {m}] ELSE slab_partial
           /\ put_slot' = [slab |-> m, slot |-> slab[m].nr_alloc]
    BY DEF slot_alloc
  <1>3. PICK m \in slab_partial[c] :
           /\ slab' = [slab EXCEPT ![m] = Allocated(@)]
           /\ data' = [data EXCEPT ![m][slab[m].nr_alloc] = put_arg]
           /\ slab_partial' = IF is_full(slab'[m])
                              THEN [slab_partial EXCEPT ![c] = @ \ {m}] ELSE slab_partial
           /\ put_slot' = [slab |-> m, slot |-> slab[m].nr_alloc]
    BY <1>2
  <1>4. /\ put_pc = "alloc" /\ put_pc' = "index"
        /\ UNCHANGED <<put_arg, index_table, mslab_free, dslab_free, ops_pool>>
    BY DEF slot_alloc, dslabVars
  <1>5. c \in Classes /\ m \in MSlabs /\ m \in Slabs /\ m \in Partial
    BY <1>1, <1>3 DEF get_slab_class, CacheTypeOK, Partial
  <1>6. put_arg \in Slot /\ KVSize[put_arg.key][put_arg.value] <= SlotSize[c]
    <2>1. put_arg \in Slot
      BY <1>4 DEF PutContents
    <2>2. /\ SlotSize[c] >= KVSize[put_arg.key][put_arg.value]
          /\ SlotSize[c] \in Int /\ KVSize[put_arg.key][put_arg.value] \in Int
      BY <1>5, <2>1, ConstantsAssumption DEF get_slab_class, Slot
    <2> QED
      BY <2>1, <2>2
  <1> DEFINE i == slab[m].nr_alloc
  <1>7. slab[m].cid = c /\ i \in Nat /\ i < NrSlots(c) /\ slab[m].nr_used \in Int
    BY <1>1, <1>3, <1>5 DEF PutContents, CacheTypeOK, SlabHeader
  <1>8. i \in SlotIds /\ NrSlots(c) \in Nat
    BY <1>5, <1>7, SlotRange
  <1>9. /\ slab'[m].cid = c /\ slab'[m].nr_alloc = i + 1
        /\ slab'[m].nr_used = slab[m].nr_used + 1
        /\ \A s \in Slabs : s # m => slab'[s] = slab[s] /\ data'[s] = data[s]
    BY <1>1, <1>3, <1>5, <1>7 DEF Allocated, CacheTypeOK, SlabHeader
  <1>10. /\ data'[m][i] = put_arg
        /\ \A j \in SlotIds : j # i => data'[m][j] = data[m][j]
    BY <1>1, <1>3, <1>5, <1>8 DEF CacheTypeOK
  <1>11. put_slot'.slab = m /\ put_slot'.slot = i
    BY <1>3
  <1> HIDE DEF i
  <1>12. m # flush_mslab /\ m \notin mslab_free \cup dslab_free \cup ops_pool
    <2>1. m \notin {flush_mslab} \ {None} /\ m \notin mslab_free /\ m # None
      BY <1>1, <1>5, NoneAssumption DEF MslabHands, Disjoint
    <2> QED
      BY <1>1, <1>5, <2>1, SlabsAssumption DEF CacheTypeOK
  <1>13. EntriesSound'
    <2> SUFFICES ASSUME NEW g \in Digests, index_table[g] # None
                 PROVE  /\ index_table[g].slot < slab'[index_table[g].slab].nr_alloc
                        /\ DigestOf[data'[index_table[g].slab][index_table[g].slot].key] = g
      BY <1>4 DEF EntriesSound
    <2>1. /\ index_table[g].slab \in Slabs /\ index_table[g].slot \in SlotIds
          /\ index_table[g].slot < slab[index_table[g].slab].nr_alloc
          /\ DigestOf[data[index_table[g].slab][index_table[g].slot].key] = g
      BY <1>1, EntrySlot DEF SlabsSound, EntriesSound
    <2>2. index_table[g].slot \in Int
      BY <2>1 DEF SlotIds
    <2>3. CASE index_table[g].slab = m
      <3>1. index_table[g].slot < i
        BY <2>1, <2>3 DEF i
      <3> QED
        BY <1>7, <1>9, <1>10, <2>1, <2>2, <2>3, <3>1
    <2>4. CASE index_table[g].slab # m
      BY <1>9, <2>1, <2>4
    <2> QED
      BY <2>3, <2>4
  <1>14. SlotsFilled'
    <2> SUFFICES ASSUME NEW s \in Slabs
                 PROVE  /\ slab'[s].nr_alloc <= NrSlots(slab'[s].cid)
                        /\ \A j \in SlotIds : j < slab'[s].nr_alloc =>
                              /\ data'[s][j] \in Slot
                              /\ KVSize[data'[s][j].key][data'[s][j].value]
                                    <= SlotSize[slab'[s].cid]
      BY DEF SlotsFilled
    <2>1. CASE s = m
      <3>1. i + 1 <= NrSlots(c)
        BY <1>7, <1>8
      <3>2. ASSUME NEW j \in SlotIds, j < i + 1
            PROVE  /\ data'[m][j] \in Slot
                   /\ KVSize[data'[m][j].key][data'[m][j].value] <= SlotSize[c]
        <4>1. CASE j = i
          BY <1>6, <1>10, <4>1
        <4>2. CASE j # i
          <5>1. j < i
            BY <1>7, <3>2, <4>2 DEF SlotIds
          <5> QED
            BY <1>5, <1>7, <1>10, <4>2, <5>1 DEF SlabsSound, SlotsFilled, i
        <4> QED
          BY <4>1, <4>2
      <3> QED
        BY <1>9, <2>1, <3>1, <3>2
    <2>2. CASE s # m
      BY <1>9, <2>2 DEF SlabsSound, SlotsFilled
    <2> QED
      BY <2>1, <2>2
  <1>15. NrUsedCoversEntries'
    <2> SUFFICES ASSUME NEW s \in Slabs
                 PROVE  slab'[s].nr_used >= Cardinality(EntriesOf(s)') + PutBit(s)'
      BY DEF NrUsedCoversEntries, PutBit
    <2>1. EntriesOf(s)' = EntriesOf(s) /\ Cardinality(EntriesOf(s)) \in Nat
      BY <1>4, DigestCount DEF EntriesOf
    <2>2. PutBit(s) = 0 /\ PutBit(s)' = IF s = m THEN 1 ELSE 0
      BY <1>4, <1>11 DEF PutBit
    <2>3. slab[s].nr_used >= Cardinality(EntriesOf(s)) + PutBit(s)
      BY NrUsedCovers DEF SlabsSound
    <2>4. CASE s = m
      <3> DEFINE n == Cardinality(EntriesOf(s))
      <3>1. n \in Nat /\ slab[m].nr_used >= n + 0 /\ slab'[s].nr_used = slab[m].nr_used + 1
        BY <1>9, <2>1, <2>2, <2>3, <2>4
      <3> HIDE DEF n
      <3>2. slab'[s].nr_used >= n + 1
        BY <1>7, <3>1
      <3> QED
        BY <2>1, <2>2, <2>4, <3>2 DEF n
    <2>5. CASE s # m
      BY <1>9, <2>1, <2>2, <2>3, <2>5
    <2> QED
      BY <2>4, <2>5
  <1>16. BlankHeaders'
    <2>1. \A s \in (mslab_free \cup dslab_free \cup ops_pool)' : slab'[s] = slab[s]
      BY <1>1, <1>4, <1>9, <1>12 DEF CacheTypeOK
    <2> QED
      BY <1>4, <2>1 DEF BlankHeaders
  <1>17. PutContents'
    <2>1. ASSUME NEW b \in Classes, NEW n \in slab_partial'[b]
          PROVE  slab'[n].cid = b /\ slab'[n].nr_alloc < NrSlots(b)
      <3>1. n \in slab_partial[b] /\ n \in Slabs
        BY <1>1, <1>3, <1>5, <2>1 DEF CacheTypeOK
      <3>2. CASE n = m
        <4>1. b = c
          BY <1>1, <1>3, <1>5, <3>1, <3>2 DEF MslabHands
        <4>2. ~is_full(slab'[m])
          BY <1>1, <1>3, <1>5, <2>1, <3>2, <4>1 DEF CacheTypeOK
        <4>3. i + 1 # NrSlots(c)
          BY <1>9, <4>2 DEF is_full
        <4> QED
          BY <1>7, <1>8, <1>9, <3>2, <4>1, <4>3
      <3>3. CASE n # m
        BY <1>9, <3>1, <3>3 DEF PutContents
      <3> QED
        BY <3>2, <3>3
    <2>2. /\ put_slot'.slot < slab'[put_slot'.slab].nr_alloc
          /\ data'[put_slot'.slab][put_slot'.slot] = put_arg
      BY <1>7, <1>9, <1>10, <1>11
    <2> QED
      BY <1>4, <1>6, <2>1, <2>2 DEF PutContents
  <1>18. Untouched(OtherSlabs)
    BY <1>5, <1>9, <1>12 DEF Untouched, OtherSlabs, PutSlabs
  <1>19. NoNewEntries(OtherSlabs)
    BY <1>4 DEF NoNewEntries
  <1> QED
    BY <1>13, <1>14, <1>15, <1>16, <1>17, <1>18, <1>19 DEF SlabsSound

\* TakeFreeMslab opens a blank mslab.
LEMMA TakeFreeMslabKeeps ==
  ASSUME Ownership, CacheTypeOK', Contents, TakeFreeMslab
  PROVE  /\ SlabsSound' /\ BlankHeaders' /\ PutContents'
         /\ Untouched(OtherSlabs) /\ NoNewEntries(OtherSlabs)
  <1> USE DEF Contents
  <1>1. CacheTypeOK /\ MslabHands
    BY DEF Ownership, TypeOK, OneHand
  <1>2. PICK c \in get_slab_class(put_arg), m \in mslab_free :
           /\ mslab_free' = mslab_free \ {m}
           /\ slab' = [slab EXCEPT ![m].cid = c]
           /\ slab_partial' = [slab_partial EXCEPT ![c] = {m}]
    BY DEF TakeFreeMslab
  <1>3. /\ put_pc = "alloc"
        /\ UNCHANGED <<put_pc, put_arg, put_slot, data, index_table, dslab_free, ops_pool>>
    BY DEF TakeFreeMslab, clientVars, putVars, dslabVars
  <1>4. c \in Classes /\ m \in MSlabs /\ m \in Slabs /\ slab[m] = ResetHeader
    BY <1>1, <1>2 DEF get_slab_class, CacheTypeOK, BlankHeaders
  <1>5. /\ slab'[m] = [ResetHeader EXCEPT !.cid = c]
        /\ \A s \in Slabs : s # m => slab'[s] = slab[s]
    BY <1>1, <1>2, <1>4 DEF CacheTypeOK
  <1>6. slab'[m].cid = c /\ slab'[m].nr_alloc = 0 /\ slab'[m].nr_used = 0
    BY <1>5 DEF ResetHeader
  <1>7. Vacant(m)
    BY <1>1, <1>4, BlankIsVacant DEF SlabsSound
  <1>8. m # flush_mslab /\ m \notin dslab_free \cup ops_pool
    <2>1. m \notin {flush_mslab} \ {None} /\ m # None
      BY <1>1, <1>2, <1>4, NoneAssumption DEF MslabHands, Disjoint
    <2> QED
      BY <1>1, <1>4, <2>1, SlabsAssumption DEF CacheTypeOK
  <1>9. NrSlots(c) \in Nat /\ 1 <= NrSlots(c)
    BY <1>4, SlotRange
  <1>10. EntriesSound'
    BY <1>1, <1>3, <1>5, <1>7, EntriesKept DEF SlabsSound
  <1>11. SlotsFilled'
    <2> SUFFICES ASSUME NEW s \in Slabs
                 PROVE  /\ slab'[s].nr_alloc <= NrSlots(slab'[s].cid)
                        /\ \A j \in SlotIds : j < slab'[s].nr_alloc =>
                              /\ data'[s][j] \in Slot
                              /\ KVSize[data'[s][j].key][data'[s][j].value]
                                    <= SlotSize[slab'[s].cid]
      BY DEF SlotsFilled
    <2>1. CASE s = m
      BY <1>6, <1>9, <2>1 DEF SlotIds
    <2>2. CASE s # m
      BY <1>3, <1>5, <2>2 DEF SlabsSound, SlotsFilled
    <2> QED
      BY <2>1, <2>2
  <1>12. NrUsedCoversEntries'
    <2>1. slab[m].nr_used = 0
      BY <1>4 DEF ResetHeader
    <2> QED
      BY <1>1, <1>3, <1>5, <1>6, <2>1, CountKept DEF SlabsSound
  <1>13. BlankHeaders'
    <2>1. \A s \in (mslab_free \cup dslab_free \cup ops_pool)' : slab'[s] = slab[s]
      BY <1>1, <1>2, <1>3, <1>5, <1>8 DEF CacheTypeOK
    <2> QED
      BY <1>2, <1>3, <2>1 DEF BlankHeaders
  <1>14. PutContents'
    <2>1. ASSUME NEW b \in Classes, NEW n \in slab_partial'[b]
          PROVE  slab'[n].cid = b /\ slab'[n].nr_alloc < NrSlots(b)
      <3>1. CASE b = c
        BY <1>1, <1>2, <1>6, <1>9, <2>1, <3>1 DEF CacheTypeOK
      <3>2. CASE b # c
        <4>1. n \in slab_partial[b] /\ n \in Slabs
          BY <1>1, <1>2, <2>1, <3>2 DEF CacheTypeOK
        <4>2. n # m
          BY <1>1, <1>2, <4>1 DEF MslabHands, Disjoint, Partial, CacheTypeOK
        <4> QED
          BY <1>5, <4>1, <4>2 DEF PutContents
      <3> QED
        BY <3>1, <3>2
    <2> QED
      BY <1>3, <2>1 DEF PutContents
  <1>15. Untouched(OtherSlabs)
    BY <1>3, <1>4, <1>5, <1>8 DEF Untouched, OtherSlabs, PutSlabs
  <1>16. NoNewEntries(OtherSlabs)
    BY <1>3 DEF NoNewEntries
  <1> QED
    BY <1>10, <1>11, <1>12, <1>13, <1>14, <1>15, <1>16 DEF SlabsSound

\* The entry of the Put's digest now names the Put's slot, and the slab of the old
\* entry, if there was one, counts one valid object less.
LEMMA PutEntryKeeps ==
  ASSUME Ownership, Contents, UNCHANGED <<data, put_slot, put_arg, slab_partial, mslab_free,
                                          dslab_free, ops_pool>>,
         put_pc \in {"index", "wait_index"}, put_pc' = "finish",
         index_table' = [index_table EXCEPT ![PutDigest] = put_slot],
         slab' = IF index_table[PutDigest] = None THEN slab
                 ELSE [slab EXCEPT ![index_table[PutDigest].slab].nr_used = @ - 1]
  PROVE  /\ SlabsSound' /\ BlankHeaders' /\ PutContents'
         /\ Untouched(OtherSlabs) /\ NoNewEntries(OtherSlabs)
  <1> USE DEF Contents
  <1> DEFINE g == PutDigest
             old == index_table[g]
             m == put_slot.slab
  <1>1. CacheTypeOK
    BY DEF Ownership, TypeOK
  <1>2. /\ put_arg \in Slot /\ put_slot.slot < slab[m].nr_alloc
        /\ data[m][put_slot.slot] = put_arg
    BY DEF PutContents
  <1>3. g \in Digests /\ DigestOf[put_arg.key] = g
    BY <1>2, ConstantsAssumption DEF PutDigest, Slot
  <1>4. m \in PutSlabs /\ m \in Slabs /\ m \notin mslab_free
    BY PutSlotSlab DEF PutHasSlot, PutSlabs
  <1>5. put_slot # None
    BY DEF Ownership, PutHolding, PutHasSlot
  <1>6. old # None => old.slab \in Slabs /\ ~Vacant(old.slab)
    BY <1>1, <1>3 DEF CacheTypeOK, IndexEntry, Vacant
  <1>7. index_table'[g] = put_slot /\ \A h \in Digests : h # g => index_table'[h] = index_table[h]
    BY <1>1, <1>3 DEF CacheTypeOK
  <1>8. ASSUME NEW s \in Slabs
        PROVE  /\ slab'[s].cid = slab[s].cid /\ slab'[s].nr_alloc = slab[s].nr_alloc
               /\ slab[s].nr_used \in Int
               /\ slab'[s].nr_used = IF old # None /\ old.slab = s
                                     THEN slab[s].nr_used - 1 ELSE slab[s].nr_used
               /\ ~(old # None /\ old.slab = s) => slab'[s] = slab[s]
    BY <1>1, <1>6 DEF CacheTypeOK, SlabHeader
  <1> HIDE DEF g, old, m
  <1>9. ASSUME NEW s \in Slabs, slab[s] = ResetHeader PROVE slab'[s] = ResetHeader
    <2>1. Vacant(s)
      BY <1>1, <1>9, BlankIsVacant DEF SlabsSound
    <2> QED
      BY <1>6, <1>8, <1>9, <2>1
  <1>10. EntriesSound'
    <2> SUFFICES ASSUME NEW h \in Digests, index_table'[h] # None
                 PROVE  /\ index_table'[h].slot < slab'[index_table'[h].slab].nr_alloc
                        /\ DigestOf[data[index_table'[h].slab][index_table'[h].slot].key] = h
      BY DEF EntriesSound
    <2>1. CASE h = g
      BY <1>2, <1>3, <1>4, <1>7, <1>8, <2>1 DEF m
    <2>2. CASE h # g
      <3>1. index_table'[h] = index_table[h]
        BY <1>7, <2>2
      <3>2. index_table[h].slab \in Slabs
        BY <1>1, <3>1 DEF CacheTypeOK, IndexEntry
      <3> QED
        BY <1>8, <3>1, <3>2 DEF SlabsSound, EntriesSound
    <2> QED
      BY <2>1, <2>2
  <1>11. SlotsFilled'
    BY <1>1, <1>8, SlotsKept DEF SlabsSound
  <1>12. NrUsedCoversEntries'
    <2> SUFFICES ASSUME NEW s \in Slabs
                 PROVE  slab'[s].nr_used >= Cardinality(EntriesOf(s)') + PutBit(s)'
      BY DEF NrUsedCoversEntries, PutBit
    <2> DEFINE E == EntriesOf(s)
               n == Cardinality(E)
    <2>1. PutBit(s)' = 0 /\ PutBit(s) = IF s = m THEN 1 ELSE 0
      BY DEF PutBit, m
    <2>2. slab[s].nr_used >= n + PutBit(s)
      BY NrUsedCovers DEF SlabsSound
    <2>3. EntriesOf(s)' = IF s = m THEN E \cup {g} ELSE E \ {g}
      <3>1. ASSUME NEW h \in Digests
            PROVE  (index_table'[h] # None /\ index_table'[h].slab = s) <=>
                   IF h = g THEN s = m ELSE index_table[h] # None /\ index_table[h].slab = s
        BY <1>5, <1>7 DEF m
      <3> QED
        BY <1>3, <3>1 DEF EntriesOf
    <2>4. E \in SUBSET Digests
      BY DEF EntriesOf
    <2>5. g \in E <=> (old # None /\ old.slab = s)
      BY <1>3 DEF EntriesOf, old
    <2> HIDE DEF E
    <2>6. /\ n \in Nat
          /\ g \notin E => Cardinality(E \cup {g}) = n + 1
          /\ g \in E => Cardinality(E \ {g}) = n - 1
      BY <1>3, <2>4, OneDigest
    <2>7. g \in E => E \cup {g} = E
      OBVIOUS
    <2>8. g \notin E => E \ {g} = E
      OBVIOUS
    <2>9. Cardinality(EntriesOf(s)') = IF s = m THEN (IF g \in E THEN n ELSE n + 1)
                                               ELSE (IF g \in E THEN n - 1 ELSE n)
      BY <2>3, <2>6, <2>7, <2>8
    <2> HIDE DEF n
    <2> QED
      BY <1>8, <2>1, <2>2, <2>5, <2>6, <2>9
  <1>13. BlankHeaders'
    <2>1. \A s \in mslab_free \cup dslab_free \cup ops_pool : s \in Slabs
      BY <1>1 DEF CacheTypeOK
    <2> QED
      BY <1>9, <2>1 DEF BlankHeaders
  <1>14. PutContents'
    <2>1. \A c \in Classes : \A n \in slab_partial[c] : n \in Slabs
      BY <1>1 DEF CacheTypeOK
    <2> QED
      BY <1>2, <1>8, <2>1 DEF PutContents
  <1>15. Untouched(OtherSlabs)
    BY <1>8, <1>9 DEF Untouched, OtherSlabs
  <1>16. NoNewEntries(OtherSlabs)
    <2> SUFFICES ASSUME NEW h \in Digests, index_table'[h] # None, index_table'[h].slab \in OtherSlabs
                 PROVE  index_table[h] # None /\ index_table[h].slab = index_table'[h].slab
      BY DEF NoNewEntries
    <2>1. h # g
      BY <1>4, <1>7 DEF OtherSlabs, m
    <2> QED
      BY <1>7, <2>1
  <1> QED
    BY <1>10, <1>11, <1>12, <1>13, <1>14, <1>15, <1>16 DEF SlabsSound

\* Delete removes one entry; the debug build counts one valid object less.
LEMMA DeleteKeeps ==
  ASSUME Ownership, Contents, NEW k \in Keys, Delete(k)
  PROVE  /\ SlabsSound' /\ BlankHeaders' /\ PutContents'
         /\ Untouched(OtherSlabs) /\ NoNewEntries(OtherSlabs)
  <1> USE DEF Contents
  <1> DEFINE g == DigestOf[k]
             old == index_table[g]
  <1>1. CacheTypeOK /\ g \in Digests
    BY ConstantsAssumption DEF Ownership, TypeOK
  <1>2. /\ old # None /\ index_table' = [index_table EXCEPT ![g] = None]
        /\ slab' = IF NDEBUG THEN slab ELSE [slab EXCEPT ![old.slab].nr_used = @ - 1]
        /\ UNCHANGED <<put_pc, put_arg, put_slot, data, slab_partial, mslab_free, dslab_free,
                       ops_pool>>
    BY DEF Delete, putVars, mslabVars, dslabVars
  <1>3. old.slab \in Slabs /\ ~Vacant(old.slab)
    BY <1>1, <1>2 DEF CacheTypeOK, IndexEntry, Vacant
  <1>4. index_table'[g] = None /\ \A h \in Digests : h # g => index_table'[h] = index_table[h]
    BY <1>1, <1>2 DEF CacheTypeOK
  <1>5. ASSUME NEW s \in Slabs
        PROVE  /\ slab'[s].cid = slab[s].cid /\ slab'[s].nr_alloc = slab[s].nr_alloc
               /\ slab[s].nr_used \in Int
               /\ \/ slab'[s].nr_used = slab[s].nr_used
                  \/ old.slab = s /\ slab'[s].nr_used = slab[s].nr_used - 1
               /\ old.slab # s => slab'[s] = slab[s]
    BY <1>1, <1>2, <1>3 DEF CacheTypeOK, SlabHeader
  <1> HIDE DEF g
  <1>6. ASSUME NEW s \in Slabs, slab[s] = ResetHeader PROVE slab'[s] = ResetHeader
    <2>1. Vacant(s)
      BY <1>1, <1>6, BlankIsVacant DEF SlabsSound
    <2> QED
      BY <1>3, <1>5, <1>6, <2>1
  <1>7. EntriesSound'
    <2> SUFFICES ASSUME NEW h \in Digests, index_table'[h] # None
                 PROVE  /\ index_table'[h].slot < slab'[index_table'[h].slab].nr_alloc
                        /\ DigestOf[data[index_table'[h].slab][index_table'[h].slot].key] = h
      BY <1>2 DEF EntriesSound
    <2>1. index_table'[h] = index_table[h]
      BY <1>4
    <2>2. index_table[h].slab \in Slabs
      BY <1>1, <2>1 DEF CacheTypeOK, IndexEntry
    <2> QED
      BY <1>5, <2>1, <2>2 DEF SlabsSound, EntriesSound
  <1>8. SlotsFilled'
    BY <1>1, <1>2, <1>5, SlotsKept DEF SlabsSound
  <1>9. NrUsedCoversEntries'
    <2> SUFFICES ASSUME NEW s \in Slabs
                 PROVE  slab'[s].nr_used >= Cardinality(EntriesOf(s)') + PutBit(s)'
      BY DEF NrUsedCoversEntries, PutBit
    <2> DEFINE E == EntriesOf(s)
               n == Cardinality(E)
    <2>1. PutBit(s)' = PutBit(s) /\ PutBit(s) \in Nat
      BY <1>2 DEF PutBit
    <2>2. slab[s].nr_used >= n + PutBit(s)
      BY NrUsedCovers DEF SlabsSound
    <2>3. EntriesOf(s)' = E \ {g}
      <3>1. ASSUME NEW h \in Digests
            PROVE  (index_table'[h] # None /\ index_table'[h].slab = s) <=>
                   h # g /\ index_table[h] # None /\ index_table[h].slab = s
        BY <1>4
      <3> QED
        BY <3>1 DEF EntriesOf
    <2>4. E \in SUBSET Digests
      BY DEF EntriesOf
    <2>5. g \in E <=> old.slab = s
      BY <1>1, <1>2 DEF EntriesOf
    <2> HIDE DEF E
    <2>6. n \in Nat /\ (g \in E => Cardinality(E \ {g}) = n - 1)
      BY <1>1, <2>4, OneDigest
    <2>7. g \notin E => E \ {g} = E
      OBVIOUS
    <2>8. Cardinality(EntriesOf(s)') = IF g \in E THEN n - 1 ELSE n
      BY <2>3, <2>6, <2>7
    <2> HIDE DEF n, old
    <2> QED
      BY <1>5, <2>1, <2>2, <2>5, <2>6, <2>8
  <1>10. BlankHeaders'
    <2>1. \A s \in mslab_free \cup dslab_free \cup ops_pool : s \in Slabs
      BY <1>1 DEF CacheTypeOK
    <2> QED
      BY <1>2, <1>6, <2>1 DEF BlankHeaders
  <1>11. Untouched(Slabs) /\ NoNewEntries(Slabs)
    BY <1>2, <1>4, <1>5, <1>6 DEF Untouched, NoNewEntries
  <1>12. Untouched(OtherSlabs) /\ NoNewEntries(OtherSlabs) /\ Untouched(PutSlabs)
    BY <1>11 DEF Untouched, NoNewEntries, OtherSlabs, PutSlabs
  <1>13. PutContents'
    BY <1>2, <1>4, <1>12, PutFrame DEF putVars
  <1> QED
    BY <1>7, <1>8, <1>9, <1>10, <1>12, <1>13 DEF SlabsSound

\* Every step of a client.
LEMMA ClientContents ==
  ASSUME Ownership, CacheTypeOK', Contents, ClientStep
  PROVE  Contents'
  <1>1. ClientNext /\ UNCHANGED <<flushVars, gcVars>>
    BY DEF ClientStep
  <1>2. dslab_full' = dslab_full
    BY DEF ClientStep, ClientNext, PutStep, Put, slot_alloc, TakeFreeMslab, NoFreeMslab,
           FlushFinished, UpdateIndexEntry, InsertIndexEntry, NoFreeIndexEntry, FinishPut,
           Delete, GetSlice, CopySlice, GetReturn, cacheVars, dslabVars
  <1>3. ASSUME Untouched(OtherSlabs), NoNewEntries(OtherSlabs)
        PROVE  FlushContents' /\ GcContents'
    <2> DEFINE F == {flush_mslab, flush_dslab} \cap Slabs
    <2>1. F \subseteq OtherSlabs /\ GcSlabs \subseteq OtherSlabs
      <3>1. flush_dslab \in Slabs => flush_dslab \in DSlabs
        BY NoneAssumption DEF Ownership, TypeOK, FlushTypeOK
      <3>2. F \subseteq OtherSlabs
        BY <3>1, SlabsAssumption DEF OtherSlabs, PutSlabs
      <3>3. GcSlabs \subseteq OtherSlabs
        BY SlabsAssumption DEF OtherSlabs, PutSlabs, GcSlabs
      <3> QED
        BY <3>2, <3>3
    <2>2. /\ Untouched(F) /\ NoNewEntries(F)
          /\ Untouched(GcSlabs) /\ NoNewEntries(GcSlabs)
      BY <1>3, <2>1 DEF Untouched, NoNewEntries
    <2>3. FlushContents'
      BY <1>1, <2>2, FlushFrame DEF Contents
    <2>4. GcContents'
      BY <1>1, <1>2, <2>2, GcFrame DEF Contents
    <2> QED
      BY <2>3, <2>4
  <1>4. ASSUME UNCHANGED <<slab, data, index_table, mslab_free, dslab_free, ops_pool>>,
               \A s \in Slabs : PutBit(s)' = PutBit(s), PutContents'
        PROVE  Contents'
    <2>1. Untouched(OtherSlabs) /\ NoNewEntries(OtherSlabs)
      BY <1>4 DEF Untouched, NoNewEntries
    <2>2. SlabsSound'
      BY <1>4, SoundFrame DEF Contents
    <2>3. BlankHeaders'
      BY <1>4 DEF Contents, BlankHeaders
    <2> QED
      BY <1>3, <1>4, <2>1, <2>2, <2>3 DEF Contents
  <1> USE DEF cacheVars, mslabVars, dslabVars, clientVars, putVars
  <1>5. ASSUME NEW kv \in Slot, Put(kv) PROVE Contents'
    <2>1. \A s \in Slabs : PutBit(s)' = PutBit(s)
      BY <1>5 DEF Put, PutBit
    <2>2. PutContents'
      BY <1>5 DEF Put, PutContents, Contents
    <2> QED
      BY <1>4, <1>5, <2>1, <2>2 DEF Put
  <1>6. CASE slot_alloc
    BY <1>3, <1>6, SlotAllocKeeps DEF Contents
  <1>7. CASE TakeFreeMslab
    BY <1>3, <1>7, TakeFreeMslabKeeps DEF Contents
  <1>8. CASE NoFreeMslab \/ FlushFinished
    <2>1. \A s \in Slabs : PutBit(s)' = PutBit(s)
      BY <1>8 DEF NoFreeMslab, FlushFinished, PutBit
    <2>2. PutContents'
      BY <1>8 DEF NoFreeMslab, FlushFinished, PutContents, Contents
    <2> QED
      BY <1>4, <1>8, <2>1, <2>2 DEF NoFreeMslab, FlushFinished
  <1>9. CASE NoFreeIndexEntry
    <2>1. \A s \in Slabs : PutBit(s)' = PutBit(s)
      BY <1>9 DEF NoFreeIndexEntry, PutBit
    <2>2. PutContents'
      BY <1>9 DEF NoFreeIndexEntry, PutContents, Contents, PutDigest
    <2> QED
      BY <1>4, <1>9, <2>1, <2>2 DEF NoFreeIndexEntry
  <1>10. CASE UpdateIndexEntry
    BY <1>3, <1>10, PutEntryKeeps DEF UpdateIndexEntry, Contents
  <1>11. CASE InsertIndexEntry
    <2>1. index_table[PutDigest] = None
      BY <1>11 DEF InsertIndexEntry, Contents, PutContents
    <2> QED
      BY <1>3, <1>11, <2>1, PutEntryKeeps DEF InsertIndexEntry, Contents
  <1>12. CASE FinishPut
    <2>1. \A s \in Slabs : PutBit(s)' = PutBit(s)
      BY <1>12 DEF FinishPut, PutBit
    <2>2. PutContents'
      BY <1>12 DEF FinishPut, PutContents, Contents
    <2> QED
      BY <1>4, <1>12, <2>1, <2>2 DEF FinishPut
  <1>13. ASSUME NEW k \in Keys, Delete(k) PROVE Contents'
    BY <1>3, <1>13, DeleteKeeps DEF Contents
  <1>14. ASSUME NEW r \in Readers,
                (\E k \in Keys : GetSlice(r, k)) \/ CopySlice(r) \/ GetReturn(r)
         PROVE  Contents'
    <2>1. UNCHANGED <<cacheVars, putVars>>
      BY <1>14 DEF GetSlice, CopySlice, GetReturn
    <2>2. \A s \in Slabs : PutBit(s)' = PutBit(s)
      BY <2>1 DEF PutBit
    <2>3. PutContents'
      BY <2>1 DEF PutContents, Contents, PutDigest
    <2> QED
      BY <1>4, <2>1, <2>2, <2>3
  <1> QED
    BY <1>1, <1>5, <1>6, <1>7, <1>8, <1>9, <1>10, <1>11, <1>12, <1>13, <1>14
    DEF ClientNext, PutStep

-----------------------------------------------------------------------------
(* Steps of the flush thread.                                              *)

\* Every step of the flush thread.
LEMMA FlushStepContents ==
  ASSUME Ownership, CacheTypeOK', Contents, FlushStep
  PROVE  Contents'
  <1> USE DEF Contents
  <1>1. FlushNext(DslabFullLocked) /\ UNCHANGED <<clientVars, gcVars>>
    BY DEF FlushStep
  <1>2. CacheTypeOK /\ FlushTypeOK /\ FlushHolding /\ MslabHands /\ DslabHands
    BY DEF Ownership, TypeOK, OneHand
  <1>3. UNCHANGED <<slab_partial, putVars>> /\ dslab_full \subseteq dslab_full'
    BY <1>1 DEF FlushNext, FlushExit, TakeFullMslab, PickFreeDslab, NoFreeDslab, GcFinished,
                WriteDslab, MoveIndexToDslab, RecycleMslab, PublishDslab,
                cacheVars, mslabVars, dslabVars, clientVars
  <1>4. \A s \in Slabs : PutBit(s)' = PutBit(s)
    BY <1>3 DEF putVars, PutBit
  <1>5. ASSUME Untouched(PutSlabs), Untouched(GcSlabs), NoNewEntries(GcSlabs),
               \A g \in Digests : index_table[g] = None => index_table'[g] = None
        PROVE  PutContents' /\ GcContents'
    BY <1>1, <1>3, <1>5, PutFrame, GcFrame
  <1> USE DEF cacheVars, mslabVars, dslabVars
  <1>6. ASSUME UNCHANGED <<slab, data, index_table>>,
               (mslab_free \cup dslab_free \cup ops_pool)' \subseteq
                   mslab_free \cup dslab_free \cup ops_pool,
               FlushContents'
        PROVE  Contents'
    <2>1. /\ Untouched(PutSlabs) /\ Untouched(GcSlabs) /\ NoNewEntries(GcSlabs)
          /\ \A g \in Digests : index_table[g] = None => index_table'[g] = None
      BY <1>6 DEF Untouched, NoNewEntries
    <2>2. SlabsSound'
      BY <1>4, <1>6, SoundFrame
    <2>3. BlankHeaders'
      BY <1>6 DEF BlankHeaders
    <2> QED
      BY <1>5, <1>6, <2>1, <2>2, <2>3
  <1>7. CASE FlushExit \/ NoFreeDslab \/ GcFinished
    <2>1. FlushContents'
      BY <1>7 DEF FlushExit, NoFreeDslab, GcFinished, FlushContents
    <2> QED
      BY <1>6, <1>7, <2>1 DEF FlushExit, NoFreeDslab, GcFinished
  <1>8. CASE TakeFullMslab
    <2>1. FlushContents'
      BY <1>8 DEF TakeFullMslab, FlushContents
    <2> QED
      BY <1>6, <1>8, <2>1 DEF TakeFullMslab
  <1>9. CASE PickFreeDslab
    <2>1. flush_dslab' \in dslab_free /\ dslab_free' \subseteq dslab_free
      BY <1>9 DEF PickFreeDslab, FoundFrom
    <2>2. FlushContents'
      BY <1>9, <2>1 DEF PickFreeDslab, FlushContents, BlankHeaders
    <2> QED
      BY <1>6, <1>9, <2>1, <2>2 DEF PickFreeDslab
  <1>10. CASE PublishDslab(DslabFullLocked)
    <2>1. FlushContents'
      BY <1>10 DEF PublishDslab, FlushContents
    <2> QED
      BY <1>6, <1>10, <2>1 DEF PublishDslab
  <1>11. flush_pc \in {"write", "index", "recycle"} =>
           /\ flush_mslab \in MSlabs /\ flush_dslab \in DSlabs /\ flush_mslab # flush_dslab
           /\ flush_mslab \notin mslab_free \cup dslab_free \cup ops_pool
           /\ flush_dslab \notin mslab_free \cup dslab_free \cup ops_pool
           /\ flush_mslab \notin PutSlabs \cup GcSlabs
           /\ flush_dslab \notin PutSlabs \cup GcSlabs
           /\ PutBit(flush_mslab) = 0 /\ PutBit(flush_dslab) = 0
    <2> SUFFICES ASSUME flush_pc \in {"write", "index", "recycle"}
                 PROVE  /\ flush_mslab \in MSlabs /\ flush_dslab \in DSlabs
                        /\ flush_mslab # flush_dslab
                        /\ flush_mslab \notin mslab_free \cup dslab_free \cup ops_pool
                        /\ flush_dslab \notin mslab_free \cup dslab_free \cup ops_pool
                        /\ flush_mslab \notin PutSlabs \cup GcSlabs
                        /\ flush_dslab \notin PutSlabs \cup GcSlabs
                        /\ PutBit(flush_mslab) = 0 /\ PutBit(flush_dslab) = 0
      OBVIOUS
    <2>1. /\ flush_mslab \in MSlabs /\ flush_dslab \in DSlabs
          /\ flush_mslab # None /\ flush_dslab # None
      BY <1>2 DEF FlushTypeOK, FlushHolding
    <2>2. flush_mslab \notin mslab_free /\ flush_dslab \notin dslab_free \cup ops_pool
      BY <1>2, <2>1 DEF MslabHands, DslabHands, Disjoint
    <2>3. /\ flush_mslab # flush_dslab /\ flush_mslab \notin dslab_free \cup ops_pool
          /\ flush_dslab \notin mslab_free
      BY <1>2, <2>1, SlabsAssumption DEF CacheTypeOK
    <2>4. flush_mslab \notin PutSlabs \cup GcSlabs /\ flush_dslab \notin PutSlabs \cup GcSlabs
      BY <2>1, SlabsAssumption DEF PutSlabs, GcSlabs
    <2> QED
      BY <2>1, <2>2, <2>3, <2>4, NoPutBit
  <1>12. PutSlabs \subseteq Slabs /\ GcSlabs \subseteq Slabs
    BY DEF PutSlabs, GcSlabs
  <1>13. mslab_free \cup dslab_free \cup ops_pool \subseteq Slabs
    BY <1>2 DEF CacheTypeOK
  <1>14. CASE WriteDslab
    <2>1. /\ flush_pc = "write" /\ flush_pc' = "index"
          /\ flush_mslab_to_dslab(flush_mslab, flush_dslab)
          /\ UNCHANGED <<index_table, flush_mslab, flush_dslab, mslab_free, dslab_free, ops_pool>>
      BY <1>14 DEF WriteDslab
    <2>2. slab[flush_dslab] = ResetHeader
      BY <2>1 DEF FlushContents
    <2>3. /\ SlabsSound' /\ Copied(flush_mslab, flush_dslab)' /\ Vacant(flush_dslab)'
      <3>1. ASSUME NEW src \in Slabs, NEW dst \in Slabs, src # dst,
                   flush_mslab_to_dslab(src, dst), slab[dst] = ResetHeader, PutBit(dst) = 0
            PROVE  SlabsSound' /\ Copied(src, dst)' /\ Vacant(dst)'
        BY <1>2, <1>3, <2>1, <3>1, CopyKeeps DEF putVars
      <3>2. /\ SlabsSound'
            /\ Copied(flush_mslab, flush_dslab)' /\ Vacant(flush_dslab)'
        BY <1>11, <2>1, <2>2, <3>1 DEF Copied, Vacant
      <3> QED
        BY <3>2
    <2>4. \A s \in Slabs : s # flush_dslab => slab'[s] = slab[s] /\ data'[s] = data[s]
      BY <1>2, <2>1 DEF flush_mslab_to_dslab, CacheTypeOK
    <2>5. /\ Untouched(PutSlabs) /\ Untouched(GcSlabs) /\ NoNewEntries(GcSlabs)
          /\ \A g \in Digests : index_table[g] = None => index_table'[g] = None
      BY <1>11, <1>12, <2>1, <2>4 DEF Untouched, NoNewEntries
    <2>6. BlankHeaders'
      BY <1>11, <1>13, <2>1, <2>4 DEF BlankHeaders
    <2>7. FlushContents'
      BY <2>1, <2>3 DEF FlushContents
    <2> QED
      BY <1>5, <2>3, <2>5, <2>6, <2>7
  <1>15. CASE MoveIndexToDslab
    <2>1. /\ flush_pc = "index" /\ flush_pc' = "recycle"
          /\ modify_index_to(flush_mslab, flush_dslab)
          /\ UNCHANGED <<data, flush_mslab, flush_dslab, mslab_free, dslab_free, ops_pool>>
      BY <1>15 DEF MoveIndexToDslab
    <2>2. Copied(flush_mslab, flush_dslab) /\ Vacant(flush_dslab)
      BY <2>1 DEF FlushContents
    <2>3. ASSUME NEW src \in Slabs, NEW dst \in Slabs, src # dst, modify_index_to(src, dst),
                 Copied(src, dst), Vacant(dst), PutBit(src) = 0, PutBit(dst) = 0
          PROVE  /\ SlabsSound' /\ Vacant(src)'
                 /\ \A g \in Digests :
                       \/ index_table'[g] = index_table[g]
                       \/ /\ index_table[g] # None /\ index_table[g].slab = src
                          /\ index_table'[g] = [slab |-> dst, slot |-> index_table[g].slot]
                 /\ \A s \in Slabs : s \notin {src, dst} => slab'[s] = slab[s]
      BY <1>2, <1>3, <2>1, <2>3, ModifyIndexKeeps DEF putVars
    <2>4. /\ SlabsSound' /\ Vacant(flush_mslab)'
          /\ \A g \in Digests :
                \/ index_table'[g] = index_table[g]
                \/ /\ index_table[g] # None /\ index_table[g].slab = flush_mslab
                   /\ index_table'[g] = [slab |-> flush_dslab, slot |-> index_table[g].slot]
          /\ \A s \in Slabs : s \notin {flush_mslab, flush_dslab} => slab'[s] = slab[s]
      BY <1>11, <2>1, <2>2, <2>3 DEF Vacant
    <2>5. NoNewEntries(GcSlabs)
      <3> SUFFICES ASSUME NEW g \in Digests, index_table'[g] # None,
                          index_table'[g].slab \in GcSlabs
                   PROVE  index_table[g] # None /\ index_table[g].slab = index_table'[g].slab
        BY DEF NoNewEntries
      <3>1. flush_dslab \notin GcSlabs
        BY <1>11, <2>1
      <3>2. CASE index_table'[g] = index_table[g]
        BY <3>2
      <3>3. CASE index_table'[g] = [slab |-> flush_dslab, slot |-> index_table[g].slot]
        BY <3>1, <3>3
      <3> QED
        BY <2>4, <3>2, <3>3
    <2>6. /\ Untouched(PutSlabs) /\ Untouched(GcSlabs)
          /\ \A g \in Digests : index_table[g] = None => index_table'[g] = None
      BY <1>11, <1>12, <2>1, <2>4 DEF Untouched
    <2>7. BlankHeaders'
      BY <1>11, <1>13, <2>1, <2>4 DEF BlankHeaders
    <2>8. FlushContents'
      BY <2>1, <2>4 DEF FlushContents
    <2> QED
      BY <1>5, <2>4, <2>5, <2>6, <2>7, <2>8
  <1>16. CASE RecycleMslab
    <2>1. /\ flush_pc = "recycle" /\ flush_pc' = "publish"
          /\ slab' = [slab EXCEPT ![flush_mslab] = ResetHeader]
          /\ mslab_free' = mslab_free \cup {flush_mslab}
          /\ UNCHANGED <<data, index_table, dslab_free, ops_pool>>
      BY <1>16 DEF RecycleMslab
    <2>2. Vacant(flush_mslab)
      BY <2>1 DEF FlushContents
    <2>3. /\ slab'[flush_mslab] = ResetHeader
          /\ \A s \in Slabs : s # flush_mslab => slab'[s] = slab[s]
      BY <1>2, <1>11, <2>1 DEF CacheTypeOK
    <2>4. SlabsSound'
      BY <1>2, <1>3, <1>11, <2>1, <2>2, <2>3, ResetKeeps DEF putVars
    <2>5. /\ Untouched(PutSlabs) /\ Untouched(GcSlabs) /\ NoNewEntries(GcSlabs)
          /\ \A g \in Digests : index_table[g] = None => index_table'[g] = None
      BY <1>11, <1>12, <2>1, <2>3 DEF Untouched, NoNewEntries
    <2>6. BlankHeaders'
      BY <1>11, <1>13, <2>1, <2>3 DEF BlankHeaders
    <2>7. FlushContents'
      BY <2>1 DEF FlushContents
    <2> QED
      BY <1>5, <2>4, <2>5, <2>6, <2>7
  <1> QED
    BY <1>1, <1>7, <1>8, <1>9, <1>10, <1>14, <1>15, <1>16 DEF FlushNext

-----------------------------------------------------------------------------
(* Steps of the collector.                                                 *)

\* What the other threads rely on, as long as the collector keeps to its slabs.
LEMMA GcKeepsOthers ==
  ASSUME Ownership, Contents, GcStep,
         \A s \in Slabs : s \notin GcSlabs => slab'[s] = slab[s] /\ data'[s] = data[s],
         NoNewEntries(Slabs \ GcSlabs),
         \A g \in Digests : index_table[g] = None => index_table'[g] = None
  PROVE  PutContents' /\ FlushContents'
  <1>1. UNCHANGED <<putVars, slab_partial, flushVars>>
    BY GcKeepsMslabs DEF GcStep, Ownership, TypeOK, mslabVars
  <1>2. Untouched(PutSlabs)
    BY SlabsAssumption DEF Untouched, PutSlabs, GcSlabs
  <1>3. {flush_mslab, flush_dslab} \cap Slabs \subseteq Slabs \ GcSlabs
    BY SlabsAssumption, NoneAssumption DEF GcSlabs, Ownership, TypeOK, FlushTypeOK
  <1>4. /\ Untouched({flush_mslab, flush_dslab} \cap Slabs)
        /\ NoNewEntries({flush_mslab, flush_dslab} \cap Slabs)
    BY <1>3 DEF Untouched, NoNewEntries
  <1> QED
    BY <1>1, <1>2, <1>4, PutFrame, FlushFrame DEF Contents

\* Steps that change neither slabs nor index, and put nothing on a list of blanks.
LEMMA GcPassiveStep ==
  ASSUME Ownership, CacheTypeOK', Contents, GcStep, UNCHANGED <<slab, data, index_table>>,
         (dslab_free \cup ops_pool)' \subseteq dslab_free \cup ops_pool,
         GcContents'
  PROVE  Contents'
  <1>1. UNCHANGED <<putVars, mslab_free>>
    BY GcKeepsMslabs DEF Ownership, mslabVars
  <1>2. NoNewEntries(Slabs \ GcSlabs)
    BY DEF NoNewEntries
  <1>3. PutContents' /\ FlushContents'
    BY <1>2, GcKeepsOthers
  <1>4. \A s \in Slabs : PutBit(s)' = PutBit(s)
    BY <1>1 DEF putVars, PutBit
  <1>5. SlabsSound'
    BY <1>4, SoundFrame DEF Contents
  <1>6. BlankHeaders'
    BY <1>1 DEF BlankHeaders, Contents
  <1> QED
    BY <1>3, <1>5, <1>6 DEF Contents

\* An empty batch fits.
LEMMA EmptyBatch ==
  /\ EntriesIn({}) = {} /\ Cardinality(EntriesIn({})) = 0
  /\ \A c \in Nat : c < NrSlabClass => c \in Classes /\ NrSlots(c) \in Nat /\ 0 <= NrSlots(c)
  <1>1. EntriesIn({}) = {}
    BY DEF EntriesIn
  <1>2. ASSUME NEW c \in Nat, c < NrSlabClass
        PROVE  c \in Classes /\ NrSlots(c) \in Nat /\ 0 <= NrSlots(c)
    <2>1. c \in Classes
      BY <1>2, ConstantsAssumption DEF Classes
    <2> QED
      BY <2>1, SlotRange
  <1> QED
    BY <1>1, <1>2, FS_EmptySet

\* The steps of both rounds that only look, count and choose.
LEMMA GcChoosesKeep ==
  ASSUME Ownership, CacheTypeOK', Contents, GcStep,
         \/ GcExit \/ GcWakes \/ ChooseDropOne \/ ChooseQuickGc \/ ChooseNormalGc
         \/ quick_gc \/ SelectDslab \/ SelectionDone \/ CollectChannel \/ DrainQueue
         \/ BatchEnds \/ TuneMarks \/ RefillDone
  PROVE  Contents'
  <1> USE DEF cacheVars, dslabVars, mslabVars, batchVars, quickVars, tuneVars
  <1>1. GcContents /\ GcHolding /\ GcTypeOK
    BY DEF Contents, Ownership, TypeOK
  <1>2. ASSUME UNCHANGED <<slab, data, index_table>>,
               (dslab_free \cup ops_pool)' \subseteq dslab_free \cup ops_pool,
               GcContents'
        PROVE  Contents'
    BY <1>2, GcPassiveStep
  <1>3. CASE \/ GcExit \/ GcWakes \/ ChooseDropOne \/ ChooseQuickGc \/ ChooseNormalGc
             \/ quick_gc \/ RefillDone
    <2>1. /\ UNCHANGED <<slab, data, index_table, dslab_free, ops_pool, todo, free_list>>
          /\ gc_pc \notin {"evict", "batch", "take", "move", "index"}
          /\ gc_pc' \notin {"evict", "batch", "take", "move", "index"}
      BY <1>3 DEF GcExit, GcWakes, ChooseDropOne, ChooseQuickGc, ChooseNormalGc, quick_gc,
                  RefillDone
    <2>2. GcContents'
      BY <1>1, <2>1 DEF GcContents, GcTarget, GcVisited, GcBatch, Vacant
    <2> QED
      BY <1>2, <2>1, <2>2
  <1>4. CASE SelectDslab
    <2>1. /\ UNCHANGED <<slab, data, index_table, dslab_free, ops_pool, todo, free_list, gc_pc>>
          /\ gc_pc = "select"
      BY <1>4 DEF SelectDslab
    <2>2. GcContents'
      BY <1>1, <2>1 DEF GcContents, GcTarget, GcVisited, GcBatch, Vacant
    <2> QED
      BY <1>2, <2>1, <2>2
  <1>5. CASE SelectionDone
    <2>1. /\ UNCHANGED <<slab, data, index_table, dslab_free, ops_pool, free_list, to_drop>>
          /\ gc_pc = "select" /\ gc_pc' = "evict" /\ todo' = to_drop
      BY <1>5 DEF SelectionDone
    <2>2. GcContents'
      BY <1>1, <2>1 DEF GcContents, GcTarget, GcVisited, GcBatch, Vacant
    <2> QED
      BY <1>2, <2>1, <2>2
  <1>6. CASE CollectChannel
    <2>1. /\ UNCHANGED <<slab, data, index_table, dslab_free, ops_pool, todo, free_list, gc_pc>>
          /\ gc_pc = "collect"
      BY <1>6 DEF CollectChannel
    <2>2. GcContents'
      BY <1>1, <2>1 DEF GcContents, GcTarget, GcVisited, GcBatch, Vacant
    <2> QED
      BY <1>2, <2>1, <2>2
  <1>7. ASSUME UNCHANGED <<slab, data, index_table, dslab_free, ops_pool, todo, free_list>>,
               gc_pc \in {"collect", "batch"}, gc_pc' = "batch", to_drop' = {},
               nr_slots_moved' = 0, gc_class' \in Nat
        PROVE  Contents'
    <2>1. GcTarget' /\ GcVisited'
      BY <1>1, <1>7 DEF GcContents, GcTarget, GcVisited, Vacant
    <2>2. GcBatch'
      <3>1. Cardinality(EntriesIn(to_drop)') = 0
        BY <1>7, FS_EmptySet DEF EntriesIn
      <3>2. gc_class' < NrSlabClass => 0 <= NrSlots(gc_class')
        BY <1>7, EmptyBatch
      <3> QED
        BY <1>7, <3>1, <3>2 DEF GcBatch
    <2> QED
      BY <1>2, <1>7, <2>1, <2>2 DEF GcContents
  <1>8. CASE DrainQueue
    <2>1. to_drop = {}
      BY <1>1, <1>8 DEF DrainQueue, GcHolding
    <2> QED
      BY <1>7, <1>8, <2>1 DEF DrainQueue
  <1>9. CASE BatchEnds
    <2>1. /\ UNCHANGED <<slab, data, index_table, dslab_free, ops_pool, todo, free_list>>
          /\ gc_pc = "batch" /\ gc_class < NrSlabClass
          /\ \/ gc_pc' = "take" /\ UNCHANGED <<gc_class, to_drop, nr_slots_moved>>
             \/ /\ gc_pc' = "batch" /\ to_drop' = {} /\ nr_slots_moved' = 0
                /\ gc_class' \in {NrSlabClass, gc_class + 1}
      BY <1>9 DEF BatchEnds
    <2>2. CASE gc_pc' = "take" /\ UNCHANGED <<gc_class, to_drop, nr_slots_moved>>
      <3>1. GcContents'
        BY <1>1, <2>1, <2>2 DEF GcContents, GcTarget, GcVisited, GcBatch, Vacant, EntriesIn
      <3> QED
        BY <1>2, <2>1, <3>1
    <2>3. CASE /\ gc_pc' = "batch" /\ to_drop' = {} /\ nr_slots_moved' = 0
               /\ gc_class' \in {NrSlabClass, gc_class + 1}
      <3>1. gc_class' \in Nat
        BY <1>1, <2>3, ConstantsAssumption DEF GcTypeOK
      <3> QED
        BY <1>7, <2>1, <2>3, <3>1
    <2> QED
      BY <2>1, <2>2, <2>3
  <1>10. CASE TuneMarks
    <2>1. /\ UNCHANGED <<slab, data, index_table, dslab_free, ops_pool, todo, free_list>>
          /\ gc_pc = "batch" /\ gc_pc' = "refill"
      BY <1>10 DEF TuneMarks
    <2>2. GcContents'
      BY <1>1, <2>1 DEF GcContents, GcTarget, GcVisited, GcBatch, Vacant
    <2> QED
      BY <1>2, <2>1, <2>2
  <1> QED
    BY <1>3, <1>4, <1>5, <1>6, <1>8, <1>9, <1>10

\* A candidate joins the batch: its entries are no more than its count of valid
\* objects says, so that the count of the batch still covers the entries of all.
LEMMA AddToBatchKeeps ==
  ASSUME Ownership, CacheTypeOK', Contents, GcStep, AddToBatch
  PROVE  Contents'
  <1>1. GcContents /\ GcTypeOK /\ CacheTypeOK
    BY DEF Contents, Ownership, TypeOK
  <1>2. PICK d \in Backs : /\ FitsBatch(d) /\ to_drop' = to_drop \cup {d}
                           /\ nr_slots_moved' = nr_slots_moved + slab[d].nr_used
    BY DEF AddToBatch
  <1>3. /\ UNCHANGED <<slab, data, index_table, dslab_free, ops_pool, todo, free_list, gc_class>>
        /\ gc_pc = "batch" /\ gc_pc' = "batch" /\ gc_class < NrSlabClass
    BY DEF AddToBatch, cacheVars, dslabVars
  <1>4. d \in DSlabs /\ slab[d].cid = gc_class
    BY <1>1, <1>2 DEF Backs, Candidates, GcTypeOK
  <1>5. GcTarget' /\ GcVisited'
    BY <1>1, <1>3 DEF GcContents, GcTarget, GcVisited, Vacant
  <1> DEFINE n == Cardinality(EntriesIn(to_drop \cup {d}))
             k == Cardinality(EntriesIn(to_drop))
             j == Cardinality(EntriesOf(d))
  <1>6. n \in Nat /\ k \in Nat /\ j \in Nat /\ n <= k + j
    <2>1. EntriesIn(to_drop \cup {d}) = EntriesIn(to_drop) \cup EntriesOf(d)
      BY DEF EntriesIn, EntriesOf
    <2>2. /\ IsFiniteSet(EntriesIn(to_drop)) /\ IsFiniteSet(EntriesOf(d))
          /\ k \in Nat /\ j \in Nat
      BY DigestCount DEF EntriesIn, EntriesOf
    <2> DEFINE i == Cardinality(EntriesIn(to_drop) \cap EntriesOf(d))
    <2>3. i \in Nat /\ n \in Nat
      <3>1. /\ EntriesIn(to_drop) \cap EntriesOf(d) \subseteq Digests
            /\ EntriesIn(to_drop \cup {d}) \subseteq Digests
        BY DEF EntriesIn, EntriesOf
      <3> QED
        BY <3>1, DigestCount
    <2>4. n = k + j - i
      BY <2>1, <2>2, FS_Union
    <2> HIDE DEF n, k, j, i
    <2> QED
      BY <2>2, <2>3, <2>4
  <1>7. slab[d].nr_used >= j /\ slab[d].nr_used \in Int
    <2>1. slab[d].nr_used >= j + PutBit(d)
      BY <1>4, NrUsedCovers DEF Contents, SlabsSound
    <2>2. PutBit(d) \in Nat /\ slab[d].nr_used \in Int
      BY <1>1, <1>4 DEF PutBit, CacheTypeOK, SlabHeader
    <2> HIDE DEF j
    <2> QED
      BY <1>6, <2>1, <2>2
  <1>8. k <= nr_slots_moved /\ nr_slots_moved \in Int
    BY <1>1, <1>3 DEF GcContents, GcBatch, GcTypeOK
  <1>9. nr_slots_moved' <= NrSlots(gc_class)
    <2>1. slab[d].nr_used + nr_slots_moved <= NrSlots(gc_class)
      BY <1>2 DEF FitsBatch
    <2> QED
      BY <1>2, <1>7, <1>8, <2>1
  <1>10. EntriesIn(to_drop)' = EntriesIn(to_drop \cup {d})
    BY <1>2, <1>3 DEF EntriesIn
  <1> HIDE DEF j, k
  <1>11. n <= nr_slots_moved'
    <2> HIDE DEF n
    <2> QED
      BY <1>2, <1>6, <1>7, <1>8
  <1>12. GcBatch'
    BY <1>1, <1>2, <1>3, <1>4, <1>9, <1>10, <1>11 DEF GcContents, GcBatch
  <1> QED
    BY <1>3, <1>5, <1>12, GcPassiveStep DEF GcContents

\* A step of the collector that resets slabs without entries, the only ones it adds
\* to a list of blanks.
LEMMA GcResets ==
  ASSUME Ownership, CacheTypeOK', Contents, GcStep, UNCHANGED <<data, index_table>>,
         NEW R \in SUBSET GcSlabs, \A s \in R : Vacant(s),
         \A s \in Slabs : slab'[s] = IF s \in R THEN ResetHeader ELSE slab[s],
         (dslab_free \cup ops_pool)' \subseteq dslab_free \cup ops_pool \cup R,
         GcContents'
  PROVE  Contents'
  <1>1. UNCHANGED <<putVars, mslab_free>>
    BY GcKeepsMslabs DEF Ownership, mslabVars
  <1>2. NoNewEntries(Slabs \ GcSlabs)
    BY DEF NoNewEntries
  <1>3. PutContents' /\ FlushContents'
    BY <1>2, GcKeepsOthers
  <1>4. \A s \in R : PutBit(s) = 0
    BY NoPutBit, SlabsAssumption DEF GcSlabs, PutSlabs
  <1>5. CacheTypeOK
    BY DEF Ownership, TypeOK
  <1>6. SlabsSound'
    BY <1>1, <1>4, <1>5, ResetKeeps DEF Contents, putVars
  <1>7. BlankHeaders'
    <2> SUFFICES ASSUME NEW s \in (mslab_free \cup dslab_free \cup ops_pool)'
                 PROVE  slab'[s] = ResetHeader
      BY DEF BlankHeaders
    <2>1. s \in Slabs /\ s \in mslab_free \cup dslab_free \cup ops_pool \cup R
      BY <1>1, <1>5 DEF CacheTypeOK, GcSlabs
    <2> QED
      BY <2>1 DEF BlankHeaders, Contents
  <1> QED
    BY <1>3, <1>6, <1>7 DEF Contents

\* Giving dslabs back, at the end of either round.
LEMMA GcReclaims ==
  ASSUME Ownership, CacheTypeOK', Contents, GcStep,
         ReclaimToOps \/ RefillOps \/ ShrinkOps \/ ReclaimToFree
  PROVE  Contents'
  <1> USE DEF quickVars, dslabVars
  <1>1. GcContents /\ GcHolding /\ GcTypeOK /\ CacheTypeOK
    BY DEF Contents, Ownership, TypeOK
  <1>2. /\ free_list \subseteq GcSlabs
        /\ gc_pc = "evict" => to_drop \subseteq GcSlabs
    BY <1>1, GcHasSlabs
  <1>3. ops_pool \subseteq GcSlabs /\ \A d \in ops_pool : Vacant(d)
    <2>1. ops_pool \subseteq DSlabs /\ None \notin DSlabs
      BY <1>1, NoneAssumption DEF CacheTypeOK
    <2>2. flush_dslab # None => flush_dslab \notin ops_pool
      BY DEF Ownership, OneHand, DslabHands, Disjoint
    <2>3. ops_pool \subseteq GcSlabs
      BY <2>1, <2>2 DEF GcSlabs
    <2>4. \A d \in ops_pool : slab[d] = ResetHeader
      BY DEF Contents, BlankHeaders
    <2> QED
      BY <1>1, <2>1, <2>3, <2>4, BlankIsVacant DEF Contents, SlabsSound
  <1>4. ASSUME gc_pc \notin {"batch", "take", "move", "index"}, UNCHANGED <<data, index_table>>,
               gc_pc' \notin {"evict", "batch", "take", "move", "index"}, todo' = {},
               \A d \in free_list' : Vacant(d)
        PROVE  GcContents'
    BY <1>1, <1>4 DEF GcContents, GcTarget, GcVisited, GcBatch, Vacant
  <1>5. CASE ReclaimToOps
    <2>1. PICK ops \in SUBSET to_drop : \E off \in SUBSET (to_drop \ ops) :
             /\ slab' = [s \in Slabs |-> IF s \in ops \cup off THEN ResetHeader ELSE slab[s]]
             /\ free_list' = to_drop \ (ops \cup off)
             /\ ops_pool' = ops_pool \cup ops
      BY <1>5 DEF ReclaimToOps, AddToOps
    <2>2. PICK off \in SUBSET (to_drop \ ops) :
             /\ slab' = [s \in Slabs |-> IF s \in ops \cup off THEN ResetHeader ELSE slab[s]]
             /\ free_list' = to_drop \ (ops \cup off)
             /\ ops_pool' = ops_pool \cup ops
      BY <2>1
    <2>3. /\ gc_pc = "evict" /\ todo = {} /\ gc_pc' = "to_free" /\ todo' = {}
          /\ UNCHANGED <<data, index_table, dslab_free>>
      BY <1>5 DEF ReclaimToOps
    <2>4. \A d \in to_drop : Vacant(d)
      BY <1>1, <2>3 DEF GcContents, GcVisited
    <2>5. GcContents'
      BY <1>4, <2>2, <2>3, <2>4
    <2> DEFINE R == ops \cup off
    <2>6. R \in SUBSET GcSlabs /\ \A s \in R : Vacant(s)
      BY <1>2, <2>3, <2>4
    <2>7. \A s \in Slabs : slab'[s] = IF s \in R THEN ResetHeader ELSE slab[s]
      BY <2>2
    <2>8. (dslab_free \cup ops_pool)' \subseteq dslab_free \cup ops_pool \cup R
      BY <2>2, <2>3
    <2> HIDE DEF R
    <2> QED
      BY <2>3, <2>5, <2>6, <2>7, <2>8, GcResets
  <1>6. CASE RefillOps
    <2>1. /\ gc_pc = "refill" /\ gc_pc' = "refill"
          /\ UNCHANGED <<data, index_table, dslab_free, todo>>
      BY <1>6 DEF RefillOps
    <2>2. todo' = {} /\ \A d \in free_list : Vacant(d)
      BY <1>1, <2>1 DEF GcContents, GcVisited
    <2>3. CASE UNCHANGED <<free_list, slab, ops_pool>>
      <3>1. GcContents'
        BY <1>4, <2>1, <2>2, <2>3
      <3> QED
        BY <2>1, <2>3, <3>1, GcPassiveStep
    <2>4. CASE \E d \in free_list : /\ free_list' = free_list \ {d}
                                    /\ slab' = [slab EXCEPT ![d] = ResetHeader]
                                    /\ ops_pool' = ops_pool \cup {d}
      <3>1. PICK d \in free_list : /\ free_list' = free_list \ {d}
                                   /\ slab' = [slab EXCEPT ![d] = ResetHeader]
                                   /\ ops_pool' = ops_pool \cup {d}
        BY <2>4
      <3>2. GcContents'
        BY <1>4, <2>1, <2>2, <3>1
      <3> DEFINE R == {d}
      <3>3. R \in SUBSET GcSlabs /\ \A s \in R : Vacant(s)
        BY <1>2, <2>2
      <3>4. \A s \in Slabs : slab'[s] = IF s \in R THEN ResetHeader ELSE slab[s]
        BY <1>1, <3>1 DEF CacheTypeOK
      <3>5. (dslab_free \cup ops_pool)' \subseteq dslab_free \cup ops_pool \cup R
        BY <2>1, <3>1
      <3> HIDE DEF R
      <3> QED
        BY <2>1, <3>2, <3>3, <3>4, <3>5, GcResets
    <2> QED
      BY <1>6, <2>3, <2>4 DEF RefillOps, AddToOps, InChannel
  <1>7. CASE ShrinkOps
    <2>1. /\ gc_pc = "to_free" /\ gc_pc' = "to_free"
          /\ UNCHANGED <<data, index_table, dslab_free, todo>>
      BY <1>7 DEF ShrinkOps
    <2>2. todo' = {} /\ \A d \in free_list : Vacant(d)
      BY <1>1, <2>1 DEF GcContents, GcVisited
    <2>3. CASE UNCHANGED <<free_list, slab, ops_pool>>
      <3>1. GcContents'
        BY <1>4, <2>1, <2>2, <2>3
      <3> QED
        BY <2>1, <2>3, <3>1, GcPassiveStep
    <2>4. CASE \E d \in ops_pool : /\ free_list' = free_list \cup {d}
                                   /\ slab' = [slab EXCEPT ![d] = ResetHeader]
                                   /\ ops_pool' = ops_pool \ {d}
      <3>1. PICK d \in ops_pool : /\ free_list' = free_list \cup {d}
                                  /\ slab' = [slab EXCEPT ![d] = ResetHeader]
                                  /\ ops_pool' = ops_pool \ {d}
        BY <2>4
      <3>2. GcContents'
        BY <1>3, <1>4, <2>1, <2>2, <3>1
      <3> DEFINE R == {d}
      <3>3. R \in SUBSET GcSlabs /\ \A s \in R : Vacant(s)
        BY <1>3
      <3>4. \A s \in Slabs : slab'[s] = IF s \in R THEN ResetHeader ELSE slab[s]
        BY <1>1, <3>1 DEF CacheTypeOK
      <3>5. (dslab_free \cup ops_pool)' \subseteq dslab_free \cup ops_pool \cup R
        BY <2>1, <3>1
      <3> HIDE DEF R
      <3> QED
        BY <2>1, <3>2, <3>3, <3>4, <3>5, GcResets
    <2> QED
      BY <1>7, <2>3, <2>4 DEF ShrinkOps, RemoveFromOps, InChannel
  <1>8. CASE ReclaimToFree
    <2>1. /\ gc_pc = "to_free" /\ gc_pc' = "wait" /\ free_list' = {}
          /\ slab' = [s \in Slabs |-> IF s \in free_list THEN ResetHeader ELSE slab[s]]
          /\ dslab_free' = dslab_free \cup free_list
          /\ UNCHANGED <<data, index_table, ops_pool, todo>>
      BY <1>8 DEF ReclaimToFree
    <2>2. todo' = {} /\ \A d \in free_list : Vacant(d)
      BY <1>1, <2>1 DEF GcContents, GcVisited
    <2>3. GcContents'
      BY <1>4, <2>1, <2>2
    <2>4. \A s \in Slabs : slab'[s] = IF s \in free_list THEN ResetHeader ELSE slab[s]
      BY <2>1
    <2> QED
      BY <1>2, <2>1, <2>2, <2>3, <2>4, GcResets
  <1> QED
    BY <1>5, <1>6, <1>7, <1>8

\* evict_dslab deletes at least the entries that name the dslab.
LEMMA EvictKeeps ==
  ASSUME Ownership, CacheTypeOK', Contents, GcStep, evict_dslab
  PROVE  Contents'
  <1>1. GcContents /\ GcTypeOK /\ CacheTypeOK /\ SlabsSound
    BY DEF Contents, Ownership, TypeOK
  <1>2. PICK d \in todo : /\ DelIndexEntries(d)
                          /\ slab' = [slab EXCEPT ![d].nr_used = 0]
                          /\ todo' = todo \ {d}
    BY DEF evict_dslab
  <1>3. /\ gc_pc = "evict" /\ gc_pc' = "evict"
        /\ UNCHANGED <<data, to_drop, free_list, dslab_free, ops_pool, mslab_free>>
    BY DEF evict_dslab, dslabVars, mslabVars
  <1>4. UNCHANGED putVars
    BY GcKeepsMslabs DEF Ownership
  <1>5. d \in GcSlabs /\ d \in Slabs /\ PutBit(d) = 0
    <2>1. d \in GcSlabs
      BY <1>1, GcHasSlabs
    <2> QED
      BY <2>1, NoPutBit, SlabsAssumption DEF GcSlabs, PutSlabs
  <1>6. /\ \A s \in Slabs : s # d => slab'[s] = slab[s]
        /\ slab'[d].nr_used = 0
        /\ \A s \in Slabs : slab'[s].cid = slab[s].cid /\ slab'[s].nr_alloc = slab[s].nr_alloc
    BY <1>1, <1>2, <1>5 DEF CacheTypeOK, SlabHeader
  <1>7. ASSUME NEW g \in Digests
        PROVE  index_table'[g] = index_table[g] \/ index_table'[g] = None
    BY <1>2 DEF DelIndexEntries
  <1>8. ASSUME NEW g \in Digests, index_table'[g] # None
        PROVE  index_table'[g] = index_table[g] /\ index_table[g].slab # d
    <2>1. index_table'[g] = index_table[g] /\ g \notin SlotDigests(d)
      BY <1>2, <1>8 DEF DelIndexEntries
    <2>2. index_table[g].slab = d => g \in SlotDigests(d)
      <3> SUFFICES ASSUME index_table[g].slab = d PROVE g \in SlotDigests(d)
        OBVIOUS
      <3>1. index_table[g].slot \in SlotIds
        BY <1>1, <1>8, <2>1, EntrySlot DEF SlabsSound
      <3>2. /\ index_table[g].slot < slab[d].nr_alloc
            /\ DigestOf[data[d][index_table[g].slot].key] = g
        BY <1>1, <1>8, <2>1 DEF SlabsSound, EntriesSound
      <3> QED
        BY <3>1, <3>2 DEF SlotDigests
    <2> QED
      BY <2>1, <2>2
  <1>9. EntriesSound'
    <2> SUFFICES ASSUME NEW g \in Digests, index_table'[g] # None
                 PROVE  /\ index_table'[g].slot < slab'[index_table'[g].slab].nr_alloc
                        /\ DigestOf[data'[index_table'[g].slab][index_table'[g].slot].key] = g
      BY DEF EntriesSound
    <2>1. index_table'[g] = index_table[g] /\ index_table[g].slab \in Slabs
      BY <1>1, <1>8, EntrySlot DEF SlabsSound
    <2> QED
      BY <1>1, <1>3, <1>6, <2>1 DEF SlabsSound, EntriesSound
  <1>10. SlotsFilled'
    BY <1>1, <1>3, <1>6, SlotsKept DEF SlabsSound
  <1>11. NrUsedCoversEntries'
    <2> SUFFICES ASSUME NEW s \in Slabs
                 PROVE  slab'[s].nr_used >= Cardinality(EntriesOf(s)') + PutBit(s)'
      BY DEF NrUsedCoversEntries, PutBit
    <2>1. PutBit(s)' = PutBit(s)
      BY <1>4 DEF PutBit, putVars
    <2>2. CASE s = d
      <3>1. EntriesOf(s)' = {}
        BY <1>8, <2>2 DEF EntriesOf
      <3> QED
        BY <1>5, <1>6, <2>1, <2>2, <3>1, FS_EmptySet
    <2>3. CASE s # d
      <3>1. EntriesOf(s)' \subseteq EntriesOf(s) /\ EntriesOf(s) \subseteq Digests
        BY <1>8 DEF EntriesOf
      <3> DEFINE n == Cardinality(EntriesOf(s)')
                 k == Cardinality(EntriesOf(s))
      <3>2. n \in Nat /\ k \in Nat /\ n <= k
        BY <3>1, FewerDigests
      <3>3. slab[s].nr_used >= k + PutBit(s)
        BY <1>1, NrUsedCovers DEF SlabsSound
      <3>4. slab[s].nr_used \in Int /\ PutBit(s) \in Nat /\ slab'[s].nr_used = slab[s].nr_used
        BY <1>1, <1>6, <2>3 DEF CacheTypeOK, SlabHeader, PutBit
      <3> HIDE DEF n, k
      <3>5. slab'[s].nr_used >= n + PutBit(s)
        BY <3>2, <3>3, <3>4
      <3> QED
        BY <2>1, <3>5 DEF n
    <2> QED
      BY <2>2, <2>3
  <1>12. BlankHeaders'
    <2> SUFFICES ASSUME NEW s \in mslab_free \cup dslab_free \cup ops_pool
                 PROVE  slab'[s] = ResetHeader
      BY <1>3 DEF BlankHeaders
    <2>1. s \in Slabs /\ slab[s] = ResetHeader
      BY <1>1 DEF CacheTypeOK, BlankHeaders, Contents
    <2>2. CASE s # d
      BY <1>6, <2>1, <2>2
    <2>3. CASE s = d
      BY <1>1, <1>2, <1>5, <2>1, <2>3 DEF CacheTypeOK, ResetHeader
    <2> QED
      BY <2>2, <2>3
  <1>13. PutContents' /\ FlushContents'
    <2>1. NoNewEntries(Slabs \ GcSlabs)
      BY <1>8 DEF NoNewEntries
    <2>2. \A g \in Digests : index_table[g] = None => index_table'[g] = None
      BY <1>7
    <2>3. \A s \in Slabs : s \notin GcSlabs => slab'[s] = slab[s] /\ data'[s] = data[s]
      BY <1>3, <1>5, <1>6
    <2> QED
      BY <2>1, <2>2, <2>3, GcKeepsOthers
  <1>14. \A s : Vacant(s) => Vacant(s)'
    BY <1>8 DEF Vacant
  <1>15. Vacant(d)'
    BY <1>8 DEF Vacant
  <1>16. GcContents'
    <2>1. GcTarget'
      BY <1>1, <1>3, <1>14 DEF GcContents, GcTarget
    <2>2. \A x \in (free_list \ todo') \cup (to_drop \ todo') : Vacant(x)'
      BY <1>1, <1>2, <1>3, <1>14, <1>15 DEF GcContents, GcVisited
    <2>3. GcVisited'
      BY <1>1, <1>2, <1>3, <2>2 DEF GcContents, GcVisited, Vacant
    <2>4. GcBatch'
      BY <1>3 DEF GcBatch
    <2> QED
      BY <2>1, <2>3, <2>4 DEF GcContents
  <1> QED
    BY <1>9, <1>10, <1>11, <1>12, <1>13, <1>16 DEF Contents, SlabsSound

\* gc_dslabs takes a blank dslab and gives the buffer the class of the batch.
LEMMA TakeOpsKeeps ==
  ASSUME Ownership, CacheTypeOK', Contents, GcStep, TakeOpsDslab
  PROVE  Contents'
  <1>1. GcContents /\ GcTypeOK /\ CacheTypeOK /\ SlabsSound /\ GcHolding /\ DslabHands
    BY DEF Contents, Ownership, TypeOK, OneHand
  <1>2. PICK d \in ops_pool :
           /\ ops_slab' = d /\ ops_pool' = ops_pool \ {d}
           /\ dslab_full' = (dslab_full \cup {d}) \ to_drop
           /\ slab' = [slab EXCEPT ![d] = ResetHeader,
                                   ![gc_buffer] = [ResetHeader EXCEPT !.cid = gc_class]]
    BY DEF TakeOpsDslab, FoundFrom, RemoveFromOps
  <1>3. /\ gc_pc = "take" /\ gc_pc' = "move" /\ todo' = to_drop
        /\ free_list' = free_list \cup to_drop
        /\ UNCHANGED <<data, index_table, to_drop, dslab_free, mslab_free, gc_class>>
    BY DEF TakeOpsDslab, mslabVars
  <1>4. UNCHANGED putVars
    BY GcKeepsMslabs DEF Ownership
  <1>5. /\ d \in DSlabs /\ slab[d] = ResetHeader /\ d # gc_buffer
        /\ to_drop \subseteq dslab_full /\ d \notin to_drop /\ gc_buffer \notin to_drop
    BY <1>1, <1>2, <1>3, SlabsAssumption
    DEF CacheTypeOK, Contents, BlankHeaders, GcHolding, DslabHands, Disjoint
  <1>6. /\ \A s \in Slabs : s # gc_buffer => slab'[s] = slab[s]
        /\ slab'[gc_buffer] = [cid |-> gc_class, nr_alloc |-> 0, nr_used |-> 0]
    BY <1>1, <1>2, <1>5 DEF CacheTypeOK, ResetHeader
  <1>7. gc_class \in Classes /\ gc_class < NrSlabClass /\ NrSlots(gc_class) \in Nat
    <2>1. gc_class \in Nat /\ gc_class < NrSlabClass
      BY <1>1, <1>3 DEF GcHolding, GcTypeOK
    <2> QED
      BY <2>1, EmptyBatch
  <1>8. Vacant(gc_buffer)
    BY <1>1, <1>3 DEF GcContents, GcTarget
  <1>9. EntriesSound'
    BY <1>1, <1>3, <1>6, <1>8, EntriesKept DEF SlabsSound
  <1>10. SlotsFilled'
    <2> SUFFICES ASSUME NEW s \in Slabs
                 PROVE  /\ slab'[s].nr_alloc <= NrSlots(slab'[s].cid)
                        /\ \A i \in SlotIds : i < slab'[s].nr_alloc =>
                              /\ data'[s][i] \in Slot
                              /\ KVSize[data'[s][i].key][data'[s][i].value]
                                    <= SlotSize[slab'[s].cid]
      BY DEF SlotsFilled
    <2>1. CASE s = gc_buffer
      BY <1>6, <1>7, <2>1 DEF SlotIds
    <2>2. CASE s # gc_buffer
      BY <1>1, <1>3, <1>6, <2>2 DEF SlabsSound, SlotsFilled
    <2> QED
      BY <2>1, <2>2
  <1>11. NrUsedCoversEntries'
    <2>1. PutBit(gc_buffer) = 0
      BY NoPutBit, SlabsAssumption DEF PutSlabs
    <2>2. slab'[gc_buffer].nr_used >= 0
      BY <1>6
    <2>3. \A s \in Slabs : \/ slab'[s].nr_used = slab[s].nr_used
                           \/ slab'[s].nr_used >= 0 /\ Vacant(s) /\ PutBit(s) = 0
      BY <1>6, <1>8, <2>1, <2>2
    <2> QED
      BY <1>1, <1>3, <1>4, <2>3, CountKept DEF SlabsSound, putVars
  <1>12. BlankHeaders'
    <2>1. \A s \in mslab_free \cup dslab_free \cup ops_pool :
             s \in Slabs /\ s # gc_buffer /\ slab[s] = ResetHeader
      BY <1>1, SlabsAssumption DEF CacheTypeOK, Contents, BlankHeaders
    <2> QED
      BY <1>2, <1>3, <1>6, <2>1 DEF BlankHeaders
  <1>13. PutContents' /\ FlushContents'
    <2>1. NoNewEntries(Slabs \ GcSlabs)
      BY <1>3 DEF NoNewEntries
    <2>2. \A s \in Slabs : s \notin GcSlabs => slab'[s] = slab[s] /\ data'[s] = data[s]
      BY <1>3, <1>6 DEF GcSlabs
    <2> QED
      BY <1>3, <2>1, <2>2, GcKeepsOthers
  <1>14. GcTarget'
    <2>1. ops_slab' = d /\ d \in dslab_full' /\ slab'[d] = ResetHeader
      BY <1>2, <1>5, <1>6
    <2>2. slab'[gc_buffer].cid = gc_class
      BY <1>6
    <2> QED
      BY <1>3, <2>1, <2>2 DEF GcTarget
  <1>15. GcVisited'
    BY <1>1, <1>3 DEF GcContents, GcVisited, Vacant
  <1>16. GcBatch'
    <2>1. \A x \in to_drop : slab'[x].cid = gc_class
      <3>1. \A x \in to_drop : x \in Slabs /\ x # gc_buffer /\ slab[x].cid = gc_class
        BY <1>1, <1>3, <1>5 DEF GcContents, GcBatch, GcTypeOK
      <3> QED
        BY <1>6, <3>1
    <2> DEFINE n == Cardinality(EntriesIn(to_drop))
    <2>2. n \in Nat /\ n <= nr_slots_moved /\ nr_slots_moved <= NrSlots(gc_class)
      <3>1. n \in Nat
        BY DigestCount DEF EntriesIn
      <3> QED
        BY <1>1, <1>3, <1>7, <3>1 DEF GcContents, GcBatch
    <2>3. EntriesIn(todo)' = EntriesIn(to_drop)
      BY <1>3 DEF EntriesIn
    <2>4. n + slab'[gc_buffer].nr_alloc <= NrSlots(gc_class)
      <3>1. slab'[gc_buffer].nr_alloc = 0 /\ nr_slots_moved \in Int
        BY <1>1, <1>6 DEF GcTypeOK
      <3> HIDE DEF n
      <3> QED
        BY <1>7, <2>2, <3>1
    <2> QED
      BY <1>3, <1>7, <2>1, <2>3, <2>4 DEF GcBatch
  <1> QED
    BY <1>9, <1>10, <1>11, <1>12, <1>13, <1>14, <1>15, <1>16
    DEF Contents, SlabsSound, GcContents

\* The buffer goes to the blank dslab, and then the index follows.
LEMMA BufferKeeps ==
  ASSUME Ownership, CacheTypeOK', Contents, GcStep, WriteGcBuffer \/ MoveIndexToOpsDslab
  PROVE  Contents'
  <1>1. GcContents /\ GcTypeOK /\ CacheTypeOK /\ SlabsSound /\ GcHolding /\ DslabHands
    BY DEF Contents, Ownership, TypeOK, OneHand
  <1>2. UNCHANGED putVars
    BY GcKeepsMslabs DEF Ownership
  <1>3. gc_pc \in {"move", "index"}
    BY DEF WriteGcBuffer, MoveIndexToOpsDslab
  <1>4. /\ ops_slab \in DSlabs /\ ops_slab \in GcSlabs /\ ops_slab \in dslab_full
        /\ ops_slab # gc_buffer /\ gc_buffer \in GcSlabs
        /\ PutBit(gc_buffer) = 0 /\ PutBit(ops_slab) = 0
    <2>1. ops_slab \in dslab_full /\ ops_slab \in GcSlabs
      BY <1>1, <1>3, GcHasSlabs DEF GcContents, GcTarget
    <2>2. ops_slab \in DSlabs
      BY <1>1, <2>1 DEF CacheTypeOK
    <2> QED
      BY <2>1, <2>2, NoPutBit, SlabsAssumption DEF PutSlabs, GcSlabs
  <1>5. /\ \A s \in mslab_free \cup dslab_free \cup ops_pool :
              s \in Slabs /\ s \notin {gc_buffer, ops_slab} /\ slab[s] = ResetHeader
    BY <1>1, <1>4, SlabsAssumption
    DEF CacheTypeOK, Contents, BlankHeaders, DslabHands, Disjoint
  <1>6. ops_slab \notin free_list
    BY <1>1, <1>4 DEF DslabHands, Disjoint, GcHolds
  <1>7. CASE WriteGcBuffer
    <2>1. /\ gc_pc = "move" /\ gc_pc' = "index" /\ todo = {}
          /\ flush_mslab_to_dslab(gc_buffer, ops_slab)
          /\ UNCHANGED <<index_table, todo, free_list, to_drop, ops_slab, gc_class,
                         mslab_free, dslab_free, dslab_full, ops_pool>>
      BY <1>7 DEF WriteGcBuffer, batchVars, mslabVars, dslabVars
    <2>2. /\ slab'[ops_slab] = slab[gc_buffer] /\ data'[ops_slab] = data[gc_buffer]
          /\ \A s \in Slabs : s # ops_slab => slab'[s] = slab[s] /\ data'[s] = data[s]
      BY <1>1, <1>4, <2>1 DEF flush_mslab_to_dslab, CacheTypeOK
    <2>3. slab[ops_slab] = ResetHeader
      BY <1>1, <2>1 DEF GcContents, GcTarget
    <2>4. /\ SlabsSound' /\ Copied(gc_buffer, ops_slab)' /\ Vacant(ops_slab)'
      <3>1. ASSUME NEW dst \in Slabs, gc_buffer # dst,
                   flush_mslab_to_dslab(gc_buffer, dst), slab[dst] = ResetHeader, PutBit(dst) = 0
            PROVE  SlabsSound' /\ Copied(gc_buffer, dst)' /\ Vacant(dst)'
        BY <1>1, <1>2, <2>1, <3>1, CopyKeeps DEF putVars
      <3>2. /\ SlabsSound' /\ Copied(gc_buffer, ops_slab)' /\ Vacant(ops_slab)'
        BY <1>4, <2>1, <2>3, <3>1 DEF Copied, Vacant
      <3> QED
        BY <3>2
    <2>5. BlankHeaders'
      BY <1>5, <2>1, <2>2 DEF BlankHeaders
    <2>6. PutContents' /\ FlushContents'
      <3>1. NoNewEntries(Slabs \ GcSlabs)
        BY <2>1 DEF NoNewEntries
      <3>2. \A s \in Slabs : s \notin GcSlabs => slab'[s] = slab[s] /\ data'[s] = data[s]
        BY <1>4, <2>2
      <3> QED
        BY <2>1, <3>1, <3>2, GcKeepsOthers
    <2>7. slab'[gc_buffer].cid = gc_class
      BY <1>1, <1>4, <2>1, <2>2 DEF GcContents, GcTarget
    <2>8. GcContents'
      BY <1>1, <1>4, <2>1, <2>4, <2>7 DEF GcContents, GcTarget, GcVisited, GcBatch, Vacant
    <2> QED
      BY <2>4, <2>5, <2>6, <2>8 DEF Contents
  <1>8. CASE MoveIndexToOpsDslab
    <2>1. /\ gc_pc = "index" /\ gc_pc' = "batch" /\ gc_class' = gc_class + 1
          /\ to_drop' = {} /\ nr_slots_moved' = 0
          /\ modify_index_to(gc_buffer, ops_slab)
          /\ UNCHANGED <<data, todo, free_list, mslab_free, dslab_free, dslab_full, ops_pool>>
      BY <1>8 DEF MoveIndexToOpsDslab, mslabVars, dslabVars
    <2>2. /\ SlabsSound' /\ Vacant(gc_buffer)'
          /\ \A g \in Digests :
                \/ index_table'[g] = index_table[g]
                \/ /\ index_table[g] # None /\ index_table[g].slab = gc_buffer
                   /\ index_table'[g] = [slab |-> ops_slab, slot |-> index_table[g].slot]
          /\ \A s \in Slabs : s \notin {gc_buffer, ops_slab} => slab'[s] = slab[s]
      <3>1. Copied(gc_buffer, ops_slab) /\ Vacant(ops_slab)
        BY <1>1, <2>1 DEF GcContents, GcTarget
      <3> QED
        BY <1>1, <1>2, <1>4, <2>1, <3>1, ModifyIndexKeeps DEF putVars
    <2>3. ASSUME NEW g \in Digests, index_table'[g] # None, index_table'[g].slab # ops_slab
          PROVE  index_table'[g] = index_table[g]
      <3>1. [slab |-> ops_slab, slot |-> index_table[g].slot].slab = ops_slab
        OBVIOUS
      <3> QED
        BY <2>2, <2>3, <3>1
    <2>4. BlankHeaders'
      BY <1>5, <2>1, <2>2 DEF BlankHeaders
    <2>5. PutContents' /\ FlushContents'
      <3>1. NoNewEntries(Slabs \ GcSlabs)
        BY <1>4, <2>3 DEF NoNewEntries
      <3>2. \A s \in Slabs : s \notin GcSlabs => slab'[s] = slab[s] /\ data'[s] = data[s]
        BY <1>4, <2>1, <2>2
      <3>3. \A g \in Digests : index_table[g] = None => index_table'[g] = None
        BY <2>2
      <3> QED
        BY <3>1, <3>2, <3>3, GcKeepsOthers
    <2>6. \A s : (Vacant(s) /\ s # ops_slab) => Vacant(s)'
      BY <2>3 DEF Vacant
    <2>7. GcTarget'
      BY <2>1, <2>2 DEF GcTarget
    <2>8. GcVisited'
      <3>1. todo = {} /\ \A d \in free_list : Vacant(d)
        BY <1>1, <2>1 DEF GcContents, GcVisited
      <3>2. \A d \in free_list : Vacant(d)'
        BY <1>6, <2>6, <3>1
      <3> QED
        BY <2>1, <3>1, <3>2 DEF GcVisited, Vacant
    <2>9. GcBatch'
      <3>1. Cardinality(EntriesIn(to_drop)') = 0
        BY <2>1, FS_EmptySet DEF EntriesIn
      <3>2. gc_class' \in Nat
        BY <1>1, <2>1 DEF GcTypeOK
      <3>3. gc_class' < NrSlabClass => 0 <= NrSlots(gc_class')
        BY <3>2, EmptyBatch
      <3> QED
        BY <2>1, <3>1, <3>3 DEF GcBatch
    <2> QED
      BY <2>2, <2>4, <2>5, <2>7, <2>8, <2>9 DEF Contents, GcContents
  <1> QED
    BY <1>7, <1>8

\* The valid objects of a dslab, in slot order, go to the next free slots of the
\* buffer, one to each.
LEMMA NewSlots ==
  ASSUME CacheTypeOK, EntriesSound, SlotsFilled, NEW d \in Slabs
  PROVE  LET a == slab[gc_buffer].nr_alloc
             n == Cardinality(EntriesOf(d))
         IN  /\ \A g \in EntriesOf(d) : NewSlot(d, g) \in a..(a + n - 1)
             /\ \A g, h \in EntriesOf(d) : NewSlot(d, g) = NewSlot(d, h) => g = h
             /\ \A i \in a..(a + n - 1) : \E g \in EntriesOf(d) : NewSlot(d, g) = i
  <1> DEFINE E == EntriesOf(d)
             Below(g) == {h \in E : index_table[h].slot < index_table[g].slot}
             Rank(g) == Cardinality(Below(g))
             a == slab[gc_buffer].nr_alloc
             n == Cardinality(E)
  <1>1. LiveDigests(d) = E
    BY LiveIsEntries
  <1>2. \A g \in E : NewSlot(d, g) = a + Rank(g)
    BY <1>1 DEF NewSlot
  <1>3. a \in Nat /\ n \in Nat /\ E \subseteq Digests /\ IsFiniteSet(E)
    <2>1. E \subseteq Digests
      BY DEF EntriesOf
    <2> QED
      BY <2>1, DigestCount DEF CacheTypeOK, SlabHeader
  <1>4. ASSUME NEW g \in E PROVE index_table[g].slot \in Int
    BY DEF EntriesOf, CacheTypeOK, IndexEntry
  <1>5. ASSUME NEW g \in E, NEW h \in E, g # h
        PROVE  index_table[g].slot # index_table[h].slot
    BY <1>3, <1>5 DEF EntriesOf, EntriesSound
  <1>6. ASSUME NEW g \in E PROVE Rank(g) \in 0..(n - 1)
    <2>1. Below(g) \subseteq E \ {g} /\ E \ {g} \subseteq Digests
      BY <1>3, <1>4
    <2>2. Cardinality(E \ {g}) = n - 1
      BY <1>3, OneDigest
    <2>3. Rank(g) \in Nat /\ Rank(g) <= Cardinality(E \ {g})
      BY <2>1, FewerDigests
    <2> HIDE DEF Rank, n
    <2> QED
      BY <1>3, <2>2, <2>3
  <1>7. ASSUME NEW g \in E, NEW h \in E, index_table[g].slot < index_table[h].slot
        PROVE  Rank(g) # Rank(h)
    <2>1. Below(g) \subseteq Below(h) \ {g} /\ g \in Below(h) /\ Below(h) \subseteq Digests
      BY <1>3, <1>4, <1>7
    <2>2. Cardinality(Below(h) \ {g}) = Rank(h) - 1
      BY <1>3, <2>1, OneDigest
    <2>3. Rank(g) <= Cardinality(Below(h) \ {g})
      BY <2>1, FewerDigests
    <2>4. Rank(g) \in Int /\ Rank(h) \in Int
      BY <1>6
    <2> HIDE DEF Rank
    <2> QED
      BY <2>2, <2>3, <2>4
  <1>8. ASSUME NEW g \in E, NEW h \in E, Rank(g) = Rank(h) PROVE g = h
    <2>1. /\ ~(index_table[g].slot < index_table[h].slot)
          /\ ~(index_table[h].slot < index_table[g].slot)
      BY <1>7, <1>8
    <2>2. index_table[g].slot = index_table[h].slot
      BY <1>4, <2>1
    <2> QED
      BY <1>5, <2>2
  <1> HIDE DEF E, Rank
  <1> DEFINE f == [g \in E |-> Rank(g)]
  <1>9. f \in Injection(E, 0..(n - 1))
    <2>1. f \in [E -> 0..(n - 1)]
      BY <1>6
    <2>2. IsInjective(f)
      BY <1>8 DEF IsInjective
    <2> QED
      BY <2>1, <2>2 DEF Injection
  <1>10. IsFiniteSet(0..(n - 1)) /\ Cardinality(0..(n - 1)) = n
    <2> HIDE DEF n
    <2>1. n - 1 \in Int
      BY <1>3
    <2>2. Cardinality(0..(n - 1)) = IF 0 > n - 1 THEN 0 ELSE (n - 1) - 0 + 1
      BY <2>1, FS_Interval
    <2> QED
      BY <1>3, <2>1, <2>2, FS_Interval
  <1>11. f \in Surjection(E, 0..(n - 1))
    BY <1>9, <1>10, FS_Injection
  <1>12. \A i \in 0..(n - 1) : \E g \in E : Rank(g) = i
    BY <1>11 DEF Surjection
  <1> HIDE DEF f, n, a
  <1>13. \A g \in E : NewSlot(d, g) \in a..(a + n - 1)
    BY <1>2, <1>3, <1>6
  <1>14. \A g, h \in E : NewSlot(d, g) = NewSlot(d, h) => g = h
    <2> SUFFICES ASSUME NEW g \in E, NEW h \in E, NewSlot(d, g) = NewSlot(d, h) PROVE g = h
      OBVIOUS
    <2> DEFINE x == Rank(g)
               y == Rank(h)
    <2>1. x \in Int /\ y \in Int /\ a + x = a + y
      BY <1>2, <1>6
    <2> HIDE DEF x, y
    <2>2. x = y
      BY <1>3, <2>1
    <2> QED
      BY <1>8, <2>2 DEF x, y
  <1>15. \A i \in a..(a + n - 1) : \E g \in E : NewSlot(d, g) = i
    <2> SUFFICES ASSUME NEW i \in a..(a + n - 1) PROVE \E g \in E : NewSlot(d, g) = i
      OBVIOUS
    <2>1. i - a \in 0..(n - 1) /\ i = a + (i - a)
      BY <1>3
    <2>2. PICK g \in E : Rank(g) = i - a
      BY <1>12, <2>1
    <2> QED
      BY <1>2, <2>1, <2>2
  <1> QED
    BY <1>13, <1>14, <1>15 DEF E, a, n

\* A dslab that gc_dslabs is about to visit, the buffer, and the room in it.
LEMMA BatchHasRoom ==
  ASSUME Ownership, Contents, gc_pc = "move", NEW d \in todo
  PROVE  /\ d \in free_list /\ d \in DSlabs /\ d \in GcSlabs /\ gc_buffer \in GcSlabs
         /\ d # gc_buffer /\ d # ops_slab /\ ops_slab # gc_buffer /\ ops_slab \in DSlabs
         /\ slab[d].cid = gc_class /\ slab[gc_buffer].cid = gc_class /\ gc_class \in Classes
         /\ slab[ops_slab] = ResetHeader /\ ops_slab \in dslab_full
         /\ PutBit(gc_buffer) = 0 /\ PutBit(d) = 0
         /\ slab[gc_buffer].nr_alloc \in Nat
         /\ Cardinality(EntriesOf(d)) \in Nat /\ Cardinality(EntriesIn(todo)) \in Nat
         /\ Cardinality(EntriesOf(d)) <= Cardinality(EntriesIn(todo))
         /\ Cardinality(EntriesIn(todo)) + slab[gc_buffer].nr_alloc <= NrSlots(gc_class)
         /\ NrSlots(gc_class) \in Nat
  <1>1. GcContents /\ GcTypeOK /\ CacheTypeOK /\ DslabHands
    BY DEF Contents, Ownership, TypeOK, OneHand
  <1>2. /\ d \in free_list /\ slab[d].cid = gc_class /\ slab[gc_buffer].cid = gc_class
        /\ slab[ops_slab] = ResetHeader /\ ops_slab \in dslab_full /\ gc_class < NrSlabClass
    BY <1>1 DEF GcContents, GcVisited, GcBatch, GcTarget
  <1>3. d \in DSlabs /\ ops_slab \in DSlabs /\ gc_class \in Classes /\ NrSlots(gc_class) \in Nat
    BY <1>1, <1>2, EmptyBatch DEF CacheTypeOK, GcTypeOK
  <1>4. d \in GcSlabs /\ gc_buffer \in GcSlabs
    BY <1>1, GcHasSlabs
  <1>5. d # ops_slab
    BY <1>1, <1>2 DEF DslabHands, Disjoint, GcHolds
  <1>6. d # gc_buffer /\ ops_slab # gc_buffer /\ PutBit(gc_buffer) = 0 /\ PutBit(d) = 0
    BY <1>3, NoPutBit, SlabsAssumption DEF PutSlabs
  <1>7. EntriesIn(todo) \subseteq Digests /\ EntriesOf(d) \subseteq EntriesIn(todo)
    BY DEF EntriesIn, EntriesOf
  <1>8. /\ Cardinality(EntriesOf(d)) \in Nat /\ Cardinality(EntriesIn(todo)) \in Nat
        /\ Cardinality(EntriesOf(d)) <= Cardinality(EntriesIn(todo))
    BY <1>7, FewerDigests
  <1>9. /\ slab[gc_buffer].nr_alloc \in Nat
        /\ Cardinality(EntriesIn(todo)) + slab[gc_buffer].nr_alloc <= NrSlots(gc_class)
    BY <1>1 DEF GcContents, GcBatch, CacheTypeOK, SlabHeader
  <1> QED
    BY <1>2, <1>3, <1>4, <1>5, <1>6, <1>8, <1>9

\* What MoveObjects does with a dslab d of the batch: its entries, one by one, now
\* name the next slots of the buffer, which hold the same objects.
MovedFrom(d) ==
    LET E == EntriesOf(d)
        a == slab[gc_buffer].nr_alloc
        n == Cardinality(E) IN
    /\ todo' = todo \ {d}
    /\ \A g \in E :
          /\ index_table'[g] # None /\ index_table'[g].slab = gc_buffer
          /\ index_table'[g].slot \in a..(a + n - 1)
          /\ data'[gc_buffer][index_table'[g].slot] = data[d][index_table[g].slot]
    /\ \A g \in Digests : g \notin E => index_table'[g] = index_table[g]
    /\ \A i \in a..(a + n - 1) : \E g \in E : index_table'[g].slot = i
    /\ \A i \in SlotIds : i < a => data'[gc_buffer][i] = data[gc_buffer][i]
    /\ \A s \in Slabs : s # gc_buffer => data'[s] = data[s]
    /\ slab'[gc_buffer].cid = gc_class /\ slab'[gc_buffer].nr_alloc = a + n
    /\ slab'[gc_buffer].nr_used = slab[gc_buffer].nr_used + n
    /\ slab'[d].nr_used = 0
    /\ slab'[d].cid = slab[d].cid /\ slab'[d].nr_alloc = slab[d].nr_alloc
    /\ \A s \in Slabs : s \notin {d, gc_buffer} => slab'[s] = slab[s]

\* MoveObjects does that to one of them.
LEMMA MoveObjectsMoves ==
  ASSUME Ownership, Contents, MoveObjects
  PROVE  \E d \in todo : MovedFrom(d)
  <1>1. CacheTypeOK /\ SlabsSound /\ gc_pc = "move"
    BY DEF Contents, Ownership, TypeOK, MoveObjects
  <1>2. PICK d \in todo :
          LET live == LiveDigests(d)
              n == Cardinality(live) IN
          /\ data' = [data EXCEPT ![gc_buffer] = [i \in SlotIds |->
                IF \E g \in live : NewSlot(d, g) = i
                THEN data[d][index_table[CHOOSE g \in live : NewSlot(d, g) = i].slot]
                ELSE data[gc_buffer][i]]]
          /\ index_table' = [g \in Digests |->
                IF g \in live THEN [slab |-> gc_buffer, slot |-> NewSlot(d, g)]
                ELSE index_table[g]]
          /\ slab' = [slab EXCEPT ![gc_buffer].nr_alloc = @ + n,
                                  ![gc_buffer].nr_used = @ + n,
                                  ![d].nr_used = 0]
          /\ todo' = todo \ {d}
    BY DEF MoveObjects
  <1>3. /\ d \in DSlabs /\ d # gc_buffer
        /\ slab[gc_buffer].cid = gc_class /\ gc_class \in Classes
    BY <1>1, BatchHasRoom
  <1> DEFINE E == EntriesOf(d)
             a == slab[gc_buffer].nr_alloc
             n == Cardinality(E)
  <1>4. LiveDigests(d) = E /\ E \subseteq Digests
    BY <1>1, <1>3, LiveIsEntries DEF SlabsSound, EntriesOf
  <1>5. n \in Nat /\ a \in Nat /\ IsFiniteSet(E)
    BY <1>1, <1>4, DigestCount DEF CacheTypeOK, SlabHeader
  <1>6. /\ \A g \in E : NewSlot(d, g) \in a..(a + n - 1)
        /\ \A g, h \in E : NewSlot(d, g) = NewSlot(d, h) => g = h
        /\ \A i \in a..(a + n - 1) : \E g \in E : NewSlot(d, g) = i
    BY <1>1, <1>3, NewSlots DEF SlabsSound
  <1>7. \A i \in a..(a + n - 1) : i \in SlotIds
    <2>1. /\ n <= Cardinality(EntriesIn(todo)) /\ Cardinality(EntriesIn(todo)) \in Nat
          /\ Cardinality(EntriesIn(todo)) + a <= NrSlots(gc_class) /\ NrSlots(gc_class) \in Nat
      BY <1>1, BatchHasRoom
    <2>2. \A i \in Nat : i < NrSlots(gc_class) => i \in SlotIds
      BY <1>3, SlotRange
    <2> DEFINE k == Cardinality(EntriesIn(todo))
    <2> HIDE DEF a, n, k
    <2> QED
      BY <1>5, <2>1, <2>2 DEF k
  <1>8. ASSUME NEW g \in E
         PROVE  index_table'[g] # None /\ index_table'[g].slab = gc_buffer
                /\ index_table'[g].slot = NewSlot(d, g)
    <2>1. g \in Digests /\ index_table'[g] = [slab |-> gc_buffer, slot |-> NewSlot(d, g)]
      BY <1>2, <1>4
    <2>2. NewSlot(d, g) \in Nat
      BY <1>5, <1>6
    <2>3. index_table'[g] \in IndexEntry
      BY <2>1, <2>2 DEF IndexEntry
    <2> QED
      BY <2>1, <2>3, NoneAssumption
  <1>9. ASSUME NEW g \in Digests, g \notin E PROVE index_table'[g] = index_table[g]
    BY <1>2, <1>4, <1>9
  <1>10. /\ slab'[gc_buffer].cid = gc_class /\ slab'[gc_buffer].nr_alloc = a + n
         /\ slab'[gc_buffer].nr_used = slab[gc_buffer].nr_used + n
         /\ slab'[d].nr_used = 0
         /\ slab'[d].cid = slab[d].cid /\ slab'[d].nr_alloc = slab[d].nr_alloc
         /\ \A s \in Slabs : s \notin {d, gc_buffer} => slab'[s] = slab[s]
    <2>1. slab' = [slab EXCEPT ![gc_buffer].nr_alloc = @ + n,
                               ![gc_buffer].nr_used = @ + n,
                               ![d].nr_used = 0]
      BY <1>2, <1>4
    <2> HIDE DEF n
    <2> QED
      BY <1>1, <1>3, <2>1 DEF CacheTypeOK, SlabHeader
  <1>11. \A s \in Slabs : s # gc_buffer => data'[s] = data[s]
    BY <1>1, <1>2 DEF CacheTypeOK
  <1>12. ASSUME NEW g \in E
         PROVE  data'[gc_buffer][NewSlot(d, g)] = data[d][index_table[g].slot]
    <2>1. NewSlot(d, g) \in SlotIds
      BY <1>6, <1>7
    <2>2. data'[gc_buffer][NewSlot(d, g)] =
             data[d][index_table[CHOOSE h \in E : NewSlot(d, h) = NewSlot(d, g)].slot]
      BY <1>1, <1>2, <1>4, <2>1 DEF CacheTypeOK
    <2>3. (CHOOSE h \in E : NewSlot(d, h) = NewSlot(d, g)) = g
      BY <1>6
    <2> QED
      BY <2>2, <2>3
  <1>13. ASSUME NEW i \in SlotIds, i < a PROVE data'[gc_buffer][i] = data[gc_buffer][i]
    <2>1. i \in Int /\ ~\E g \in E : NewSlot(d, g) = i
      BY <1>5, <1>6, <1>13 DEF SlotIds
    <2> QED
      BY <1>1, <1>2, <1>4, <2>1 DEF CacheTypeOK
  <1>14. todo' = todo \ {d}
    BY <1>2
  <1>15. \A i \in a..(a + n - 1) : \E g \in E : index_table'[g].slot = i
    BY <1>6, <1>8
  <1>16. \A g \in E : index_table'[g].slot \in a..(a + n - 1)
    BY <1>6, <1>8
  <1>17. \A g \in E : data'[gc_buffer][index_table'[g].slot] = data[d][index_table[g].slot]
    BY <1>8, <1>12
  <1>18. MovedFrom(d)
    BY <1>8, <1>9, <1>10, <1>11, <1>13, <1>14, <1>15, <1>16, <1>17 DEF MovedFrom
  <1> QED
    BY <1>18

\* gc_dslabs copies the valid objects of a dslab to the buffer.
LEMMA MoveObjectsKeeps ==
  ASSUME Ownership, CacheTypeOK', Contents, GcStep, MoveObjects
  PROVE  Contents'
  <1>1. GcContents /\ GcTypeOK /\ CacheTypeOK /\ SlabsSound /\ GcHolding /\ DslabHands
    BY DEF Contents, Ownership, TypeOK, OneHand
  <1>2. PICK d \in todo : MovedFrom(d)
    BY MoveObjectsMoves
  <1>3. /\ gc_pc = "move" /\ gc_pc' = "move"
        /\ UNCHANGED <<free_list, to_drop, ops_slab, gc_class, mslab_free, dslab_free,
                       dslab_full, ops_pool>>
    BY DEF MoveObjects, batchVars, mslabVars, dslabVars
  <1>4. UNCHANGED putVars
    BY GcKeepsMslabs DEF Ownership
  <1> DEFINE E == EntriesOf(d)
             a == slab[gc_buffer].nr_alloc
             n == Cardinality(E)
             T == EntriesIn(todo)
             k == Cardinality(T)
  <1>5. /\ d \in free_list /\ d \in DSlabs /\ d \in GcSlabs /\ gc_buffer \in GcSlabs
        /\ d # gc_buffer /\ d # ops_slab /\ ops_slab # gc_buffer /\ ops_slab \in DSlabs
        /\ slab[d].cid = gc_class /\ slab[gc_buffer].cid = gc_class /\ gc_class \in Classes
        /\ slab[ops_slab] = ResetHeader /\ ops_slab \in dslab_full
        /\ PutBit(gc_buffer) = 0 /\ PutBit(d) = 0
    BY <1>3, BatchHasRoom
  <1>6. n \in Nat /\ a \in Nat /\ IsFiniteSet(E) /\ E \subseteq Digests
    BY <1>3, BatchHasRoom, DigestCount DEF EntriesOf
  <1>7. /\ T \subseteq Digests /\ E \subseteq T /\ IsFiniteSet(T) /\ k \in Nat /\ n <= k
        /\ k + a <= NrSlots(gc_class) /\ NrSlots(gc_class) \in Nat
    <2>1. T \subseteq Digests /\ E \subseteq T
      BY DEF EntriesIn, EntriesOf
    <2> QED
      BY <1>3, <2>1, BatchHasRoom, DigestCount
  <1>8. a + n <= NrSlots(gc_class)
    <2> HIDE DEF a, n, k
    <2> QED
      BY <1>6, <1>7
  <1>9. \A g \in E :
           /\ index_table'[g] # None /\ index_table'[g].slab = gc_buffer
           /\ index_table'[g].slot \in a..(a + n - 1)
           /\ data'[gc_buffer][index_table'[g].slot] = data[d][index_table[g].slot]
    BY <1>2 DEF MovedFrom
  <1>10. \A g \in Digests : g \notin E => index_table'[g] = index_table[g]
    BY <1>2 DEF MovedFrom
  <1>11. /\ slab'[gc_buffer].cid = gc_class /\ slab'[gc_buffer].nr_alloc = a + n
         /\ slab'[gc_buffer].nr_used = slab[gc_buffer].nr_used + n
         /\ slab'[d].nr_used = 0
         /\ slab'[d].cid = slab[d].cid /\ slab'[d].nr_alloc = slab[d].nr_alloc
         /\ \A s \in Slabs : s \notin {d, gc_buffer} => slab'[s] = slab[s]
    BY <1>2 DEF MovedFrom
  <1>12. \A s \in Slabs : s # gc_buffer => data'[s] = data[s]
    BY <1>2 DEF MovedFrom
  <1>13. \A i \in a..(a + n - 1) : \E g \in E : index_table'[g].slot = i
    BY <1>2 DEF MovedFrom
  <1>14. \A i \in SlotIds : i < a => data'[gc_buffer][i] = data[gc_buffer][i]
    BY <1>2 DEF MovedFrom
  <1>15. todo' = todo \ {d}
    BY <1>2 DEF MovedFrom
  <1> HIDE DEF E, a, n, k, T
  <1>16. EntriesSound'
    <2> SUFFICES ASSUME NEW g \in Digests, index_table'[g] # None
                 PROVE  /\ index_table'[g].slot < slab'[index_table'[g].slab].nr_alloc
                        /\ DigestOf[data'[index_table'[g].slab][index_table'[g].slot].key] = g
      BY DEF EntriesSound
    <2>1. CASE g \in E
      <3>1. index_table'[g].slot < a + n
        BY <1>6, <1>9, <2>1
      <3>2. DigestOf[data[d][index_table[g].slot].key] = g
        BY <1>1, <2>1 DEF E, EntriesOf, SlabsSound, EntriesSound
      <3> QED
        BY <1>9, <1>11, <2>1, <3>1, <3>2
    <2>2. CASE g \notin E
      <3>1. index_table'[g] = index_table[g]
        BY <1>10, <2>2
      <3>2. /\ index_table[g].slab \in Slabs /\ index_table[g].slot \in SlotIds
            /\ index_table[g].slot < slab[index_table[g].slab].nr_alloc
            /\ DigestOf[data[index_table[g].slab][index_table[g].slot].key] = g
        BY <1>1, <3>1, EntrySlot DEF SlabsSound, EntriesSound
      <3>3. CASE index_table[g].slab = gc_buffer
        <4>1. index_table[g].slot < a /\ index_table[g].slot \in Int
          BY <3>2, <3>3 DEF a, SlotIds
        <4>2. index_table[g].slot < a + n
          BY <1>6, <4>1
        <4> QED
          BY <1>11, <1>14, <3>1, <3>2, <3>3, <4>1, <4>2
      <3>4. CASE index_table[g].slab # gc_buffer
        <4>1. index_table[g].slab # d
          BY <2>2, <3>1 DEF E, EntriesOf
        <4> QED
          BY <1>11, <1>12, <3>1, <3>2, <3>4, <4>1
      <3> QED
        BY <3>3, <3>4
    <2> QED
      BY <2>1, <2>2
  <1>17. SlotsFilled'
    <2> SUFFICES ASSUME NEW s \in Slabs
                 PROVE  /\ slab'[s].nr_alloc <= NrSlots(slab'[s].cid)
                        /\ \A i \in SlotIds : i < slab'[s].nr_alloc =>
                              /\ data'[s][i] \in Slot
                              /\ KVSize[data'[s][i].key][data'[s][i].value]
                                    <= SlotSize[slab'[s].cid]
      BY DEF SlotsFilled
    <2>1. CASE s = gc_buffer
      <3> SUFFICES ASSUME NEW i \in SlotIds, i < a + n
                   PROVE  /\ data'[gc_buffer][i] \in Slot
                          /\ KVSize[data'[gc_buffer][i].key][data'[gc_buffer][i].value]
                                <= SlotSize[gc_class]
        BY <1>8, <1>11, <2>1
      <3>1. CASE i < a
        BY <1>1, <1>5, <1>14, <3>1 DEF a, SlabsSound, SlotsFilled
      <3>2. CASE ~(i < a)
        <4>1. i \in a..(a + n - 1)
          BY <1>6, <3>2 DEF SlotIds
        <4>2. PICK g \in E : index_table'[g].slot = i
          BY <1>13, <4>1
        <4>3. data'[gc_buffer][i] = data[d][index_table[g].slot]
          BY <1>9, <4>2
        <4>4. /\ index_table[g].slab = d /\ index_table[g].slot \in SlotIds
              /\ index_table[g].slot < slab[d].nr_alloc
          BY <1>1, <1>6, EntrySlot DEF E, EntriesOf, SlabsSound, EntriesSound
        <4> QED
          BY <1>1, <1>5, <4>3, <4>4 DEF SlabsSound, SlotsFilled
      <3> QED
        BY <3>1, <3>2
    <2>2. CASE s # gc_buffer
      <3>1. slab'[s].cid = slab[s].cid /\ slab'[s].nr_alloc = slab[s].nr_alloc
        BY <1>11, <2>2
      <3> QED
        BY <1>1, <1>12, <2>2, <3>1 DEF SlabsSound, SlotsFilled
    <2> QED
      BY <2>1, <2>2
  <1>18. NrUsedCoversEntries'
    <2> SUFFICES ASSUME NEW s \in Slabs
                 PROVE  slab'[s].nr_used >= Cardinality(EntriesOf(s)') + PutBit(s)'
      BY DEF NrUsedCoversEntries, PutBit
    <2>1. PutBit(s)' = PutBit(s)
      BY <1>4 DEF PutBit, putVars
    <2>2. slab[s].nr_used >= Cardinality(EntriesOf(s)) + PutBit(s)
      BY <1>1, NrUsedCovers DEF SlabsSound
    <2>3. ASSUME NEW g \in Digests
          PROVE  (index_table'[g] # None /\ index_table'[g].slab = s) <=>
                 \/ g \in E /\ s = gc_buffer
                 \/ g \notin E /\ index_table[g] # None /\ index_table[g].slab = s
      BY <1>9, <1>10
    <2>4. CASE s = gc_buffer
      <3> DEFINE B == EntriesOf(gc_buffer)
                 b == Cardinality(B)
      <3>1. /\ B \subseteq Digests /\ IsFiniteSet(B) /\ b \in Nat
        BY DigestCount DEF EntriesOf
      <3>2. EntriesOf(s)' = E \cup B /\ E \cap B = {}
        BY <1>5, <1>6, <2>3, <2>4 DEF EntriesOf, E
      <3>3. Cardinality(E \cup B) = n + b - Cardinality(E \cap B)
        BY <1>6, <3>1, FS_Union DEF n
      <3>4. Cardinality(EntriesOf(s)') = n + b
        <4> HIDE DEF b
        <4> QED
          BY <1>6, <3>1, <3>2, <3>3, FS_EmptySet
      <3>5. slab[gc_buffer].nr_used >= b /\ slab[gc_buffer].nr_used \in Int
        <4>1. slab[gc_buffer].nr_used >= b + 0
          BY <1>5, <2>2, <2>4
        <4> HIDE DEF b
        <4> QED
          BY <1>1, <3>1, <4>1 DEF CacheTypeOK, SlabHeader
      <3>6. PutBit(s)' = 0
        BY <1>5, <2>1, <2>4
      <3> HIDE DEF b
      <3> QED
        BY <1>6, <1>11, <2>4, <3>1, <3>4, <3>5, <3>6
    <2>5. CASE s = d
      <3>1. EntriesOf(s)' = {}
        BY <1>5, <2>3, <2>5 DEF EntriesOf, E
      <3>2. PutBit(s)' = 0
        BY <1>5, <2>1, <2>5
      <3> QED
        BY <1>11, <2>5, <3>1, <3>2, FS_EmptySet
    <2>6. CASE s \notin {d, gc_buffer}
      <3>1. EntriesOf(s)' = EntriesOf(s)
        BY <2>3, <2>6 DEF EntriesOf, E
      <3> QED
        BY <1>11, <2>1, <2>2, <2>6, <3>1
    <2> QED
      BY <2>4, <2>5, <2>6
  <1>19. BlankHeaders'
    <2>1. \A s \in mslab_free \cup dslab_free \cup ops_pool :
             s \in Slabs /\ s \notin {d, gc_buffer} /\ slab[s] = ResetHeader
      BY <1>1, <1>5, SlabsAssumption
      DEF CacheTypeOK, Contents, BlankHeaders, DslabHands, Disjoint, GcHolds
    <2> QED
      BY <1>3, <1>11, <2>1 DEF BlankHeaders
  <1>20. PutContents' /\ FlushContents'
    <2>1. NoNewEntries(Slabs \ GcSlabs)
      BY <1>5, <1>9, <1>10 DEF NoNewEntries
    <2>2. \A s \in Slabs : s \notin GcSlabs => slab'[s] = slab[s] /\ data'[s] = data[s]
      BY <1>5, <1>11, <1>12
    <2>3. \A g \in Digests : index_table[g] = None => index_table'[g] = None
      BY <1>10 DEF E, EntriesOf
    <2> QED
      BY <2>1, <2>2, <2>3, GcKeepsOthers
  <1>21. GcTarget'
    BY <1>3, <1>5, <1>11 DEF GcTarget
  <1>22. GcVisited'
    <2>1. Vacant(d)'
      BY <1>5, <1>9, <1>10 DEF Vacant, E, EntriesOf
    <2>2. ASSUME NEW x \in DSlabs, Vacant(x) PROVE Vacant(x)'
      BY <1>9, <1>10, <2>2, SlabsAssumption DEF Vacant
    <2>3. \A x \in free_list \ todo : x \in DSlabs /\ Vacant(x)
      BY <1>1 DEF GcContents, GcVisited, GcTypeOK
    <2>4. \A x \in free_list \ todo' : Vacant(x)'
      BY <1>15, <2>1, <2>2, <2>3
    <2> QED
      BY <1>1, <1>15, <1>3, <2>4 DEF GcContents, GcVisited, Vacant
  <1>23. GcBatch'
    <2>1. \A x \in todo' : slab'[x].cid = gc_class
      <3>1. \A x \in todo' : x \in Slabs /\ x \notin {d, gc_buffer} /\ slab[x].cid = gc_class
        BY <1>1, <1>15, <1>3, SlabsAssumption DEF GcContents, GcBatch, GcTypeOK
      <3> QED
        BY <1>11, <3>1
    <2>2. EntriesIn(todo)' = T \ E
      <3>1. ASSUME NEW g \in Digests
            PROVE  (index_table'[g] # None /\ index_table'[g].slab \in todo') <=> g \in T \ E
        <4>1. gc_buffer \notin todo
          BY <1>1, SlabsAssumption DEF GcTypeOK
        <4>2. CASE g \in E
          BY <1>15, <1>9, <4>1, <4>2
        <4>3. CASE g \notin E
          BY <1>15, <1>10, <4>3 DEF T, E, EntriesIn, EntriesOf
        <4> QED
          BY <4>2, <4>3
      <3> QED
        BY <3>1, <1>7 DEF EntriesIn
    <2>3. Cardinality(T \ E) = k - n
      <3>1. T \cap E = E
        BY <1>7
      <3>2. Cardinality(T \ E) = k - Cardinality(T \cap E)
        BY <1>6, <1>7, FS_Difference DEF k
      <3> QED
        BY <3>1, <3>2 DEF n
    <2>4. (k - n) + (a + n) <= NrSlots(gc_class)
      BY <1>6, <1>7
    <2>5. gc_class < NrSlabClass
      BY <1>1, <1>3 DEF GcContents, GcBatch
    <2> QED
      BY <1>3, <1>11, <2>1, <2>2, <2>3, <2>4, <2>5 DEF GcBatch
  <1> QED
    BY <1>16, <1>17, <1>18, <1>19, <1>20, <1>21, <1>22, <1>23
    DEF Contents, SlabsSound, GcContents

\* Every step of the collector.
LEMMA GcStepContents ==
  ASSUME Ownership, CacheTypeOK', Contents, GcStep
  PROVE  Contents'
  <1>1. GcNext
    BY DEF GcStep
  <1> QED
    BY <1>1, GcChoosesKeep, AddToBatchKeeps, GcReclaims, EvictKeeps, TakeOpsKeeps, BufferKeeps,
       MoveObjectsKeeps
    DEF GcNext, QuickGcNext, NormalGcNext

-----------------------------------------------------------------------------
(* The invariant, and what the runs check of it.                           *)

\* The constructor's state.
LEMMA InitContents == Init => Contents
  <1> SUFFICES ASSUME Init PROVE Contents
    OBVIOUS
  <1> USE DEF Init, CacheInit, ClientInit, FlushInit, GcInit
  <1>1. \A g \in Digests : index_table[g] = None
    OBVIOUS
  <1>2. ops_pool \subseteq DSlabs /\ dslab_free \subseteq DSlabs /\ mslab_free = MSlabs
    OBVIOUS
  <1>3. \A s \in Slabs : slab[s] = ResetHeader
    OBVIOUS
  <1>4. \A s : Vacant(s)
    BY <1>1 DEF Vacant
  <1>5. EntriesSound
    BY <1>1 DEF EntriesSound
  <1>6. SlotsFilled
    BY <1>3 DEF SlotsFilled, ResetHeader, NrSlots, SlotIds
  <1>7. NrUsedCoversEntries
    <2> SUFFICES ASSUME NEW s \in Slabs
                 PROVE  slab[s].nr_used >= Cardinality(EntriesOf(s)) + PutBit(s)
      BY NrUsedCovers
    <2>1. Cardinality(EntriesOf(s)) = 0 /\ PutBit(s) = 0
      BY <1>4, VacantCount DEF PutBit
    <2>2. slab[s].nr_used = 0
      BY <1>3 DEF ResetHeader
    <2> QED
      BY <2>1, <2>2
  <1>8. BlankHeaders
    BY <1>2, <1>3 DEF BlankHeaders
  <1>9. PutContents
    BY DEF PutContents
  <1>10. FlushContents
    BY DEF FlushContents
  <1>11. GcContents
    BY <1>4 DEF GcContents, GcTarget, GcVisited, GcBatch
  <1> QED
    BY <1>5, <1>6, <1>7, <1>8, <1>9, <1>10, <1>11 DEF Contents, SlabsSound

\* Every step, on top of Ownership.
LEMMA NextContents == Ownership /\ Contents /\ [Next]_vars => Contents'
  <1> SUFFICES ASSUME Ownership, Contents, [Next]_vars PROVE Contents'
    OBVIOUS
  <1>1. CacheTypeOK'
    <2>1. Ownership'
      BY NextOwnership
    <2> QED
      BY <2>1 DEF Ownership, TypeOK
  <1>2. CASE ClientStep
    BY <1>1, <1>2, ClientContents
  <1>3. CASE FlushStep
    BY <1>1, <1>3, FlushStepContents
  <1>4. CASE GcStep
    BY <1>1, <1>4, GcStepContents
  <1>5. ASSUME UNCHANGED <<slab, data, index_table, mslabVars, dslabVars,
                           clientVars, flushVars, gcVars>>
        PROVE  Contents'
    <2> USE DEF mslabVars, dslabVars, clientVars, putVars, flushVars, gcVars, batchVars
    <2>1. SlabsSound'
      <3>1. \A s \in Slabs : PutBit(s)' = PutBit(s)
        BY <1>5 DEF PutBit
      <3> QED
        BY <1>5, <3>1, SoundFrame DEF Contents
    <2>2. BlankHeaders'
      BY <1>5 DEF Contents, BlankHeaders
    <2>3. PutContents'
      BY <1>5 DEF Contents, PutContents, PutDigest
    <2>4. FlushContents'
      BY <1>5 DEF Contents, FlushContents, Vacant, Copied
    <2>5. GcContents'
      BY <1>5 DEF Contents, GcContents, GcTarget, GcVisited, GcBatch, Vacant, Copied, EntriesIn
    <2> QED
      BY <2>1, <2>2, <2>3, <2>4, <2>5 DEF Contents
  <1>6. CASE DestroyStep
    BY <1>5, <1>6 DEF DestroyStep, BeginShutdown, JoinThreads
  <1>7. CASE UNCHANGED vars
    BY <1>5, <1>7 DEF vars, cacheVars
  <1> QED
    BY <1>2, <1>3, <1>4, <1>6, <1>7 DEF Next

(***************************************************************************)
(* In every reachable state the index, the headers and the data of the     *)
(* slabs agree, whatever the clients, the flush thread and the collector   *)
(* are in the middle of.                                                   *)
(***************************************************************************)
THEOREM ContentsInvariant == Spec => [](Ownership /\ Contents)
  <1>1. Init => Contents
    BY InitContents
  <1>2. Ownership /\ Contents /\ [Next]_vars => Contents'
    BY NextContents
  <1> QED
    BY <1>1, <1>2, OwnershipInvariant, PTL DEF Spec

(***************************************************************************)
(* An index entry always names an allocated slot that holds its key, in a  *)
(* slab that nobody may hand out: the assertion in get_slice holds, and    *)
(* Get, flush and GC may read the slot without further check.              *)
(***************************************************************************)
THEOREM IndexSoundInvariant == Spec => []IndexSound
  <1>1. Ownership /\ Contents => IndexSound
    <2> SUFFICES ASSUME Ownership, Contents, NEW g \in Digests, index_table[g] # None
                 PROVE  LET e == index_table[g] IN
                        /\ e.slot \in SlotIds /\ e.slot < slab[e.slab].nr_alloc
                        /\ data[e.slab][e.slot] # None
                        /\ DigestOf[data[e.slab][e.slot].key] = g
                        /\ e.slab \notin mslab_free \cup dslab_free \cup ops_pool
                        /\ flush_pc \in {"pick", "wait_gc", "write"} => e.slab # flush_dslab
                        /\ gc_pc = "move" => e.slab # ops_slab
      BY DEF IndexSound
    <2> DEFINE e == index_table[g]
    <2>1. CacheTypeOK /\ EntriesSound /\ SlotsFilled
      BY DEF Ownership, TypeOK, Contents, SlabsSound
    <2>2. e.slab \in Slabs /\ e.slot \in SlotIds /\ data[e.slab][e.slot] \in Slot
      BY <2>1, EntrySlot
    <2>3. slab[e.slab] # ResetHeader
      BY <2>1, <2>2, BlankIsVacant DEF Vacant
    <2>4. e.slot < slab[e.slab].nr_alloc /\ DigestOf[data[e.slab][e.slot].key] = g
      BY <2>1 DEF EntriesSound
    <2>5. e.slab \notin mslab_free \cup dslab_free \cup ops_pool
      BY <2>3 DEF Contents, BlankHeaders
    <2>6. flush_pc \in {"pick", "wait_gc", "write"} => e.slab # flush_dslab
      BY <2>2, <2>3, NoneAssumption DEF Contents, FlushContents
    <2>7. gc_pc = "move" => e.slab # ops_slab
      BY <2>3 DEF Contents, GcContents, GcTarget
    <2> QED
      BY <2>2, <2>4, <2>5, <2>6, <2>7, NoneAssumption
  <1> QED
    BY <1>1, ContentsInvariant, PTL

(***************************************************************************)
(* The count of valid objects of a slab never falls below the entries that *)
(* name it: the decrements of Put and Delete never make it negative, and a *)
(* GC batch sized by it has room for all it moves.                         *)
(***************************************************************************)
THEOREM NrUsedInvariant == Spec => []NrUsedCoversEntries
  <1>1. Ownership /\ Contents => NrUsedCoversEntries
    BY DEF Contents, SlabsSound
  <1> QED
    BY <1>1, ContentsInvariant, PTL

(***************************************************************************)
(* slot_alloc never runs past the end of a slab, in client slabs, in the   *)
(* collector's buffer, or in the image on the SSD.                         *)
(***************************************************************************)
THEOREM NoSlabOverrunInvariant == Spec => []NoSlabOverrun
  <1>1. Ownership /\ Contents => NoSlabOverrun
    BY DEF Contents, SlabsSound, SlotsFilled, NoSlabOverrun
  <1> QED
    BY <1>1, ContentsInvariant, PTL

(***************************************************************************)
(* Every object lies within its slot, wherever flushing and collection     *)
(* have moved it: Slot::Write never writes past the slot.                  *)
(***************************************************************************)
THEOREM ObjectsFitSlotsInvariant == Spec => []ObjectsFitSlots
  <1>1. Ownership /\ Contents => ObjectsFitSlots
    BY DEF Contents, SlabsSound, SlotsFilled, ObjectsFitSlots
  <1> QED
    BY <1>1, ContentsInvariant, PTL

=============================================================================
