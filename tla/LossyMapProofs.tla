--------------------------- MODULE LossyMapProofs ---------------------------
(***************************************************************************)
(* What clients see of the cache, for every value of the constants: a slot *)
(* that an entry names is not written, flushing and normal GC leave every  *)
(* key its value, and the cache implements LossyMap.                       *)
(***************************************************************************)
EXTENDS ContentsProofs

\* The object the entry of a digest names.
Object(g) == IF index_table[g] = None THEN None
             ELSE data[index_table[g].slab][index_table[g].slot]

\* The value a Get of k makes of it.
Seen(o, k) == IF o # None /\ o.key = k THEN o.value ELSE None

\* A Get sees what the entry of the key's digest names, if it is the key's.
LEMMA MapOfObjects ==
  /\ AbstractMap = [k \in Keys |-> Seen(Object(DigestOf[k]), k)]
  /\ AbstractMap' = [k \in Keys |-> Seen(Object(DigestOf[k])', k)]
  <1>1. ASSUME NEW k \in Keys
        PROVE  (IF Lookup(k) = None THEN None ELSE Lookup(k).value) = Seen(Object(DigestOf[k]), k)
    BY DEF Lookup, Seen, Object
  <1>2. ASSUME NEW k \in Keys
        PROVE  (IF Lookup(k) = None THEN None ELSE Lookup(k).value)'
                   = Seen(Object(DigestOf[k])', k)
    BY DEF Lookup, Seen, Object
  <1> QED
    BY <1>1, <1>2 DEF AbstractMap

\* Steps under which the entries keep naming the same objects.
LEMMA SameObjects ==
  ASSUME \A g \in Digests : Object(g)' = Object(g)
  PROVE  AbstractMap' = AbstractMap
  <1>1. \A k \in Keys : DigestOf[k] \in Digests
    BY ConstantsAssumption
  <1>2. \A k \in Keys : Seen(Object(DigestOf[k])', k) = Seen(Object(DigestOf[k]), k)
    BY <1>1
  <1> QED
    BY <1>2, MapOfObjects

-----------------------------------------------------------------------------
(* Only four steps write slots.                                            *)

\* What the clients write of the memory of the slabs.
LEMMA ClientWrites ==
  ASSUME ClientStep
  PROVE  slot_alloc \/ data' = data
  <1> USE DEF cacheVars
  <1>1. CASE \E kv \in Slot : Put(kv)
    BY <1>1 DEF Put
  <1>2. CASE PutStep
    BY <1>2 DEF PutStep, TakeFreeMslab, NoFreeMslab, FlushFinished, UpdateIndexEntry,
                InsertIndexEntry, NoFreeIndexEntry, FinishPut
  <1>3. CASE \E k \in Keys : Delete(k)
    BY <1>3 DEF Delete
  <1>4. CASE \/ \E r \in Readers, k \in Keys : GetSlice(r, k)
             \/ \E r \in Readers : CopySlice(r) \/ GetReturn(r)
    BY <1>4 DEF GetSlice, CopySlice, GetReturn
  <1> QED
    BY <1>1, <1>2, <1>3, <1>4 DEF ClientStep, ClientNext

\* What the flush thread writes of the memory of the slabs.
LEMMA FlushWrites ==
  ASSUME FlushStep
  PROVE  /\ WriteDslab \/ data' = data
         /\ MoveIndexToDslab \/ index_table' = index_table
  BY DEF FlushStep, FlushNext, FlushExit, TakeFullMslab, PickFreeDslab, NoFreeDslab, GcFinished,
         WriteDslab, RecycleMslab, PublishDslab, MoveIndexToDslab, cacheVars

\* What the collector writes of the memory of the slabs.
LEMMA GcWrites ==
  ASSUME GcStep
  PROVE  /\ MoveObjects \/ WriteGcBuffer \/ data' = data
         /\ \/ evict_dslab \/ MoveObjects \/ MoveIndexToOpsDslab
            \/ index_table' = index_table
  <1> USE DEF cacheVars
  <1>1. CASE \/ GcExit \/ GcWakes \/ ChooseDropOne \/ ChooseQuickGc \/ ChooseNormalGc
             \/ ReclaimToFree
    BY <1>1 DEF GcExit, GcWakes, ChooseDropOne, ChooseQuickGc, ChooseNormalGc, ReclaimToFree
  <1>2. CASE QuickGcNext
    BY <1>2 DEF QuickGcNext, quick_gc, SelectDslab, SelectionDone, evict_dslab, ReclaimToOps
  <1>3. CASE NormalGcNext
    BY <1>3 DEF NormalGcNext, CollectChannel, DrainQueue, AddToBatch, BatchEnds, TakeOpsDslab,
                WriteGcBuffer, MoveIndexToOpsDslab, TuneMarks, RefillOps, RefillDone, ShrinkOps
  <1> QED
    BY <1>1, <1>2, <1>3 DEF GcStep, GcNext

\* And none of them writes a slot that an entry names.
LEMMA NamedSlotsKept ==
  ASSUME Ownership, Contents, [Next]_vars, NEW g \in Digests, index_table[g] # None
  PROVE  data'[index_table[g].slab][index_table[g].slot] =
             data[index_table[g].slab][index_table[g].slot]
  <1> DEFINE e == index_table[g]
  <1>1. CacheTypeOK /\ FlushTypeOK /\ FlushHolding /\ SlabsSound /\ GcContents
    BY DEF Ownership, TypeOK, Contents
  <1>2. e.slab \in Slabs /\ e.slot \in SlotIds /\ e.slot < slab[e.slab].nr_alloc
    BY <1>1, EntrySlot DEF SlabsSound, EntriesSound
  <1>3. slab[e.slab] # ResetHeader
    BY <1>1, <1>2, BlankIsVacant DEF Vacant, SlabsSound
  <1>4. CASE slot_alloc
    <2>1. PICK c \in get_slab_class(put_arg) : \E m \in slab_partial[c] :
             data' = [data EXCEPT ![m][slab[m].nr_alloc] = put_arg]
      BY <1>4 DEF slot_alloc
    <2>2. PICK m \in slab_partial[c] : data' = [data EXCEPT ![m][slab[m].nr_alloc] = put_arg]
      BY <2>1
    <2>3. ~(e.slab = m /\ e.slot = slab[m].nr_alloc)
      BY <1>1, <1>2 DEF SlotIds, CacheTypeOK, SlabHeader
    <2> QED
      BY <1>1, <1>2, <2>2, <2>3 DEF CacheTypeOK
  <1>5. CASE WriteDslab
    <2>1. /\ data' = [data EXCEPT ![flush_dslab] = data[flush_mslab]]
          /\ slab[flush_dslab] = ResetHeader
      BY <1>5 DEF WriteDslab, flush_mslab_to_dslab, Contents, FlushContents
    <2> QED
      BY <1>1, <1>2, <1>3, <2>1 DEF CacheTypeOK
  <1>6. CASE WriteGcBuffer
    <2>1. /\ data' = [data EXCEPT ![ops_slab] = data[gc_buffer]]
          /\ slab[ops_slab] = ResetHeader
      BY <1>1, <1>6 DEF WriteGcBuffer, flush_mslab_to_dslab, GcContents, GcTarget
    <2> QED
      BY <1>1, <1>2, <1>3, <2>1 DEF CacheTypeOK
  <1>7. CASE MoveObjects
    <2>1. PICK d \in todo : MovedFrom(d)
      BY <1>7, MoveObjectsMoves
    <2>2. /\ \A i \in SlotIds : i < slab[gc_buffer].nr_alloc =>
                data'[gc_buffer][i] = data[gc_buffer][i]
          /\ \A s \in Slabs : s # gc_buffer => data'[s] = data[s]
      BY <2>1 DEF MovedFrom
    <2> QED
      BY <1>2, <2>2
  <1>8. CASE data' = data
    BY <1>8
  <1>9. CASE DestroyStep
    BY <1>8, <1>9 DEF DestroyStep, BeginShutdown, JoinThreads
  <1>10. CASE UNCHANGED vars
    BY <1>8, <1>10 DEF vars, cacheVars
  <1> QED
    BY <1>4, <1>5, <1>6, <1>7, <1>8, <1>9, <1>10, ClientWrites, FlushWrites, GcWrites DEF Next

(***************************************************************************)
(* A slot that an index entry names is not written, by any thread: a Get   *)
(* that holds index_mutex_ reads the object the index promised it.         *)
(***************************************************************************)
THEOREM IndexedSlotsNeverWritten == Spec => IndexedSlotsImmutable
  <1>1. Ownership /\ Contents /\ [Next]_vars =>
          [\A g \in Digests :
             (index_table[g] # None /\ index_table'[g] = index_table[g]) =>
                LET e == index_table[g] IN data'[e.slab][e.slot] = data[e.slab][e.slot]]_vars
    BY NamedSlotsKept
  <1> QED
    BY <1>1, ContentsInvariant, PTL DEF Spec, IndexedSlotsImmutable

-----------------------------------------------------------------------------
(* Flushing and normal GC.                                                 *)

\* An entry that stays where it is keeps its object.
LEMMA EntryStays ==
  ASSUME Ownership, Contents, [Next]_vars, NEW g \in Digests, index_table'[g] = index_table[g]
  PROVE  Object(g)' = Object(g)
  BY NamedSlotsKept DEF Object

\* modify_index_to moves entries between a slab and its image.
LEMMA ImageHasSameObjects ==
  ASSUME CacheTypeOK, NEW src \in Slabs, NEW dst \in Slabs, modify_index_to(src, dst),
         data[dst] = data[src], data' = data, NEW g \in Digests
  PROVE  Object(g)' = Object(g)
  <1>1. CASE g \in LiveDigests(src)
    <2>1. index_table[g] # None /\ index_table[g].slab = src /\ index_table[g] \in IndexEntry
      BY <1>1 DEF LiveDigests, CacheTypeOK
    <2>2. index_table'[g] = [slab |-> dst, slot |-> index_table[g].slot]
      BY <1>1, <2>1 DEF modify_index_to, IndexEntry
    <2>3. index_table'[g] \in IndexEntry
      BY <2>1, <2>2 DEF IndexEntry
    <2>4. index_table'[g] # None
      BY <2>3, NoneAssumption
    <2> QED
      BY <2>1, <2>2, <2>4 DEF Object
  <1>2. CASE g \notin LiveDigests(src)
    <2>1. index_table'[g] = index_table[g]
      BY <1>2 DEF modify_index_to
    <2> QED
      BY <2>1 DEF Object
  <1> QED
    BY <1>1, <1>2

\* The flush thread.
LEMMA FlushKeepsObjects ==
  ASSUME Ownership, Contents, [Next]_vars, FlushStep
  PROVE  \A g \in Digests : Object(g)' = Object(g)
  <1> SUFFICES ASSUME NEW g \in Digests PROVE Object(g)' = Object(g)
    OBVIOUS
  <1>1. CASE index_table' = index_table
    BY <1>1, EntryStays
  <1>2. CASE MoveIndexToDslab
    <2>1. modify_index_to(flush_mslab, flush_dslab) /\ data' = data /\ flush_pc = "index"
      BY <1>2 DEF MoveIndexToDslab
    <2>2. flush_mslab \in Slabs /\ flush_dslab \in Slabs
      BY <2>1 DEF Ownership, FlushHolding, TypeOK, FlushTypeOK, Slabs, MemSlabs
    <2>3. CacheTypeOK /\ data[flush_dslab] = data[flush_mslab]
      BY <2>1 DEF Contents, FlushContents, Copied, Ownership, TypeOK
    <2> QED
      BY <2>1, <2>2, <2>3, ImageHasSameObjects
  <1> QED
    BY <1>1, <1>2, FlushWrites

\* The collector, outside evict_dslab.
LEMMA GcKeepsObjects ==
  ASSUME Ownership, Contents, [Next]_vars, GcStep, gc_pc # "evict"
  PROVE  \A g \in Digests : Object(g)' = Object(g)
  <1> SUFFICES ASSUME NEW g \in Digests PROVE Object(g)' = Object(g)
    OBVIOUS
  <1>1. CASE index_table' = index_table
    BY <1>1, EntryStays
  <1>2. CASE MoveIndexToOpsDslab
    <2>1. modify_index_to(gc_buffer, ops_slab) /\ data' = data /\ gc_pc = "index"
      BY <1>2 DEF MoveIndexToOpsDslab
    <2>2. /\ CacheTypeOK /\ data[ops_slab] = data[gc_buffer]
          /\ gc_buffer \in Slabs /\ ops_slab \in Slabs
      BY <2>1 DEF Contents, GcContents, GcTarget, Copied, Ownership, TypeOK, CacheTypeOK,
             Slabs, MemSlabs
    <2> QED
      BY <2>1, <2>2, ImageHasSameObjects
  <1>3. CASE MoveObjects
    <2>1. PICK d \in todo : MovedFrom(d)
      BY <1>3, MoveObjectsMoves
    <2>2. CASE g \in EntriesOf(d)
      <3>1. /\ index_table'[g] # None /\ index_table'[g].slab = gc_buffer
            /\ data'[gc_buffer][index_table'[g].slot] = data[d][index_table[g].slot]
        BY <2>1, <2>2 DEF MovedFrom
      <3> QED
        BY <2>2, <3>1 DEF Object, EntriesOf
    <2>3. CASE g \notin EntriesOf(d)
      <3>1. index_table'[g] = index_table[g]
        BY <2>1, <2>3 DEF MovedFrom
      <3> QED
        BY <3>1, EntryStays
    <2> QED
      BY <2>2, <2>3
  <1>4. ~evict_dslab
    BY DEF evict_dslab
  <1> QED
    BY <1>1, <1>2, <1>3, <1>4, GcWrites

(***************************************************************************)
(* Neither a flush nor a normal GC round loses an object, at any step and  *)
(* whatever the other threads do in between: every key keeps its value.    *)
(***************************************************************************)
THEOREM MovesKeepEveryObject == Spec => MovesKeepObjects
  <1>1. Ownership /\ Contents /\ [Next]_vars =>
          [(FlushStep \/ (GcStep /\ gc_pc # "evict")) => AbstractMap' = AbstractMap]_vars
    BY FlushKeepsObjects, GcKeepsObjects, SameObjects
  <1> QED
    BY <1>1, ContentsInvariant, PTL DEF Spec, MovesKeepObjects

-----------------------------------------------------------------------------
(* The refinement of LossyMap.                                             *)

\* The constructor's state is an empty map.
LEMMA InitImplements == Init => LM!Init
  <1> SUFFICES ASSUME Init PROVE LM!Init
    OBVIOUS
  <1> USE DEF Init, CacheInit, ClientInit
  <1>1. \A k \in Keys : Seen(Object(DigestOf[k]), k) = None
    BY ConstantsAssumption DEF Seen, Object
  <1>2. AbstractMap = [k \in Keys |-> None]
    BY <1>1, MapOfObjects
  <1>3. AbstractPending = None /\ shutdown = FALSE
    BY DEF AbstractPending, shutdown
  <1> QED
    BY <1>2, <1>3 DEF LM!Init

\* A step that clients cannot tell.
Unseen == UNCHANGED <<AbstractMap, AbstractPending, shutdown>>

\* Put takes effect: other keys with its digest are pushed out.
LEMMA PutCommits ==
  ASSUME Ownership, Contents, put_pc \in {"index", "wait_index"}, put_pc' = "finish",
         index_table' = [index_table EXCEPT ![PutDigest] = put_slot], data' = data,
         UNCHANGED destroyer
  PROVE  LM!Commit
  <1>1. CacheTypeOK /\ ClientTypeOK /\ PutHolding
    BY DEF Ownership, TypeOK
  <1>2. put_arg \in Slot /\ put_arg.key \in Keys /\ put_arg.value \in Values /\ put_arg # None
    BY NoneAssumption DEF Contents, PutContents, Slot
  <1>3. PutDigest \in Digests
    BY <1>2, ConstantsAssumption DEF PutDigest
  <1>4. data[put_slot.slab][put_slot.slot] = put_arg
    BY DEF Contents, PutContents
  <1>5. put_slot # None
    BY <1>1 DEF PutHolding, PutHasSlot
  <1>6. ASSUME NEW g \in Digests, g # PutDigest PROVE Object(g)' = Object(g)
    <2>1. index_table'[g] = index_table[g]
      BY <1>1, <1>6 DEF CacheTypeOK
    <2> QED
      BY <2>1 DEF Object
  <1> DEFINE K == {k \in Keys \ {put_arg.key} : DigestOf[k] = PutDigest}
             F == LM!Forget(AbstractMap, K)
  <1>7. AbstractMap' = [F EXCEPT ![put_arg.key] = put_arg.value]
    <2>1. F \in [Keys -> {F[k] : k \in Keys}]
      BY DEF LM!Forget
    <2> SUFFICES ASSUME NEW k \in Keys
                 PROVE  AbstractMap'[k] = IF k = put_arg.key THEN put_arg.value ELSE F[k]
      BY <2>1, MapOfObjects
    <2>2. DigestOf[k] \in Digests
      BY ConstantsAssumption
    <2>3. AbstractMap'[k] = Seen(Object(DigestOf[k])', k)
          /\ AbstractMap[k] = Seen(Object(DigestOf[k]), k)
      BY MapOfObjects
    <2>4. F[k] = IF k \in K THEN None ELSE AbstractMap[k]
      BY DEF LM!Forget
    <2>5. CASE DigestOf[k] = PutDigest
      <3>1. Object(DigestOf[k])' = put_arg
        <4>1. \A g \in Digests : index_table'[g] = put_slot => Object(g)' = put_arg
          BY <1>4, <1>5 DEF Object
        <4>2. index_table'[DigestOf[k]] = put_slot
          BY <1>1, <2>2, <2>5 DEF CacheTypeOK
        <4> QED
          BY <2>2, <4>1, <4>2
      <3> QED
        BY <1>2, <2>3, <2>4, <2>5, <3>1 DEF Seen
    <2>6. CASE DigestOf[k] # PutDigest
      <3>1. Object(DigestOf[k])' = Object(DigestOf[k]) /\ k # put_arg.key
        BY <1>6, <2>2, <2>6 DEF PutDigest
      <3> QED
        BY <2>3, <2>4, <2>6, <3>1
    <2> QED
      BY <2>5, <2>6
  <1>8. AbstractPending = put_arg /\ AbstractPending' = None /\ shutdown' = shutdown
    BY DEF AbstractPending, shutdown
  <1>9. K \in SUBSET (Keys \ {put_arg.key})
    OBVIOUS
  <1> QED
    BY <1>2, <1>7, <1>8, <1>9 DEF LM!Commit

\* Entries that are deleted are keys that are lost.
LEMMA EntriesLost ==
  ASSUME \A g \in Digests : Object(g)' = Object(g) \/ index_table'[g] = None,
         UNCHANGED <<AbstractPending, shutdown>>
  PROVE  LM!Lose
  <1> DEFINE K == {k \in Keys : index_table'[DigestOf[k]] = None}
             F == LM!Forget(AbstractMap, K)
  <1>1. ASSUME NEW k \in Keys PROVE AbstractMap'[k] = F[k]
    <2>1. DigestOf[k] \in Digests
      BY ConstantsAssumption
    <2>2. AbstractMap'[k] = Seen(Object(DigestOf[k])', k)
          /\ AbstractMap[k] = Seen(Object(DigestOf[k]), k)
      BY MapOfObjects
    <2>3. F[k] = IF k \in K THEN None ELSE AbstractMap[k]
      BY DEF LM!Forget
    <2>4. CASE k \in K
      <3>1. Object(DigestOf[k])' = None
        BY <2>4 DEF Object
      <3> QED
        BY <2>2, <2>3, <2>4, <3>1 DEF Seen
    <2>5. CASE k \notin K
      BY <2>1, <2>2, <2>3, <2>5
    <2> QED
      BY <2>4, <2>5
  <1>2. AbstractMap' = F
    BY <1>1, MapOfObjects DEF LM!Forget
  <1> QED
    BY <1>2 DEF LM!Lose

\* Steps of the clients.
LEMMA ClientImplements ==
  ASSUME Ownership, Contents, [Next]_vars, ClientStep
  PROVE  LM!Next \/ Unseen
  <1> USE DEF cacheVars
  <1>1. ClientNext
    BY DEF ClientStep
  <1>2. put_pc # "idle" => put_arg \in Slot /\ put_arg # None
    BY NoneAssumption DEF Contents, PutContents
  <1>3. ASSUME index_table' = index_table PROVE AbstractMap' = AbstractMap
    BY <1>3, EntryStays, SameObjects
  <1>4. ASSUME NEW kv \in Slot, Put(kv) PROVE LM!Next \/ Unseen
    <2>1. index_table' = index_table /\ destroyer' = destroyer /\ put_pc = "idle"
      BY <1>4 DEF Put
    <2>2. CASE get_slab_class(kv) = {}
      BY <1>3, <1>4, <2>1, <2>2 DEF Put, Unseen, AbstractPending, shutdown
    <2>3. CASE get_slab_class(kv) # {}
      <3>1. AbstractPending = None /\ AbstractPending' = kv
        BY <1>4, <2>1, <2>3 DEF Put, AbstractPending
      <3>2. LM!Call(kv)
        BY <1>3, <2>1, <3>1 DEF LM!Call, shutdown
      <3> QED
        BY <3>2 DEF LM!Next, Slot
    <2> QED
      BY <2>2, <2>3
  <1>5. CASE slot_alloc \/ TakeFreeMslab \/ NoFreeMslab \/ NoFreeIndexEntry \/ FinishPut
    <2>1. index_table' = index_table /\ destroyer' = destroyer
      BY <1>5 DEF slot_alloc, TakeFreeMslab, NoFreeMslab, NoFreeIndexEntry, FinishPut
    <2>2. AbstractPending' = AbstractPending
      BY <1>5 DEF slot_alloc, TakeFreeMslab, NoFreeMslab, NoFreeIndexEntry, FinishPut,
                  AbstractPending, clientVars, putVars
    <2> QED
      BY <1>3, <2>1, <2>2 DEF Unseen, shutdown
  <1>6. CASE FlushFinished
    <2>1. index_table' = index_table /\ destroyer' = destroyer /\ put_pc = "wait_flush"
      BY <1>6 DEF FlushFinished
    <2>2. AbstractPending = put_arg /\ put_arg # None
      BY <1>2, <2>1 DEF AbstractPending
    <2>3. CASE shutdown /\ put_pc' = "idle"
      <3>1. AbstractPending' = None
        BY <2>3 DEF AbstractPending
      <3>2. LM!Fail
        BY <1>3, <2>1, <2>2, <2>3, <3>1 DEF LM!Fail, shutdown
      <3> QED
        BY <3>2 DEF LM!Next
    <2>4. CASE put_pc' = "alloc" /\ put_arg' = put_arg
      BY <1>3, <2>1, <2>2, <2>4 DEF Unseen, AbstractPending, shutdown
    <2> QED
      BY <1>6, <2>3, <2>4 DEF FlushFinished
  <1>7. CASE UpdateIndexEntry \/ InsertIndexEntry
    <2>1. /\ put_pc \in {"index", "wait_index"} /\ put_pc' = "finish"
          /\ index_table' = [index_table EXCEPT ![PutDigest] = put_slot]
          /\ data' = data /\ UNCHANGED destroyer
      BY <1>7 DEF UpdateIndexEntry, InsertIndexEntry
    <2>2. LM!Commit
      BY <2>1, PutCommits
    <2> QED
      BY <2>2 DEF LM!Next
  <1>8. ASSUME NEW k \in Keys, Delete(k) PROVE LM!Next
    <2>1. /\ index_table' = [index_table EXCEPT ![DigestOf[k]] = None]
          /\ UNCHANGED <<putVars, data, destroyer>>
      BY <1>8 DEF Delete
    <2>2. ASSUME NEW g \in Digests PROVE Object(g)' = Object(g) \/ index_table'[g] = None
      <3>1. index_table'[g] = index_table[g] \/ index_table'[g] = None
        BY <2>1 DEF Ownership, TypeOK, CacheTypeOK
      <3> QED
        BY <3>1, EntryStays
    <2>3. UNCHANGED <<AbstractPending, shutdown>>
      BY <2>1 DEF AbstractPending, shutdown, putVars
    <2>4. LM!Lose
      BY <2>2, <2>3, EntriesLost
    <2> QED
      BY <2>4 DEF LM!Next
  <1>9. CASE \/ \E r \in Readers, k \in Keys : GetSlice(r, k)
             \/ \E r \in Readers : CopySlice(r) \/ GetReturn(r)
    <2>1. UNCHANGED <<putVars, index_table, destroyer>>
      BY <1>9 DEF GetSlice, CopySlice, GetReturn
    <2> QED
      BY <1>3, <2>1 DEF Unseen, AbstractPending, shutdown, putVars
  <1> QED
    BY <1>1, <1>4, <1>5, <1>6, <1>7, <1>8, <1>9 DEF ClientNext, PutStep

\* Every step is a step of the map, or unseen.
LEMMA NextImplements == Ownership /\ Contents /\ [Next]_vars => [LM!Next]_(LM!vars)
  <1> SUFFICES ASSUME Ownership, Contents, [Next]_vars PROVE LM!Next \/ Unseen
    BY DEF Unseen, LM!vars
  <1>1. CASE ClientStep
    BY <1>1, ClientImplements
  <1>2. ASSUME FlushStep \/ GcStep PROVE UNCHANGED <<AbstractPending, shutdown>>
    <2>1. UNCHANGED putVars
      BY <1>2 DEF FlushStep, GcStep, clientVars
    <2>2. CASE FlushStep
      <3>1. UNCHANGED destroyer
        BY <2>2 DEF FlushStep, FlushNext, FlushExit, TakeFullMslab, PickFreeDslab, NoFreeDslab,
                    GcFinished, WriteDslab, MoveIndexToDslab, RecycleMslab, PublishDslab, cacheVars
      <3> QED
        BY <2>1, <3>1 DEF AbstractPending, shutdown, putVars
    <2>3. CASE GcStep
      <3>1. UNCHANGED destroyer
        <4> USE DEF cacheVars
        <4>1. CASE \/ GcExit \/ GcWakes \/ ChooseDropOne \/ ChooseQuickGc \/ ChooseNormalGc
                   \/ ReclaimToFree
          BY <4>1 DEF GcExit, GcWakes, ChooseDropOne, ChooseQuickGc, ChooseNormalGc, ReclaimToFree
        <4>2. CASE QuickGcNext
          BY <4>2 DEF QuickGcNext, quick_gc, SelectDslab, SelectionDone, evict_dslab, ReclaimToOps
        <4>3. CASE NormalGcNext
          BY <4>3 DEF NormalGcNext, CollectChannel, DrainQueue, AddToBatch, BatchEnds,
                      TakeOpsDslab, MoveObjects, WriteGcBuffer, MoveIndexToOpsDslab, TuneMarks,
                      RefillOps, RefillDone, ShrinkOps
        <4> QED
          BY <2>3, <4>1, <4>2, <4>3 DEF GcStep, GcNext
      <3> QED
        BY <2>1, <3>1 DEF AbstractPending, shutdown, putVars
    <2> QED
      BY <1>2, <2>2, <2>3
  <1>3. CASE FlushStep
    BY <1>2, <1>3, FlushKeepsObjects, SameObjects DEF Unseen
  <1>4. CASE GcStep /\ gc_pc # "evict"
    BY <1>2, <1>4, GcKeepsObjects, SameObjects DEF Unseen
  <1>5. CASE GcStep /\ gc_pc = "evict"
    <2>1. ASSUME NEW g \in Digests PROVE Object(g)' = Object(g) \/ index_table'[g] = None
      <3>1. index_table'[g] = index_table[g] \/ index_table'[g] = None
        BY <1>5, GcWrites DEF evict_dslab, DelIndexEntries, MoveObjects, MoveIndexToOpsDslab
      <3> QED
        BY <3>1, EntryStays
    <2>2. LM!Lose
      BY <1>2, <1>5, <2>1, EntriesLost
    <2> QED
      BY <2>2 DEF LM!Next
  <1>6. ASSUME UNCHANGED <<index_table, putVars>>
        PROVE  UNCHANGED <<AbstractMap, AbstractPending>>
    BY <1>6, EntryStays, SameObjects DEF AbstractPending, putVars
  <1>7. CASE DestroyStep
    <2>1. UNCHANGED <<index_table, putVars>>
      BY <1>7 DEF DestroyStep, BeginShutdown, JoinThreads, clientVars
    <2>2. CASE BeginShutdown
      <3>1. LM!Close
        BY <1>6, <2>1, <2>2 DEF BeginShutdown, LM!Close, shutdown
      <3> QED
        BY <3>1 DEF LM!Next
    <2>3. CASE JoinThreads
      BY <1>6, <2>1, <2>3 DEF JoinThreads, Unseen, shutdown
    <2> QED
      BY <1>7, <2>2, <2>3 DEF DestroyStep
  <1>8. CASE UNCHANGED vars
    BY <1>6, <1>8 DEF vars, cacheVars, clientVars, Unseen, shutdown
  <1> QED
    BY <1>1, <1>3, <1>4, <1>5, <1>7, <1>8 DEF Next

(***************************************************************************)
(* The cache is a lossy map: a Put takes effect at one moment, a Get finds *)
(* the last value put or nothing, and flushing, merging, eviction and      *)
(* reuse of slabs and blocks never bring an older value back.              *)
(***************************************************************************)
THEOREM CacheIsLossyMap == Spec => ImplementsLossyMap
  <1>1. Init => LM!Init
    BY InitImplements
  <1>2. Ownership /\ Contents /\ [Next]_vars => [LM!Next]_(LM!vars)
    BY NextImplements
  <1> QED
    BY <1>1, <1>2, ContentsInvariant, PTL DEF Spec, ImplementsLossyMap, LM!Spec

=============================================================================
