--------------------------- MODULE KVCacheProofs ----------------------------
(***************************************************************************)
(* Proofs about KVCache, for every value of its constants.                 *)
(***************************************************************************)
EXTENDS KVCache, FiniteSetTheorems, TLAPS

USE DEF Slabs, MemSlabs

-----------------------------------------------------------------------------
(* Facts about the operators the actions are built from.                   *)

\* The live digests of a slab are finitely many, so the slab's count of valid
\* objects is a number.
LEMMA LiveCount == ASSUME NEW s PROVE Cardinality(LiveDigests(s)) \in Nat
  <1>1. LiveDigests(s) \subseteq Digests
    BY DEF LiveDigests
  <1>2. IsFiniteSet(LiveDigests(s))
    BY <1>1, ConstantsAssumption, FS_Subset
  <1> QED
    BY <1>2, FS_CardinalityType

\* So are the dslabs of any set of them.
LEMMA DslabCount == ASSUME NEW D \in SUBSET DSlabs PROVE Cardinality(D) \in Nat
  BY SlabsAssumption, FS_Subset, FS_CardinalityType

\* A reset header is a header.
LEMMA ResetHeaderType == ResetHeader \in SlabHeader
  BY DEF ResetHeader, SlabHeader

\* Allocating a slot leaves a header.
LEMMA AllocatedType == ASSUME NEW h \in SlabHeader PROVE Allocated(h) \in SlabHeader
  <1>1. h.nr_alloc + 1 \in Nat /\ h.nr_used + 1 \in Int
    BY DEF SlabHeader
  <1> QED
    BY <1>1 DEF Allocated, SlabHeader

\* The next channel is a channel.
LEMMA NextChannelType == ASSUME NEW c \in Nat PROVE NextChannel(c) \in Channels
  BY SlabsAssumption DEF NextChannel, Channels

\* modify_index_to keeps the types of the index and of the headers.
LEMMA ModifyIndexType ==
  ASSUME CacheTypeOK, NEW src \in Slabs, NEW dst \in Slabs, modify_index_to(src, dst)
  PROVE  /\ slab' \in [Slabs -> SlabHeader]
         /\ index_table' \in [Digests -> IndexEntry \cup {None}]
  <1>1. Cardinality(LiveDigests(src)) \in Nat
    BY LiveCount
  <1>2. slab' \in [Slabs -> SlabHeader]
    BY <1>1 DEF CacheTypeOK, modify_index_to, SlabHeader
  <1>3. index_table' \in [Digests -> IndexEntry \cup {None}]
    BY DEF CacheTypeOK, modify_index_to, LiveDigests, IndexEntry
  <1> QED
    BY <1>2, <1>3

\* So does the copy of a slab to a block.
LEMMA FlushSlabType ==
  ASSUME CacheTypeOK, NEW src \in Slabs, NEW dst \in Slabs, flush_mslab_to_dslab(src, dst)
  PROVE  /\ slab' \in [Slabs -> SlabHeader]
         /\ data' \in [Slabs -> [SlotIds -> Slot \cup {None}]]
  BY DEF CacheTypeOK, flush_mslab_to_dslab

-----------------------------------------------------------------------------
(* Every step preserves the types.                                         *)

\* Steps of the clients.
LEMMA ClientType ==
  ASSUME TypeOK, PutHolding, ClientStep
  PROVE  TypeOK'
  <1> USE DEF TypeOK
  <1>1. FlushTypeOK' /\ GcTypeOK'
    BY DEF ClientStep, flushVars, gcVars, quickVars, batchVars, tuneVars, FlushTypeOK, GcTypeOK
  <1>2. ClientNext
    BY DEF ClientStep
  <1> USE ClientAssumption DEF ClientTypeOK
  <1> USE DEF cacheVars, mslabVars, dslabVars, markVars, clientVars, putVars
  <1>3. ASSUME NEW kv \in Slot, Put(kv) PROVE CacheTypeOK' /\ ClientTypeOK'
    <2>1. CacheTypeOK'
      BY <1>3 DEF Put, CacheTypeOK
    <2>2. ClientTypeOK'
      BY <1>3 DEF Put, PutPCs
    <2> QED
      BY <2>1, <2>2
  <1>4. CASE slot_alloc
    <2>1. PICK c \in Classes : \E m \in slab_partial[c] :
             /\ slab' = [slab EXCEPT ![m] = Allocated(@)]
             /\ data' = [data EXCEPT ![m][slab[m].nr_alloc] = put_arg]
             /\ put_slot' = [slab |-> m, slot |-> slab[m].nr_alloc]
             /\ slab_partial' = IF is_full(slab'[m])
                   THEN [slab_partial EXCEPT ![c] = @ \ {m}] ELSE slab_partial
      BY <1>4 DEF slot_alloc, get_slab_class
    <2>2. UNCHANGED <<put_arg, calls, reader, index_table, mslab_free, mslab_full,
                      dslabVars, markVars, destroyer>> /\ put_pc' = "index"
      BY <1>4 DEF slot_alloc
    <2>3. PICK m \in MSlabs :
             /\ slab' = [slab EXCEPT ![m] = Allocated(@)]
             /\ data' = [data EXCEPT ![m][slab[m].nr_alloc] = put_arg]
             /\ put_slot' = [slab |-> m, slot |-> slab[m].nr_alloc]
             /\ slab_partial' = IF is_full(slab'[m])
                   THEN [slab_partial EXCEPT ![c] = @ \ {m}] ELSE slab_partial
      BY <2>1 DEF CacheTypeOK
    <2>4. CacheTypeOK'
      <3>1. slab' \in [Slabs -> SlabHeader]
        BY <2>3, AllocatedType DEF CacheTypeOK
      <3>2. data' \in [Slabs -> [SlotIds -> Slot \cup {None}]]
        BY <2>3 DEF CacheTypeOK
      <3>3. slab_partial' \in [Classes -> SUBSET MSlabs]
        BY <2>3 DEF CacheTypeOK
      <3> QED
        BY <2>2, <3>1, <3>2, <3>3 DEF CacheTypeOK
    <2>5. ClientTypeOK'
      <3>1. slab[m].nr_alloc \in Nat
        BY <2>3 DEF CacheTypeOK, SlabHeader
      <3> QED
        BY <2>2, <2>3, <3>1 DEF PutPCs
    <2> QED
      BY <1>1, <2>4, <2>5
  <1>5. CASE TakeFreeMslab
    <2>1. CacheTypeOK'
      BY <1>5 DEF TakeFreeMslab, get_slab_class, CacheTypeOK, SlabHeader
    <2>2. ClientTypeOK'
      BY <1>5 DEF TakeFreeMslab
    <2> QED
      BY <1>1, <2>1, <2>2
  <1>6. CASE NoFreeMslab \/ FlushFinished \/ NoFreeIndexEntry
    <2>1. CacheTypeOK'
      BY <1>6 DEF NoFreeMslab, FlushFinished, NoFreeIndexEntry, CacheTypeOK
    <2>2. ClientTypeOK'
      BY <1>6 DEF NoFreeMslab, FlushFinished, NoFreeIndexEntry, PutPCs
    <2> QED
      BY <1>1, <2>1, <2>2
  <1>7. CASE UpdateIndexEntry \/ InsertIndexEntry
    <2>1. put_slot \in IndexEntry \cup {None}
      BY DEF IndexEntry
    <2>2. CacheTypeOK'
      BY <1>7, <2>1 DEF UpdateIndexEntry, InsertIndexEntry, CacheTypeOK, SlabHeader
    <2>3. ClientTypeOK'
      BY <1>7 DEF UpdateIndexEntry, InsertIndexEntry, PutPCs
    <2> QED
      BY <1>1, <2>2, <2>3
  <1>8. CASE FinishPut
    <2>1. put_slot.slab \in MSlabs
      BY <1>8 DEF FinishPut, PutHolding, PutHasSlot
    <2>2. CacheTypeOK'
      BY <1>8, <2>1 DEF FinishPut, CacheTypeOK
    <2>3. ClientTypeOK'
      BY <1>8 DEF FinishPut, PutPCs
    <2> QED
      BY <1>1, <2>2, <2>3
  <1>9. ASSUME NEW k \in Keys, Delete(k) PROVE CacheTypeOK' /\ ClientTypeOK'
    <2>1. index_table[DigestOf[k]] \in IndexEntry
      BY <1>9, ConstantsAssumption DEF Delete, CacheTypeOK
    <2>2. slab' \in [Slabs -> SlabHeader]
      BY <1>9, <2>1 DEF Delete, CacheTypeOK, SlabHeader, IndexEntry
    <2>3. index_table' \in [Digests -> IndexEntry \cup {None}]
      BY <1>9 DEF Delete, CacheTypeOK
    <2>4. CacheTypeOK'
      BY <1>9, <2>2, <2>3 DEF Delete, CacheTypeOK
    <2>5. ClientTypeOK'
      BY <1>9 DEF Delete
    <2> QED
      BY <2>4, <2>5
  <1>10. ASSUME NEW r \in Readers, NEW k \in Keys, GetSlice(r, k)
         PROVE  CacheTypeOK' /\ ClientTypeOK'
    <2>1. CacheTypeOK'
      BY <1>10 DEF GetSlice, CacheTypeOK
    <2>2. index_table[DigestOf[k]] \in IndexEntry
      BY <1>10, ConstantsAssumption DEF GetSlice, Lookup, CacheTypeOK
    <2>3. ClientTypeOK'
      BY <1>10, <2>2 DEF GetSlice, ReaderOK, IndexEntry
    <2> QED
      BY <2>1, <2>3
  <1>11. ASSUME NEW r \in Readers, CopySlice(r) \/ GetReturn(r)
         PROVE  CacheTypeOK' /\ ClientTypeOK'
    <2>1. CacheTypeOK'
      BY <1>11 DEF CopySlice, GetReturn, CacheTypeOK
    <2>2. ClientTypeOK'
      BY <1>11 DEF CopySlice, GetReturn, ReaderOK, NoGet
    <2> QED
      BY <2>1, <2>2
  <1> QED
    BY <1>1, <1>2, <1>3, <1>4, <1>5, <1>6, <1>7, <1>8, <1>9, <1>10, <1>11
    DEF ClientNext, PutStep

\* Steps of the flush thread.
LEMMA FlushType ==
  ASSUME TypeOK, FlushHolding, FlushStep
  PROVE  TypeOK'
  <1> USE DEF TypeOK
  <1>1. ClientTypeOK' /\ GcTypeOK'
    BY DEF FlushStep, clientVars, putVars, gcVars, quickVars, batchVars, tuneVars,
           ClientTypeOK, GcTypeOK
  <1>2. FlushNext(DslabFullLocked)
    BY DEF FlushStep
  <1> USE DEF cacheVars, mslabVars, dslabVars, markVars
  <1>3. CASE FlushExit \/ NoFreeDslab \/ GcFinished
    <2>1. CacheTypeOK'
      BY <1>3 DEF FlushExit, NoFreeDslab, GcFinished, CacheTypeOK
    <2>2. FlushTypeOK'
      BY <1>3 DEF FlushExit, NoFreeDslab, GcFinished, FlushTypeOK
    <2> QED
      BY <1>1, <2>1, <2>2
  <1>4. CASE TakeFullMslab
    <2>1. CacheTypeOK'
      BY <1>4 DEF TakeFullMslab, CacheTypeOK
    <2>2. FlushTypeOK'
      BY <1>4 DEF TakeFullMslab, FlushTypeOK, CacheTypeOK
    <2> QED
      BY <1>1, <2>1, <2>2
  <1>5. CASE PickFreeDslab
    <2>1. PICK d \in dslab_free :
             /\ dslab_free' = dslab_free \ {d}
             /\ flush_dslab' = d
             /\ next_mslab_flush_channel' = NextChannel(ChannelOf[d])
      BY <1>5 DEF PickFreeDslab, FoundFrom
    <2>2. ChannelOf[d] \in Nat /\ d \in DSlabs
      BY SlabsAssumption DEF CacheTypeOK, Channels
    <2>3. CacheTypeOK'
      BY <1>5, <2>1 DEF PickFreeDslab, CacheTypeOK
    <2>4. FlushTypeOK'
      BY <1>5, <2>1, <2>2, NextChannelType DEF PickFreeDslab, FlushTypeOK
    <2> QED
      BY <1>1, <2>3, <2>4
  <1>6. CASE WriteDslab
    <2>1. flush_mslab \in Slabs /\ flush_dslab \in Slabs
      BY <1>6 DEF WriteDslab, FlushHolding, FlushTypeOK
    <2>2. flush_mslab_to_dslab(flush_mslab, flush_dslab)
      BY <1>6 DEF WriteDslab
    <2>3. /\ slab' \in [Slabs -> SlabHeader]
          /\ data' \in [Slabs -> [SlotIds -> Slot \cup {None}]]
      BY <2>1, <2>2, FlushSlabType
    <2>4. CacheTypeOK'
      BY <1>6, <2>3 DEF WriteDslab, CacheTypeOK
    <2>5. FlushTypeOK'
      BY <1>6 DEF WriteDslab, FlushTypeOK
    <2> QED
      BY <1>1, <2>4, <2>5
  <1>7. CASE MoveIndexToDslab
    <2>1. flush_mslab \in Slabs /\ flush_dslab \in Slabs
      BY <1>7 DEF MoveIndexToDslab, FlushHolding, FlushTypeOK
    <2>2. modify_index_to(flush_mslab, flush_dslab)
      BY <1>7 DEF MoveIndexToDslab
    <2>3. /\ slab' \in [Slabs -> SlabHeader]
          /\ index_table' \in [Digests -> IndexEntry \cup {None}]
      BY <2>1, <2>2, ModifyIndexType
    <2>4. CacheTypeOK'
      BY <1>7, <2>3 DEF MoveIndexToDslab, CacheTypeOK
    <2>5. FlushTypeOK'
      BY <1>7 DEF MoveIndexToDslab, FlushTypeOK
    <2> QED
      BY <1>1, <2>4, <2>5
  <1>8. CASE RecycleMslab
    <2>1. flush_mslab \in MSlabs
      BY <1>8 DEF RecycleMslab, FlushHolding, FlushTypeOK
    <2>2. slab' \in [Slabs -> SlabHeader]
      BY <1>8, ResetHeaderType DEF RecycleMslab, CacheTypeOK
    <2>3. CacheTypeOK'
      BY <1>8, <2>1, <2>2 DEF RecycleMslab, CacheTypeOK
    <2>4. FlushTypeOK'
      BY <1>8 DEF RecycleMslab, FlushTypeOK
    <2> QED
      BY <1>1, <2>3, <2>4
  <1>9. CASE PublishDslab(DslabFullLocked)
    <2>1. flush_dslab \in DSlabs
      BY <1>9 DEF PublishDslab, FlushHolding, FlushTypeOK
    <2>2. CacheTypeOK'
      BY <1>9, <2>1 DEF PublishDslab, CacheTypeOK
    <2>3. FlushTypeOK'
      BY <1>9 DEF PublishDslab, FlushTypeOK
    <2> QED
      BY <1>1, <2>2, <2>3
  <1> QED
    BY <1>2, <1>3, <1>4, <1>5, <1>6, <1>7, <1>8, <1>9 DEF FlushNext

\* Steps of the GC thread.
LEMMA GcType ==
  ASSUME TypeOK, GcHolding, GcStep
  PROVE  TypeOK'
  <1> USE DEF TypeOK
  <1>1. ClientTypeOK' /\ FlushTypeOK'
    BY DEF GcStep, clientVars, putVars, flushVars, ClientTypeOK, FlushTypeOK
  <1>2. GcNext
    BY DEF GcStep
  <1> SUFFICES CacheTypeOK' /\ GcTypeOK'
    BY <1>1
  <1> USE DEF cacheVars, mslabVars, dslabVars, markVars
  <1> USE DEF quickVars, batchVars, tuneVars
  <1>3. CASE GcExit \/ GcWakes \/ ChooseDropOne \/ ChooseQuickGc \/ ChooseNormalGc
    <2>1. CacheTypeOK'
      BY <1>3 DEF GcExit, GcWakes, ChooseDropOne, ChooseQuickGc, ChooseNormalGc, CacheTypeOK
    <2>2. GcTypeOK'
      BY <1>3 DEF GcExit, GcWakes, ChooseDropOne, ChooseQuickGc, ChooseNormalGc, GcTypeOK,
                  CacheTypeOK
    <2> QED
      BY <2>1, <2>2
  <1>4. CASE quick_gc
    <2>1. water_mark_high' \in Int
      BY <1>4, MarksAssumption DEF quick_gc, CacheTypeOK, QuickHigh, MinOf
    <2>2. MaxOpsPoolSize \in Int
      BY SlabsAssumption DEF MaxOpsPoolSize
    <2>3. water_mark_low' \in Int
      BY <1>4, <2>1, <2>2 DEF quick_gc, CacheTypeOK, QuickLow, MinOf
    <2>4. nr_back_to_ops' \in Int
      BY <1>4, <2>2 DEF quick_gc, CacheTypeOK, BackToOps, MinOf
    <2>5. nr_to_drop' \in Int
      BY <1>4, <2>3, <2>4 DEF quick_gc, CacheTypeOK, BackToFree, TruncTenth
    <2>6. CacheTypeOK'
      BY <1>4, <2>1, <2>3 DEF quick_gc, CacheTypeOK
    <2>7. GcTypeOK'
      BY <1>4, <2>4, <2>5 DEF quick_gc, GcTypeOK
    <2> QED
      BY <2>6, <2>7
  <1>5. CASE SelectDslab
    <2>1. next_ops_pool_remove_channel' \in Channels
      BY <1>5, NextChannelType DEF SelectDslab, GcTypeOK, Channels
    <2>2. CacheTypeOK'
      BY <1>5 DEF SelectDslab, CacheTypeOK, InChannel
    <2>3. to_drop' \in SUBSET DSlabs /\ nr_to_drop' \in Int
      BY <1>5 DEF SelectDslab, CacheTypeOK, GcTypeOK, InChannel
    <2>4. GcTypeOK'
      BY <1>5, <2>1, <2>3 DEF SelectDslab, GcTypeOK
    <2> QED
      BY <2>2, <2>4
  <1>6. CASE SelectionDone \/ RefillDone
    <2>1. CacheTypeOK'
      BY <1>6 DEF SelectionDone, RefillDone, CacheTypeOK
    <2>2. GcTypeOK'
      BY <1>6 DEF SelectionDone, RefillDone, GcTypeOK, CacheTypeOK
    <2> QED
      BY <2>1, <2>2
  <1>7. CASE evict_dslab
    <2>1. slab' \in [Slabs -> SlabHeader]
      BY <1>7 DEF evict_dslab, CacheTypeOK, SlabHeader, GcTypeOK
    <2>2. index_table' \in [Digests -> IndexEntry \cup {None}]
      BY <1>7 DEF evict_dslab, DelIndexEntries, CacheTypeOK
    <2>3. CacheTypeOK'
      BY <1>7, <2>1, <2>2 DEF evict_dslab, CacheTypeOK
    <2>4. GcTypeOK'
      BY <1>7 DEF evict_dslab, GcTypeOK
    <2> QED
      BY <2>3, <2>4
  <1>8. CASE ReclaimToOps
    <2>1. PICK ops \in SUBSET to_drop :
             /\ \E off \in SUBSET (to_drop \ ops) :
                  /\ slab' = [s \in Slabs |-> IF s \in ops \cup off THEN ResetHeader ELSE slab[s]]
                  /\ free_list' = to_drop \ (ops \cup off)
             /\ AddToOps(ops)
      BY <1>8 DEF ReclaimToOps
    <2>2. slab' \in [Slabs -> SlabHeader]
      BY <2>1, ResetHeaderType DEF CacheTypeOK
    <2>3. ops \in SUBSET DSlabs /\ Cardinality(ops) \in Nat
      BY DslabCount DEF GcTypeOK
    <2>4. CacheTypeOK'
      BY <1>8, <2>1, <2>2, <2>3 DEF ReclaimToOps, AddToOps, CacheTypeOK
    <2>5. GcTypeOK'
      BY <1>8, <2>1 DEF ReclaimToOps, GcTypeOK
    <2> QED
      BY <2>4, <2>5
  <1>9. CASE CollectChannel
    <2>1. CacheTypeOK'
      BY <1>9 DEF CollectChannel, CacheTypeOK
    <2>2. pq' \in SUBSET DSlabs
      BY <1>9 DEF CollectChannel, Lightest, InChannel, CacheTypeOK, GcTypeOK
    <2>3. ASSUME NEW d \in DSlabs PROVE Weight(d) \in Int
      BY ConstantsAssumption DEF Weight, CacheTypeOK, SlabHeader
    <2>4. weight' \in [DSlabs -> Int]
      BY <1>9, <2>3 DEF CollectChannel, GcTypeOK
    <2>5. GcTypeOK'
      BY <1>9, <2>2, <2>4 DEF CollectChannel, GcTypeOK
    <2> QED
      BY <2>1, <2>5
  <1>10. CASE DrainQueue
    <2>1. CacheTypeOK'
      BY <1>10 DEF DrainQueue, CacheTypeOK
    <2>2. weight' \in [DSlabs -> Int]
      BY <1>10 DEF DrainQueue, GcTypeOK, NoWeight
    <2>3. GcTypeOK'
      BY <1>10, <2>2 DEF DrainQueue, GcTypeOK, CacheTypeOK
    <2> QED
      BY <2>1, <2>3
  <1>11. CASE AddToBatch
    <2>1. CacheTypeOK'
      BY <1>11 DEF AddToBatch, CacheTypeOK
    <2>2. PICK d \in pq : /\ pq' = pq \ {d}
                          /\ to_drop' = to_drop \cup {d}
                          /\ nr_slots_moved' = nr_slots_moved + slab[d].nr_used
      BY <1>11 DEF AddToBatch, Backs, Candidates
    <2>3. d \in DSlabs /\ slab[d].nr_used \in Int
      BY DEF GcTypeOK, CacheTypeOK, SlabHeader
    <2>4. GcTypeOK'
      BY <1>11, <2>2, <2>3 DEF AddToBatch, GcTypeOK
    <2> QED
      BY <2>1, <2>4
  <1>12. CASE BatchEnds
    <2>1. CacheTypeOK'
      BY <1>12 DEF BatchEnds, CacheTypeOK
    <2>2. GcTypeOK'
      BY <1>12, ConstantsAssumption DEF BatchEnds, GcTypeOK
    <2> QED
      BY <2>1, <2>2
  <1>13. CASE TakeOpsDslab
    <2>1. PICK d \in ops_pool :
             /\ ops_slab' = d
             /\ RemoveFromOps(d)
             /\ next_ops_pool_remove_channel' = NextChannel(ChannelOf[d])
             /\ dslab_full' = (dslab_full \cup {d}) \ to_drop
             /\ slab' = [slab EXCEPT ![d] = ResetHeader,
                                     ![gc_buffer] = [ResetHeader EXCEPT !.cid = gc_class]]
      BY <1>13 DEF TakeOpsDslab, FoundFrom
    <2>2. d \in DSlabs /\ ChannelOf[d] \in Nat
      BY SlabsAssumption DEF CacheTypeOK, Channels
    <2>3. gc_class \in Classes
      BY <1>13, ConstantsAssumption DEF TakeOpsDslab, GcHolding, GcTypeOK, Classes
    <2>4. [ResetHeader EXCEPT !.cid = gc_class] \in SlabHeader
      BY <2>3 DEF ResetHeader, SlabHeader
    <2>5. slab' \in [Slabs -> SlabHeader]
      BY <2>1, <2>4, ResetHeaderType DEF CacheTypeOK
    <2>6. Cardinality(to_drop) \in Nat
      BY DslabCount DEF GcTypeOK
    <2>7. CacheTypeOK'
      BY <1>13, <2>1, <2>2, <2>5, <2>6 DEF TakeOpsDslab, RemoveFromOps, CacheTypeOK, GcTypeOK
    <2>8. GcTypeOK'
      BY <1>13, <2>1, <2>2, NextChannelType DEF TakeOpsDslab, GcTypeOK
    <2> QED
      BY <2>7, <2>8
  <1>14. CASE MoveObjects
    <2>1. PICK d \in todo :
             /\ data' = [data EXCEPT ![gc_buffer] = [i \in SlotIds |->
                   IF \E g \in LiveDigests(d) : NewSlot(d, g) = i
                   THEN data[d][index_table[CHOOSE g \in LiveDigests(d) :
                                               NewSlot(d, g) = i].slot]
                   ELSE data[gc_buffer][i]]]
             /\ index_table' = [g \in Digests |->
                   IF g \in LiveDigests(d) THEN [slab |-> gc_buffer, slot |-> NewSlot(d, g)]
                   ELSE index_table[g]]
             /\ slab' = [slab EXCEPT ![gc_buffer].nr_alloc = @ + Cardinality(LiveDigests(d)),
                                     ![gc_buffer].nr_used = @ + Cardinality(LiveDigests(d)),
                                     ![d].nr_used = 0]
             /\ todo' = todo \ {d}
      BY <1>14 DEF MoveObjects
    <2>2. d \in DSlabs
      BY DEF GcTypeOK
    <2>3. slab' \in [Slabs -> SlabHeader]
      <3> DEFINE n == Cardinality(LiveDigests(d))
      <3>1. n \in Nat
        BY LiveCount
      <3> HIDE DEF n
      <3>2. slab' = [slab EXCEPT ![gc_buffer].nr_alloc = @ + n,
                                 ![gc_buffer].nr_used = @ + n, ![d].nr_used = 0]
        BY <2>1 DEF n
      <3>3. slab[gc_buffer].nr_alloc + n \in Nat /\ slab[gc_buffer].nr_used + n \in Int
        BY <3>1 DEF CacheTypeOK, SlabHeader
      <3> QED
        BY <2>2, <3>2, <3>3 DEF CacheTypeOK, SlabHeader
    <2>4. ASSUME NEW g \in LiveDigests(d) PROVE NewSlot(d, g) \in Nat
      <3> DEFINE before == {h \in LiveDigests(d) : index_table[h].slot < index_table[g].slot}
      <3>1. IsFiniteSet(before)
        BY ConstantsAssumption, FS_Subset DEF LiveDigests
      <3>2. Cardinality(before) \in Nat
        BY <3>1, FS_CardinalityType
      <3>3. slab[gc_buffer].nr_alloc \in Nat
        BY DEF CacheTypeOK, SlabHeader
      <3> QED
        BY <3>2, <3>3 DEF NewSlot
    <2>5. index_table' \in [Digests -> IndexEntry \cup {None}]
      BY <2>1, <2>4 DEF CacheTypeOK, IndexEntry
    <2>6. data' \in [Slabs -> [SlotIds -> Slot \cup {None}]]
      <3> DEFINE from(i) == CHOOSE g \in LiveDigests(d) : NewSlot(d, g) = i
      <3>1. ASSUME NEW i, \E g \in LiveDigests(d) : NewSlot(d, g) = i
            PROVE  data[d][index_table[from(i)].slot] \in Slot \cup {None}
        <4>1. from(i) \in LiveDigests(d)
          BY <3>1
        <4>2. index_table[from(i)].slot \in SlotIds
          BY <4>1 DEF LiveDigests
        <4> QED
          BY <2>2, <4>2 DEF CacheTypeOK
      <3> HIDE DEF from
      <3>2. ASSUME NEW i \in SlotIds PROVE data[gc_buffer][i] \in Slot \cup {None}
        BY DEF CacheTypeOK
      <3>3. [i \in SlotIds |-> IF \E g \in LiveDigests(d) : NewSlot(d, g) = i
                THEN data[d][index_table[from(i)].slot]
                ELSE data[gc_buffer][i]] \in [SlotIds -> Slot \cup {None}]
        BY <3>1, <3>2
      <3> QED
        BY <2>1, <3>3 DEF CacheTypeOK, from
    <2>7. CacheTypeOK'
      BY <1>14, <2>3, <2>5, <2>6 DEF MoveObjects, CacheTypeOK
    <2>8. GcTypeOK'
      BY <1>14 DEF MoveObjects, GcTypeOK
    <2> QED
      BY <2>7, <2>8
  <1>15. CASE WriteGcBuffer
    <2>1. ops_slab \in Slabs
      BY <1>15 DEF WriteGcBuffer, GcHolding, GcTypeOK
    <2>2. flush_mslab_to_dslab(gc_buffer, ops_slab)
      BY <1>15 DEF WriteGcBuffer
    <2>3. /\ slab' \in [Slabs -> SlabHeader]
          /\ data' \in [Slabs -> [SlotIds -> Slot \cup {None}]]
      BY <2>1, <2>2, FlushSlabType
    <2>4. CacheTypeOK'
      BY <1>15, <2>3 DEF WriteGcBuffer, CacheTypeOK
    <2>5. GcTypeOK'
      BY <1>15 DEF WriteGcBuffer, GcTypeOK
    <2> QED
      BY <2>4, <2>5
  <1>16. CASE MoveIndexToOpsDslab
    <2>1. ops_slab \in Slabs
      BY <1>16 DEF MoveIndexToOpsDslab, GcHolding, GcTypeOK
    <2>2. modify_index_to(gc_buffer, ops_slab)
      BY <1>16 DEF MoveIndexToOpsDslab
    <2>3. /\ slab' \in [Slabs -> SlabHeader]
          /\ index_table' \in [Digests -> IndexEntry \cup {None}]
      BY <2>1, <2>2, ModifyIndexType
    <2>4. CacheTypeOK'
      BY <1>16, <2>3 DEF MoveIndexToOpsDslab, CacheTypeOK
    <2>5. GcTypeOK'
      BY <1>16 DEF MoveIndexToOpsDslab, GcTypeOK
    <2> QED
      BY <2>4, <2>5
  <1>17. CASE TuneMarks
    <2>1. water_mark_low' \in Int /\ water_mark_high' \in Int
      BY <1>17, MarksAssumption, GcAssumption
      DEF TuneMarks, NormalLow, NormalHigh, MaxOf, CacheTypeOK
    <2>2. new_ops_size' \in Int
      BY <1>17, GcAssumption DEF TuneMarks, MaxOf, GcTypeOK
    <2>3. CacheTypeOK'
      BY <1>17, <2>1 DEF TuneMarks, CacheTypeOK
    <2>4. GcTypeOK'
      BY <1>17, <2>2 DEF TuneMarks, GcTypeOK, NoWeight
    <2> QED
      BY <2>3, <2>4
  <1>18. CASE RefillOps
    <2>1. slab' \in [Slabs -> SlabHeader]
      BY <1>18, ResetHeaderType DEF RefillOps, CacheTypeOK
    <2>2. ops_pool' \in SUBSET DSlabs /\ free_list' \in SUBSET DSlabs
      BY <1>18 DEF RefillOps, AddToOps, InChannel, CacheTypeOK, GcTypeOK
    <2>3. ops_pool_size' = ops_pool_size
            \/ \E d \in DSlabs : ops_pool_size' = ops_pool_size + Cardinality({d})
      BY <1>18 DEF RefillOps, AddToOps, InChannel, GcTypeOK
    <2>4. ops_pool_size' \in Int
      <3>1. \A d : Cardinality({d}) = 1
        BY FS_Singleton
      <3>2. ops_pool_size' = ops_pool_size \/ ops_pool_size' = ops_pool_size + 1
        BY <2>3, <3>1
      <3> QED
        BY <3>2 DEF CacheTypeOK
    <2>5. CacheTypeOK'
      BY <1>18, <2>1, <2>2, <2>4 DEF RefillOps, CacheTypeOK
    <2>6. gc_channel' \in Nat
      BY <1>18, NextChannelType DEF RefillOps, GcTypeOK, Channels
    <2>7. GcTypeOK'
      BY <1>18, <2>2, <2>6 DEF RefillOps, GcTypeOK
    <2> QED
      BY <2>5, <2>7
  <1>19. CASE ShrinkOps
    <2>1. slab' \in [Slabs -> SlabHeader]
      BY <1>19, ResetHeaderType DEF ShrinkOps, CacheTypeOK
    <2>2. ops_pool' \in SUBSET DSlabs /\ free_list' \in SUBSET DSlabs /\ ops_pool_size' \in Int
      BY <1>19 DEF ShrinkOps, RemoveFromOps, InChannel, CacheTypeOK, GcTypeOK
    <2>3. CacheTypeOK'
      BY <1>19, <2>1, <2>2 DEF ShrinkOps, CacheTypeOK
    <2>4. next_ops_pool_remove_channel' \in Channels
      BY <1>19, NextChannelType DEF ShrinkOps, GcTypeOK, Channels
    <2>5. GcTypeOK'
      BY <1>19, <2>2, <2>4 DEF ShrinkOps, GcTypeOK
    <2> QED
      BY <2>3, <2>5
  <1>20. CASE ReclaimToFree
    <2>1. slab' \in [Slabs -> SlabHeader]
      BY <1>20, ResetHeaderType DEF ReclaimToFree, CacheTypeOK
    <2>2. Cardinality(free_list) \in Nat
      BY DslabCount DEF GcTypeOK
    <2>3. CacheTypeOK'
      BY <1>20, <2>1, <2>2 DEF ReclaimToFree, CacheTypeOK, GcTypeOK
    <2>4. GcTypeOK'
      BY <1>20 DEF ReclaimToFree, GcTypeOK
    <2> QED
      BY <2>3, <2>4
  <1> QED
    BY <1>2, <1>3, <1>4, <1>5, <1>6, <1>7, <1>8, <1>9, <1>10, <1>11, <1>12, <1>13, <1>14,
       <1>15, <1>16, <1>17, <1>18, <1>19, <1>20 DEF GcNext, QuickGcNext, NormalGcNext

-----------------------------------------------------------------------------
(* Every step keeps the mslabs in one hand each, and loses none.           *)

\* A Put keeps its grip on its slot across a step that leaves the slab of the
\* slot as full as it was.
LEMMA PutHoldingFrame ==
  ASSUME ClientTypeOK, PutHolding, UNCHANGED <<putVars, slab_partial>>,
         PutHasSlot => /\ slab'[put_slot.slab].cid = slab[put_slot.slab].cid
                       /\ slab'[put_slot.slab].nr_alloc = slab[put_slot.slab].nr_alloc
  PROVE  PutHolding'
  <1>1. PutHasSlot' = PutHasSlot /\ put_slot' = put_slot /\ Partial' = Partial
    BY DEF PutHasSlot, putVars, Partial
  <1>2. PutHasSlot => (is_full(slab'[put_slot.slab]) <=> is_full(slab[put_slot.slab]))
    BY DEF is_full
  <1> QED
    BY <1>1, <1>2 DEF PutHolding, is_full

\* The hands that hold mslabs stay as they are when their variables do.
LEMMA MslabHandsFrame ==
  ASSUME MslabHands, UNCHANGED <<putVars, mslabVars, flush_mslab>>
  PROVE  MslabHands'
  BY DEF MslabHands, putVars, mslabVars, Partial, PutHolds, PutHasSlot, Disjoint

\* And so does the sum of what they hold.
LEMMA NoMslabLostFrame ==
  ASSUME NoMslabLost, UNCHANGED <<putVars, mslabVars, flush_mslab>>
  PROVE  NoMslabLost'
  BY DEF NoMslabLost, putVars, mslabVars, Partial, PutHolds, PutHasSlot

\* The GC thread touches no mslab but its own buffer.
LEMMA GcKeepsMslabs ==
  ASSUME TypeOK, GcHolding, GcStep
  PROVE  /\ UNCHANGED <<putVars, mslabVars, flush_mslab>>
         /\ \A m \in MSlabs : slab'[m] = slab[m]
  <1> USE DEF TypeOK, cacheVars, mslabVars, dslabVars, markVars
  <1>1. UNCHANGED <<putVars, mslabVars, flush_mslab>>
    BY DEF GcStep, clientVars, flushVars, GcNext, QuickGcNext, NormalGcNext,
           GcExit, GcWakes, ChooseDropOne, ChooseQuickGc, ChooseNormalGc, quick_gc,
           SelectDslab, SelectionDone, evict_dslab, ReclaimToOps, CollectChannel, DrainQueue,
           AddToBatch, BatchEnds, TakeOpsDslab, MoveObjects, WriteGcBuffer,
           MoveIndexToOpsDslab, TuneMarks, RefillOps, RefillDone, ShrinkOps, ReclaimToFree
  <1>2. GcNext
    BY DEF GcStep
  <1>3. \A m \in MSlabs : m # gc_buffer /\ m \notin DSlabs
    BY SlabsAssumption
  <1>4. CASE \/ GcExit \/ GcWakes \/ ChooseDropOne \/ ChooseQuickGc \/ ChooseNormalGc
             \/ quick_gc \/ SelectDslab \/ SelectionDone \/ CollectChannel \/ DrainQueue
             \/ AddToBatch \/ BatchEnds \/ TuneMarks \/ RefillDone
    BY <1>1, <1>4 DEF GcExit, GcWakes, ChooseDropOne, ChooseQuickGc, ChooseNormalGc, quick_gc,
           SelectDslab, SelectionDone, CollectChannel, DrainQueue, AddToBatch, BatchEnds,
           TuneMarks, RefillDone
  <1>5. CASE evict_dslab
    BY <1>1, <1>3, <1>5 DEF evict_dslab, CacheTypeOK, GcTypeOK
  <1>6. CASE ReclaimToOps
    BY <1>1, <1>3, <1>6 DEF ReclaimToOps, GcTypeOK
  <1>7. CASE TakeOpsDslab
    BY <1>1, <1>3, <1>7 DEF TakeOpsDslab, FoundFrom, CacheTypeOK
  <1>8. CASE MoveObjects
    BY <1>1, <1>3, <1>8 DEF MoveObjects, CacheTypeOK, GcTypeOK
  <1>9. CASE WriteGcBuffer
    BY <1>1, <1>3, <1>9 DEF WriteGcBuffer, flush_mslab_to_dslab, CacheTypeOK, GcTypeOK, GcHolding
  <1>10. CASE MoveIndexToOpsDslab
    BY <1>1, <1>3, <1>10 DEF MoveIndexToOpsDslab, modify_index_to, CacheTypeOK, GcTypeOK, GcHolding
  <1>11. CASE RefillOps \/ ShrinkOps
    BY <1>1, <1>3, <1>11 DEF RefillOps, ShrinkOps, InChannel, CacheTypeOK, GcTypeOK
  <1>12. CASE ReclaimToFree
    BY <1>1, <1>3, <1>12 DEF ReclaimToFree, GcTypeOK
  <1> QED
    BY <1>2, <1>4, <1>5, <1>6, <1>7, <1>8, <1>9, <1>10, <1>11, <1>12
    DEF GcNext, QuickGcNext, NormalGcNext

\* Steps of the clients.
LEMMA ClientMslabs ==
  ASSUME TypeOK, MslabHands, NoMslabLost, PutHolding, ClientStep
  PROVE  MslabHands' /\ NoMslabLost' /\ PutHolding'
  <1> USE DEF TypeOK, cacheVars, mslabVars, dslabVars, markVars, clientVars, putVars
  <1>1. ClientNext /\ flush_mslab' = flush_mslab
    BY DEF ClientStep, flushVars
  <1>2. ASSUME UNCHANGED <<slab, mslabVars>>, ~PutHasSlot, ~PutHasSlot'
        PROVE  MslabHands' /\ NoMslabLost' /\ PutHolding'
    BY <1>1, <1>2 DEF MslabHands, NoMslabLost, PutHolding, Partial, PutHolds, Disjoint
  <1>3. ASSUME NEW kv \in Slot, Put(kv) PROVE MslabHands' /\ NoMslabLost' /\ PutHolding'
    BY <1>2, <1>3 DEF Put, PutHasSlot
  <1>4. CASE NoFreeMslab \/ FlushFinished
    BY <1>2, <1>4 DEF NoFreeMslab, FlushFinished, PutHasSlot
  <1>5. CASE slot_alloc
    <2>1. PICK c \in Classes : \E m \in slab_partial[c] :
             /\ slab' = [slab EXCEPT ![m] = Allocated(@)]
             /\ put_slot' = [slab |-> m, slot |-> slab[m].nr_alloc]
             /\ slab_partial' = IF is_full(slab'[m])
                   THEN [slab_partial EXCEPT ![c] = @ \ {m}] ELSE slab_partial
      BY <1>5 DEF slot_alloc, get_slab_class
    <2>2. PICK m \in slab_partial[c] :
             /\ put_slot' = [slab |-> m, slot |-> slab[m].nr_alloc]
             /\ slab_partial' = IF is_full(slab'[m])
                   THEN [slab_partial EXCEPT ![c] = @ \ {m}] ELSE slab_partial
      BY <2>1
    <2>3. UNCHANGED <<mslab_free, mslab_full>> /\ PutHasSlot' /\ ~PutHasSlot
      BY <1>5 DEF slot_alloc, PutHasSlot
    <2>4. m \in MSlabs /\ m \in Partial
      BY <2>2 DEF CacheTypeOK, Partial
    <2>5. put_slot'.slab = m /\ put_slot' # None
      <3>1. put_slot'.slab = m /\ put_slot'.slot = slab[m].nr_alloc
        BY <2>2
      <3>2. put_slot' \in IndexEntry
        BY <2>2, <2>4 DEF CacheTypeOK, SlabHeader, IndexEntry
      <3> QED
        BY <3>1, <3>2, NoneAssumption
    <2>6. CASE is_full(slab'[m])
      <3>1. slab_partial' = [slab_partial EXCEPT ![c] = @ \ {m}]
        BY <2>2, <2>6
      <3>2. Partial' = Partial \ {m}
        BY <3>1, <2>2, <2>4 DEF Partial, CacheTypeOK, MslabHands
      <3>3. PutHolds' = {m}
        BY <2>3, <2>5, <3>2 DEF PutHolds
      <3>4. \A b, d \in Classes : b # d => slab_partial'[b] \cap slab_partial'[d] = {}
        BY <3>1 DEF MslabHands, CacheTypeOK
      <3>5. MslabHands'
        BY <1>1, <2>3, <2>4, <3>2, <3>3, <3>4 DEF MslabHands, Disjoint
      <3>6. PutHolding'
        BY <2>5, <2>6, <3>2 DEF PutHolding, is_full
      <3>7. NoMslabLost'
        BY <1>1, <2>3, <3>2, <3>3 DEF NoMslabLost, PutHolds
      <3> QED
        BY <3>5, <3>6, <3>7
    <2>7. CASE ~is_full(slab'[m])
      <3>1. slab_partial' = slab_partial /\ Partial' = Partial
        BY <2>2, <2>7 DEF Partial
      <3>2. PutHolds' = {}
        BY <2>3, <2>4, <2>5, <3>1 DEF PutHolds
      <3>3. MslabHands'
        BY <1>1, <2>3, <3>1, <3>2 DEF MslabHands, Disjoint
      <3>4. PutHolding'
        BY <2>4, <2>5, <2>7, <3>1 DEF PutHolding, is_full
      <3>5. NoMslabLost'
        BY <1>1, <2>3, <3>1, <3>2 DEF NoMslabLost, PutHolds
      <3> QED
        BY <3>3, <3>4, <3>5
    <2> QED
      BY <2>6, <2>7
  <1>6. CASE TakeFreeMslab
    <2>1. PICK c \in Classes : /\ slab_partial[c] = {}
                               /\ \E m \in mslab_free :
                                     /\ mslab_free' = mslab_free \ {m}
                                     /\ slab_partial' = [slab_partial EXCEPT ![c] = {m}]
      BY <1>6 DEF TakeFreeMslab, get_slab_class
    <2>2. PICK m \in mslab_free : /\ mslab_free' = mslab_free \ {m}
                                  /\ slab_partial' = [slab_partial EXCEPT ![c] = {m}]
      BY <2>1
    <2>3. UNCHANGED mslab_full /\ ~PutHasSlot /\ ~PutHasSlot'
      BY <1>6 DEF TakeFreeMslab, PutHasSlot
    <2>4. m \in MSlabs /\ m \notin Partial
      BY DEF CacheTypeOK, MslabHands, Disjoint
    <2>5. Partial' = Partial \cup {m}
      BY <2>1, <2>2, <2>4 DEF Partial, CacheTypeOK
    <2>6. \A b, d \in Classes : b # d => slab_partial'[b] \cap slab_partial'[d] = {}
      BY <2>2, <2>4 DEF MslabHands, Partial, CacheTypeOK
    <2>7. PutHolds' = {}
      BY <2>3 DEF PutHolds
    <2>8. MslabHands'
      BY <1>1, <2>2, <2>3, <2>4, <2>5, <2>6, <2>7 DEF MslabHands, Disjoint
    <2>9. NoMslabLost'
      BY <1>1, <2>2, <2>3, <2>5, <2>7 DEF NoMslabLost, PutHolds
    <2> QED
      BY <2>3, <2>8, <2>9 DEF PutHolding
  <1>7. CASE UpdateIndexEntry \/ InsertIndexEntry \/ NoFreeIndexEntry
    <2>1. PutHasSlot /\ PutHasSlot' /\ UNCHANGED <<put_slot, mslabVars>>
      BY <1>7 DEF UpdateIndexEntry, InsertIndexEntry, NoFreeIndexEntry, PutHasSlot
    <2>2. \A s \in Slabs : slab'[s].cid = slab[s].cid /\ slab'[s].nr_alloc = slab[s].nr_alloc
      BY <1>7 DEF UpdateIndexEntry, InsertIndexEntry, NoFreeIndexEntry, CacheTypeOK, SlabHeader
    <2>3. put_slot.slab \in Slabs
      BY <2>1 DEF PutHolding, ClientTypeOK
    <2>4. Partial' = Partial /\ PutHolds' = PutHolds
      BY <2>1 DEF Partial, PutHolds
    <2>5. MslabHands'
      BY <1>1, <2>1, <2>4 DEF MslabHands, Disjoint
    <2>6. is_full(slab[put_slot.slab])' <=> is_full(slab[put_slot.slab])
      BY <2>1, <2>2, <2>3 DEF is_full
    <2>7. PutHolding'
      BY <2>1, <2>4, <2>6 DEF PutHolding
    <2>8. NoMslabLost'
      BY <1>1, <2>1, <2>4 DEF NoMslabLost
    <2> QED
      BY <2>5, <2>7, <2>8
  <1>8. CASE FinishPut
    <2>1. PutHasSlot /\ ~PutHasSlot' /\ UNCHANGED <<mslab_free, slab_partial>>
      BY <1>8 DEF FinishPut, PutHasSlot
    <2>2. mslab_full' = mslab_full \cup PutHolds
      BY <1>8, <2>1 DEF FinishPut, PutHolding, PutHolds
    <2>3. Partial' = Partial /\ PutHolds' = {}
      BY <2>1 DEF Partial, PutHolds
    <2>4. MslabHands'
      BY <1>1, <2>1, <2>2, <2>3 DEF MslabHands, Disjoint
    <2>5. NoMslabLost'
      BY <1>1, <2>1, <2>2, <2>3 DEF NoMslabLost
    <2> QED
      BY <2>1, <2>4, <2>5 DEF PutHolding
  <1>9. ASSUME NEW k \in Keys, Delete(k) PROVE MslabHands' /\ NoMslabLost' /\ PutHolding'
    <2>1. UNCHANGED <<putVars, mslabVars>>
      BY <1>9 DEF Delete
    <2>2. \A s \in Slabs : slab'[s].cid = slab[s].cid /\ slab'[s].nr_alloc = slab[s].nr_alloc
      BY <1>9 DEF Delete, CacheTypeOK, SlabHeader
    <2>3. PutHasSlot => put_slot.slab \in Slabs
      BY DEF PutHolding, ClientTypeOK
    <2> QED
      BY <1>1, <2>1, <2>2, <2>3, PutHoldingFrame, MslabHandsFrame, NoMslabLostFrame
  <1>10. ASSUME UNCHANGED <<putVars, cacheVars>> PROVE MslabHands' /\ NoMslabLost' /\ PutHolding'
    BY <1>1, <1>10, PutHoldingFrame, MslabHandsFrame, NoMslabLostFrame
  <1>11. ASSUME NEW r \in Readers, (\E k \in Keys : GetSlice(r, k)) \/ CopySlice(r) \/ GetReturn(r)
         PROVE  MslabHands' /\ NoMslabLost' /\ PutHolding'
    BY <1>10, <1>11 DEF GetSlice, CopySlice, GetReturn
  <1> QED
    BY <1>1, <1>3, <1>4, <1>5, <1>6, <1>7, <1>8, <1>9, <1>11 DEF ClientNext, PutStep

\* Steps of the flush thread.
LEMMA FlushMslabs ==
  ASSUME TypeOK, MslabHands, NoMslabLost, PutHolding, FlushHolding, FlushStep
  PROVE  MslabHands' /\ NoMslabLost' /\ PutHolding'
  <1> USE DEF TypeOK, cacheVars, mslabVars, dslabVars, markVars
  <1>1. FlushNext(DslabFullLocked) /\ UNCHANGED putVars
    BY DEF FlushStep, clientVars
  <1>2. PutHasSlot => /\ put_slot.slab \in MSlabs
                      /\ put_slot.slab \in Partial \cup PutHolds
    BY DEF PutHolding, PutHolds, ClientTypeOK
  <1>3. \A m \in MSlabs : m \notin DSlabs
    BY SlabsAssumption
  <1>4. ASSUME UNCHANGED <<mslabVars, flush_mslab>>,
               \A m \in MSlabs : slab'[m].cid = slab[m].cid /\ slab'[m].nr_alloc = slab[m].nr_alloc
        PROVE  MslabHands' /\ NoMslabLost' /\ PutHolding'
    BY <1>1, <1>2, <1>4, PutHoldingFrame, MslabHandsFrame, NoMslabLostFrame
  <1>5. CASE FlushExit \/ NoFreeDslab \/ GcFinished \/ PickFreeDslab
             \/ PublishDslab(DslabFullLocked)
    BY <1>4, <1>5 DEF FlushExit, NoFreeDslab, GcFinished, PickFreeDslab, PublishDslab
  <1>6. CASE WriteDslab
    <2>1. \A m \in MSlabs : slab'[m] = slab[m]
      BY <1>3, <1>6 DEF WriteDslab, flush_mslab_to_dslab, CacheTypeOK, FlushTypeOK, FlushHolding
    <2> QED
      BY <1>4, <1>6, <2>1 DEF WriteDslab
  <1>7. CASE MoveIndexToDslab
    <2>1. \A m \in MSlabs : slab'[m].cid = slab[m].cid /\ slab'[m].nr_alloc = slab[m].nr_alloc
      BY <1>7 DEF MoveIndexToDslab, modify_index_to, CacheTypeOK, SlabHeader
    <2> QED
      BY <1>4, <1>7, <2>1 DEF MoveIndexToDslab
  <1>8. CASE TakeFullMslab
    <2>1. PICK m \in mslab_full : mslab_full' = mslab_full \ {m} /\ flush_mslab' = m
      BY <1>8 DEF TakeFullMslab
    <2>2. UNCHANGED <<mslab_free, slab_partial, slab>>
      BY <1>8 DEF TakeFullMslab
    <2>3. Partial' = Partial /\ PutHolds' = PutHolds
      BY <1>1, <2>2 DEF putVars, Partial, PutHolds, PutHasSlot
    <2>4. MslabHands'
      BY <2>1, <2>2, <2>3 DEF MslabHands, Disjoint
    <2>5. flush_mslab = None
      BY <1>8 DEF TakeFullMslab, FlushHolding
    <2>6. NoMslabLost'
      BY <2>1, <2>2, <2>3, <2>5, NoneAssumption DEF NoMslabLost
    <2> QED
      BY <1>1, <2>2, <2>4, <2>6, PutHoldingFrame
  <1>9. CASE RecycleMslab
    <2>1. flush_mslab \in MSlabs /\ flush_mslab # None
      BY <1>9 DEF RecycleMslab, FlushHolding, FlushTypeOK
    <2>2. flush_mslab \notin Partial \cup PutHolds
      BY <2>1 DEF MslabHands, Disjoint
    <2>3. PutHasSlot => slab'[put_slot.slab] = slab[put_slot.slab]
      BY <1>2, <1>9, <2>2 DEF RecycleMslab, CacheTypeOK
    <2>4. UNCHANGED <<mslab_full, slab_partial>> /\ flush_mslab' = None
          /\ mslab_free' = mslab_free \cup {flush_mslab}
      BY <1>9 DEF RecycleMslab
    <2>5. Partial' = Partial /\ PutHolds' = PutHolds
      BY <1>1, <2>4 DEF putVars, Partial, PutHolds, PutHasSlot
    <2>6. MslabHands'
      BY <2>1, <2>4, <2>5 DEF MslabHands, Disjoint
    <2>7. NoMslabLost'
      BY <2>4, <2>5 DEF NoMslabLost
    <2> QED
      BY <1>1, <2>3, <2>4, <2>6, <2>7, PutHoldingFrame
  <1> QED
    BY <1>1, <1>5, <1>6, <1>7, <1>8, <1>9 DEF FlushNext

-----------------------------------------------------------------------------
(* Every step keeps the dslabs in one hand each.                           *)

\* Steps of the clients touch no dslab list.
LEMMA ClientDslabs ==
  ASSUME DslabHands, FlushHolding, GcHolding, ClientStep
  PROVE  DslabHands' /\ FlushHolding' /\ GcHolding'
  <1> USE DEF cacheVars, dslabVars, flushVars, gcVars, batchVars, clientVars, putVars
  <1>1. UNCHANGED <<dslabVars, flushVars, gcVars>>
    BY DEF ClientStep, ClientNext, PutStep, Put, slot_alloc, TakeFreeMslab, NoFreeMslab,
           FlushFinished, UpdateIndexEntry, InsertIndexEntry, NoFreeIndexEntry, FinishPut,
           Delete, GetSlice, CopySlice, GetReturn
  <1>2. DslabHands'
    BY <1>1 DEF DslabHands, GcHolds, Disjoint
  <1>3. FlushHolding' /\ GcHolding'
    BY <1>1 DEF FlushHolding, GcHolding
  <1> QED
    BY <1>2, <1>3

\* Steps of the flush thread.
LEMMA FlushDslabs ==
  ASSUME TypeOK, DslabHands, FlushHolding, GcHolding, FlushStep
  PROVE  DslabHands' /\ FlushHolding' /\ GcHolding'
  <1> USE DEF TypeOK, cacheVars, dslabVars, gcVars, batchVars
  <1>1. FlushNext(DslabFullLocked) /\ UNCHANGED gcVars
    BY DEF FlushStep
  <1>2. GcHolds' = GcHolds
    BY <1>1 DEF GcHolds
  <1>3. None \notin DSlabs /\ None \notin MSlabs
    BY NoneAssumption
  <1>4. ASSUME UNCHANGED <<dslab_free, dslab_full, ops_pool, flush_dslab>>
        PROVE  DslabHands' /\ GcHolding'
    BY <1>1, <1>2, <1>4 DEF DslabHands, Disjoint, GcHolding
  <1>5. CASE FlushExit \/ NoFreeDslab \/ GcFinished \/ WriteDslab \/ MoveIndexToDslab
    <2>1. FlushHolding'
      BY <1>5 DEF FlushExit, NoFreeDslab, GcFinished, WriteDslab, MoveIndexToDslab, FlushHolding
    <2> QED
      BY <1>4, <1>5, <2>1 DEF FlushExit, NoFreeDslab, GcFinished, WriteDslab, MoveIndexToDslab
  <1>6. CASE TakeFullMslab
    <2>1. FlushHolding'
      BY <1>3, <1>6 DEF TakeFullMslab, FlushHolding, CacheTypeOK
    <2> QED
      BY <1>4, <1>6, <2>1 DEF TakeFullMslab
  <1>7. CASE RecycleMslab
    <2>1. FlushHolding'
      BY <1>7 DEF RecycleMslab, FlushHolding
    <2> QED
      BY <1>4, <1>7, <2>1 DEF RecycleMslab
  <1>8. CASE PickFreeDslab
    <2>1. PICK d \in dslab_free : dslab_free' = dslab_free \ {d} /\ flush_dslab' = d
      BY <1>8 DEF PickFreeDslab, FoundFrom
    <2>2. UNCHANGED <<dslab_full, ops_pool>>
      BY <1>8 DEF PickFreeDslab
    <2>3. DslabHands'
      BY <1>2, <2>1, <2>2 DEF DslabHands, Disjoint
    <2>4. FlushHolding'
      BY <1>3, <1>8, <2>1 DEF PickFreeDslab, FlushHolding, CacheTypeOK
    <2>5. GcHolding'
      BY <1>1, <2>2 DEF GcHolding
    <2> QED
      BY <2>3, <2>4, <2>5
  <1>9. CASE PublishDslab(DslabFullLocked)
    <2>1. flush_dslab # None /\ flush_dslab' = None
          /\ dslab_full' = dslab_full \cup {flush_dslab}
          /\ UNCHANGED <<dslab_free, ops_pool>>
      BY <1>9 DEF PublishDslab, FlushHolding
    <2>2. DslabHands'
      BY <1>2, <2>1 DEF DslabHands, Disjoint
    <2>3. FlushHolding'
      BY <1>9 DEF PublishDslab, FlushHolding
    <2>4. GcHolding'
      BY <1>1, <2>1 DEF GcHolding
    <2> QED
      BY <2>2, <2>3, <2>4
  <1> QED
    BY <1>1, <1>5, <1>6, <1>7, <1>8, <1>9 DEF FlushNext

\* Steps of the GC thread.
LEMMA GcDslabs ==
  ASSUME TypeOK, DslabHands, FlushHolding, GcHolding, GcStep
  PROVE  DslabHands' /\ FlushHolding' /\ GcHolding'
  <1> USE DEF TypeOK, cacheVars, dslabVars, flushVars, quickVars, batchVars, tuneVars
  <1>1. GcNext /\ UNCHANGED flushVars
    BY DEF GcStep
  <1>2. FlushHolding'
    BY <1>1 DEF FlushHolding
  <1>3. None \notin DSlabs
    BY NoneAssumption
  <1> SUFFICES DslabHands' /\ GcHolding'
    BY <1>2
  <1> USE DEF DslabHands, GcHolds, Disjoint
  <1>4. CASE GcExit \/ GcWakes \/ ChooseQuickGc \/ ChooseNormalGc \/ CollectChannel
             \/ DrainQueue \/ RefillDone
    <2>1. DslabHands'
      BY <1>1, <1>4 DEF GcExit, GcWakes, ChooseQuickGc, ChooseNormalGc, CollectChannel,
                        DrainQueue, RefillDone
    <2>2. GcHolding'
      BY <1>4 DEF GcExit, GcWakes, ChooseQuickGc, ChooseNormalGc, CollectChannel, Lightest,
                  InChannel, DrainQueue, RefillDone, GcHolding
    <2> QED
      BY <2>1, <2>2
  <1>5. CASE ChooseDropOne \/ quick_gc
    <2>1. DslabHands'
      BY <1>1, <1>5 DEF ChooseDropOne, quick_gc, GcHolding
    <2>2. GcHolding'
      BY <1>5 DEF ChooseDropOne, quick_gc, GcHolding
    <2> QED
      BY <2>1, <2>2
  <1>6. CASE SelectDslab
    <2>1. DslabHands'
      BY <1>1, <1>6 DEF SelectDslab, InChannel
    <2>2. GcHolding'
      BY <1>6 DEF SelectDslab, GcHolding
    <2> QED
      BY <2>1, <2>2
  <1>7. CASE SelectionDone \/ evict_dslab
    <2>1. DslabHands'
      BY <1>1, <1>7 DEF SelectionDone, evict_dslab
    <2>2. GcHolding'
      BY <1>7 DEF SelectionDone, evict_dslab, GcHolding
    <2> QED
      BY <2>1, <2>2
  <1>8. CASE ReclaimToOps
    <2>1. PICK ops \in SUBSET to_drop :
             /\ \E off \in SUBSET (to_drop \ ops) : free_list' = to_drop \ (ops \cup off)
             /\ ops_pool' = ops_pool \cup ops
      BY <1>8 DEF ReclaimToOps, AddToOps
    <2>2. UNCHANGED <<dslab_free, dslab_full>> /\ gc_pc = "evict" /\ gc_pc' = "to_free"
      BY <1>8 DEF ReclaimToOps
    <2>3. DslabHands'
      BY <1>1, <2>1, <2>2
    <2>4. GcHolding'
      BY <1>8 DEF ReclaimToOps, GcHolding
    <2> QED
      BY <2>3, <2>4
  <1>9. CASE AddToBatch
    <2>1. DslabHands'
      BY <1>1, <1>9 DEF AddToBatch
    <2>2. GcHolding'
      BY <1>9, ConstantsAssumption DEF AddToBatch, Backs, Candidates, GcHolding, GcTypeOK
    <2> QED
      BY <2>1, <2>2
  <1>10. CASE BatchEnds
    <2>1. DslabHands'
      BY <1>1, <1>10 DEF BatchEnds
    <2>2. GcHolding'
      BY <1>10 DEF BatchEnds, GcHolding
    <2> QED
      BY <2>1, <2>2
  <1>11. CASE TakeOpsDslab
    <2>1. PICK d \in ops_pool : /\ ops_slab' = d
                                /\ ops_pool' = ops_pool \ {d}
                                /\ dslab_full' = (dslab_full \cup {d}) \ to_drop
      BY <1>11 DEF TakeOpsDslab, FoundFrom, RemoveFromOps
    <2>2. /\ gc_pc = "take" /\ gc_pc' = "move" /\ free_list' = free_list \cup to_drop
          /\ UNCHANGED <<dslab_free, pq, to_drop>>
      BY <1>11 DEF TakeOpsDslab
    <2>3. to_drop \subseteq dslab_full /\ d \in DSlabs
      BY <2>2 DEF GcHolding, CacheTypeOK
    <2>4. DslabHands'
      BY <1>1, <2>1, <2>2, <2>3
    <2>5. GcHolding'
      BY <1>3, <2>1, <2>2, <2>3 DEF GcHolding
    <2> QED
      BY <2>4, <2>5
  <1>12. CASE MoveObjects \/ WriteGcBuffer
    <2>1. UNCHANGED <<dslabVars, free_list, to_drop, pq, ops_slab>> /\ gc_pc = "move"
          /\ gc_pc' \in {"move", "index"}
      BY <1>12 DEF MoveObjects, WriteGcBuffer
    <2>2. DslabHands'
      BY <1>1, <2>1
    <2>3. GcHolding'
      BY <2>1 DEF GcHolding
    <2> QED
      BY <2>2, <2>3
  <1>13. CASE MoveIndexToOpsDslab \/ TuneMarks
    <2>1. UNCHANGED <<dslabVars, free_list>> /\ pq' \in {pq, {}} /\ gc_pc' \in {"batch", "refill"}
          /\ gc_pc \in {"index", "batch"}
      BY <1>13 DEF MoveIndexToOpsDslab, TuneMarks
    <2>2. DslabHands'
      BY <1>1, <2>1
    <2>3. GcHolding'
      BY <1>13 DEF MoveIndexToOpsDslab, TuneMarks, GcHolding
    <2> QED
      BY <2>2, <2>3
  <1>14. CASE RefillOps \/ ShrinkOps
    <2>1. DslabHands'
      BY <1>1, <1>14 DEF RefillOps, ShrinkOps, InChannel, AddToOps, RemoveFromOps
    <2>2. GcHolding'
      BY <1>14 DEF RefillOps, ShrinkOps, GcHolding
    <2> QED
      BY <2>1, <2>2
  <1>15. CASE ReclaimToFree
    <2>1. DslabHands'
      BY <1>1, <1>15 DEF ReclaimToFree
    <2>2. GcHolding'
      BY <1>15 DEF ReclaimToFree, GcHolding
    <2> QED
      BY <2>1, <2>2
  <1> QED
    BY <1>1, <1>4, <1>5, <1>6, <1>7, <1>8, <1>9, <1>10, <1>11, <1>12, <1>13, <1>14, <1>15
    DEF GcNext, QuickGcNext, NormalGcNext

-----------------------------------------------------------------------------
(* The inductive invariant, and what it implies.                           *)

\* The constructor sets it up.
LEMMA InitOwnership == Init => Ownership
  <1> SUFFICES ASSUME Init PROVE Ownership
    OBVIOUS
  <1> USE DEF Init, CacheInit, ClientInit, FlushInit, GcInit
  <1>1. CacheTypeOK
    <2>1. ops_pool \in SUBSET DSlabs /\ dslab_free \in SUBSET DSlabs
      OBVIOUS
    <2>2. nr_free_dslab \in Int /\ ops_pool_size \in Int
      BY <2>1, DslabCount
    <2> QED
      BY <2>1, <2>2, MarksAssumption, ResetHeaderType DEF CacheTypeOK
  <1>2. ClientTypeOK
    BY ClientAssumption DEF ClientTypeOK, PutPCs, NoGet, ReaderOK
  <1>3. FlushTypeOK /\ GcTypeOK
    <2>1. 0 \in Channels
      BY SlabsAssumption DEF Channels
    <2> QED
      BY <2>1 DEF FlushTypeOK, GcTypeOK, NoWeight
  <1>4. ~PutHasSlot /\ Partial = {} /\ PutHolds = {}
    BY DEF PutHasSlot, Partial, PutHolds
  <1>5. MslabHands
    BY <1>4 DEF MslabHands, Disjoint
  <1>6. NoMslabLost
    BY DEF NoMslabLost
  <1>7. DslabHands
    BY DEF DslabHands, Disjoint, GcHolds
  <1>8. PutHolding
    BY <1>4 DEF PutHolding
  <1>9. FlushHolding /\ GcHolding
    BY DEF FlushHolding, GcHolding
  <1> QED
    BY <1>1, <1>2, <1>3, <1>5, <1>6, <1>7, <1>8, <1>9 DEF Ownership, TypeOK, OneHand

\* Every step of every thread, the destructor's included, preserves it.
LEMMA NextOwnership == Ownership /\ [Next]_vars => Ownership'
  <1> SUFFICES ASSUME Ownership, [Next]_vars PROVE Ownership'
    OBVIOUS
  <1> USE DEF Ownership, OneHand
  <1>1. CASE ClientStep
    BY <1>1, ClientType, ClientMslabs, ClientDslabs
  <1>2. CASE FlushStep
    BY <1>2, FlushType, FlushMslabs, FlushDslabs
  <1>3. CASE GcStep
    <2>1. TypeOK'
      BY <1>3, GcType
    <2>2. DslabHands' /\ FlushHolding' /\ GcHolding'
      BY <1>3, GcDslabs
    <2>3. /\ UNCHANGED <<putVars, mslabVars, flush_mslab>>
          /\ \A m \in MSlabs : slab'[m] = slab[m]
      BY <1>3, GcKeepsMslabs
    <2>4. PutHasSlot => put_slot.slab \in MSlabs
      BY DEF PutHolding, TypeOK, ClientTypeOK
    <2>5. PutHolding'
      BY <2>3, <2>4, PutHoldingFrame DEF mslabVars, TypeOK
    <2>6. MslabHands' /\ NoMslabLost'
      BY <2>3, MslabHandsFrame, NoMslabLostFrame
    <2> QED
      BY <2>1, <2>2, <2>5, <2>6
  <1>4. CASE DestroyStep \/ UNCHANGED vars
    <2>1. /\ UNCHANGED <<slab, data, index_table, mslabVars, dslabVars, markVars>>
          /\ UNCHANGED <<clientVars, flushVars, gcVars>>
          /\ destroyer' \in {"joining", "done", destroyer}
      BY <1>4 DEF DestroyStep, BeginShutdown, JoinThreads, vars, cacheVars
    <2> USE DEF mslabVars, dslabVars, markVars, clientVars, putVars, flushVars, gcVars,
                quickVars, batchVars, tuneVars
    <2>2. CacheTypeOK'
      BY <2>1 DEF TypeOK, CacheTypeOK
    <2>3. ClientTypeOK' /\ FlushTypeOK' /\ GcTypeOK'
      BY <2>1 DEF TypeOK, ClientTypeOK, FlushTypeOK, GcTypeOK
    <2>4. PutHolding' /\ MslabHands' /\ NoMslabLost'
      BY <2>1, PutHoldingFrame, MslabHandsFrame, NoMslabLostFrame DEF TypeOK
    <2>5. DslabHands'
      BY <2>1 DEF DslabHands, GcHolds, Disjoint
    <2>6. FlushHolding' /\ GcHolding'
      BY <2>1 DEF FlushHolding, GcHolding
    <2> QED
      BY <2>2, <2>3, <2>4, <2>5, <2>6 DEF TypeOK
  <1> QED
    BY <1>1, <1>2, <1>3, <1>4 DEF Next

\* Ownership is an invariant: at every place of its program each thread holds
\* the slabs it takes itself to hold, and nobody else holds them.
THEOREM OwnershipInvariant == Spec => []Ownership
  <1>1. Init => Ownership
    BY InitOwnership
  <1>2. Ownership /\ [Next]_vars => Ownership'
    BY NextOwnership
  <1> QED
    BY <1>1, <1>2, PTL DEF Spec

\* Every variable keeps its type, whatever the threads do.
THEOREM TypeCorrect == Spec => []TypeOK
  <1>1. Ownership => TypeOK
    BY DEF Ownership
  <1> QED
    BY <1>1, OwnershipInvariant, PTL

\* No slab is ever in two hands: no two lists, and no list and a thread, and no
\* two threads, have the same mslab or the same dslab.
THEOREM OneHandInvariant == Spec => []OneHand
  <1>1. Ownership => OneHand
    BY DEF Ownership
  <1> QED
    BY <1>1, OwnershipInvariant, PTL

\* No mslab is ever lost: Put gives every slab it fills to the flush thread, and
\* the flush thread gives every mslab back, whatever it had to wait for.
THEOREM NoMslabLostInvariant == Spec => []NoMslabLost
  <1>1. Ownership => NoMslabLost
    BY DEF Ownership
  <1> QED
    BY <1>1, OwnershipInvariant, PTL

=============================================================================
