------------------------------- MODULE SlabGC -------------------------------
(***************************************************************************)
(* The GC thread: do_slab_gc in a loop.  A round either drops full dslabs  *)
(* with everything in them (quick GC, when blocks or index entries run     *)
(* out) or merges the valid objects of several full dslabs of one class    *)
(* into one dslab of the ops pool (normal GC).  gc_pc names the place:     *)
(*   "wait"    on gc_signal_ for a full dslab                              *)
(*   "choose"  about to choose the kind of round                           *)
(* quick GC                                                                *)
(*   "tune"    quick_gc: marks and number of dslabs to drop                *)
(*   "select"  the selection loop, holding dslab_full_mutex_               *)
(*   "evict"   deleting the index entries of the selected dslabs, then     *)
(*             giving dslabs back to the ops pool                          *)
(* normal GC                                                               *)
(*   "collect" filling the priority queue, one channel at a time           *)
(*   "batch"   accumulating dslabs of one class that fit one slab          *)
(*   "take"    gc_dslabs: an ops dslab in, the batch out of dslab_full_    *)
(*   "move"    gc_dslabs: valid objects to gc_buffer_, a dslab at a time,  *)
(*             then gc_buffer_ to the ops dslab's block                    *)
(*   "index"   gc_dslabs: modify_index_to                                  *)
(*   "refill"  replacing the ops dslabs that were used up                  *)
(* both                                                                    *)
(*   "to_free" normal GC's shrinking of the ops pool, then the remaining   *)
(*             dslabs to dslab_free_, and gc_finished_signal_              *)
(*   "exit"    after shutdown                                              *)
(***************************************************************************)
EXTENDS CacheState

CONSTANTS
    QueueFactor,  \* normal_gc queues this many dslabs per ops dslab: 3 in the code
    OpsFloor,     \* it never shrinks the ops pool below this size: 10 in the code
    MarkStep      \* and lowers the marks by it: 10 in the code

ASSUME GcAssumption == QueueFactor \in Nat /\ OpsFloor \in Nat \ {0} /\ MarkStep \in Nat

VARIABLES
    gc_pc,
    gc_nr_free,         \* do_slab_gc's local nr_free_dslab
    nr_to_drop,         \* do_quick_gc's local nr_dslab_to_drop
    nr_back_to_ops,     \* its argument nr_back_to_ops_pool
    to_drop,            \* dslabs selected by do_quick_gc; gc_dslabs' argument
    todo,               \* those of to_drop the current loop has not visited
    pq,                 \* normal_gc's candidates: pq, then slab_class_to_drop
    weight,             \* the candidates' keys in the queue, which order them
    gc_channel,         \* loop variable over channels
    gc_class,           \* loop variable over slab classes
    nr_slots_moved,     \* valid objects in the batch, as counted so far
    ops_slab,           \* gc_dslabs' local
    old_ops_size, new_ops_size,
    free_list,          \* dslabs on their way to dslab_free_ or the ops pool
    next_ops_pool_remove_channel

quickVars == <<nr_to_drop, nr_back_to_ops>>
batchVars == <<pq, weight, gc_class, nr_slots_moved, ops_slab>>
tuneVars == <<old_ops_size, new_ops_size>>
gcVars == <<gc_pc, gc_nr_free, quickVars, to_drop, todo, batchVars, gc_channel,
            tuneVars, free_list, next_ops_pool_remove_channel>>

GcTypeOK ==
    /\ gc_pc \in {"wait", "choose", "tune", "select", "evict", "collect", "batch",
                  "take", "move", "index", "refill", "to_free", "exit"}
    /\ gc_nr_free \in Int /\ nr_to_drop \in Int /\ nr_back_to_ops \in Int
    /\ to_drop \in SUBSET DSlabs /\ todo \in SUBSET DSlabs
    /\ pq \in SUBSET DSlabs /\ weight \in [DSlabs -> Int]
    /\ gc_channel \in Nat /\ gc_class \in Nat /\ nr_slots_moved \in Int
    /\ ops_slab \in DSlabs \cup {None}
    /\ old_ops_size \in Int /\ new_ops_size \in Int
    /\ free_list \in SUBSET DSlabs
    /\ next_ops_pool_remove_channel \in Channels

NoWeight == [d \in DSlabs |-> 0]

GcInit ==
    /\ gc_pc = "wait" /\ gc_nr_free = 0
    /\ nr_to_drop = 0 /\ nr_back_to_ops = 0
    /\ to_drop = {} /\ todo = {} /\ pq = {} /\ weight = NoWeight
    /\ gc_channel = 0 /\ gc_class = 0 /\ nr_slots_moved = 0 /\ ops_slab = None
    /\ old_ops_size = 0 /\ new_ops_size = 0 /\ free_list = {}
    /\ next_ops_pool_remove_channel = 0

\* The selection loop runs from its first to its last iteration under
\* dslab_full_mutex_.
DslabFullLocked == gc_pc = "select"

\* Into and out of the ops pool, with its count.  Mutant: the dslab is
\* handed out and not taken off its list.
AddToOps(D) == /\ ops_pool' = ops_pool \cup D
               /\ ops_pool_size' = ops_pool_size + Cardinality(D)

KeepInOps(d) == UNCHANGED ops_pool /\ ops_pool_size' = ops_pool_size - 1

RemoveFromOps(d) == /\ ops_pool' = ops_pool \ {d}
                    /\ ops_pool_size' = ops_pool_size - 1

-----------------------------------------------------------------------------
(* do_slab_gc *)

GcExit ==
    /\ gc_pc = "wait" /\ shutdown
    /\ gc_pc' = "exit"
    /\ UNCHANGED <<gc_nr_free, quickVars, to_drop, todo, batchVars, gc_channel,
                   tuneVars, free_list, next_ops_pool_remove_channel, cacheVars>>

\* Woken by a full dslab.  Only this thread removes one, so the count it was
\* woken by holds until it reads nr_free_dslab_.
GcWakes ==
    /\ gc_pc = "wait" /\ ~shutdown
    /\ nr_full_dslab > 0
    /\ gc_nr_free' = nr_free_dslab
    /\ gc_pc' = "choose"
    /\ UNCHANGED <<quickVars, to_drop, todo, batchVars, gc_channel,
                   tuneVars, free_list, next_ops_pool_remove_channel, cacheVars>>

\* Index entries have run out: do_quick_gc(1, 0).
ChooseDropOne ==
    /\ gc_pc = "choose"
    /\ nr_free_index_entry = 0
    /\ nr_to_drop' = 1 /\ nr_back_to_ops' = 0
    /\ gc_nr_free' = 0
    /\ gc_pc' = "select"
    /\ UNCHANGED <<to_drop, todo, batchVars, gc_channel,
                   tuneVars, free_list, next_ops_pool_remove_channel, cacheVars>>

ChooseQuickGc ==
    /\ gc_pc = "choose"
    /\ nr_free_index_entry # 0 /\ gc_nr_free < water_mark_low
    /\ gc_nr_free' = 0
    /\ gc_pc' = "tune"
    /\ UNCHANGED <<quickVars, to_drop, todo, batchVars, gc_channel,
                   tuneVars, free_list, next_ops_pool_remove_channel, cacheVars>>

ChooseNormalGc ==
    /\ gc_pc = "choose"
    /\ nr_free_index_entry # 0 /\ gc_nr_free >= water_mark_low
    /\ gc_nr_free' = 0
    /\ gc_channel' = 0
    /\ gc_pc' = "collect"
    /\ UNCHANGED <<quickVars, to_drop, todo, batchVars,
                   tuneVars, free_list, next_ops_pool_remove_channel, cacheVars>>

-----------------------------------------------------------------------------
(* quick_gc and do_quick_gc *)

quick_gc ==
    /\ gc_pc = "tune"
    /\ water_mark_high' = QuickHigh(water_mark_high, HighMax)
    /\ water_mark_low' = QuickLow(water_mark_low, water_mark_high', MaxOpsPoolSize)
    /\ nr_back_to_ops' = BackToOps(ops_pool_size, MaxOpsPoolSize)
    /\ nr_to_drop' = BackToFree(water_mark_low', nr_free_dslab) + nr_back_to_ops'
    /\ gc_pc' = "select"
    /\ UNCHANGED <<gc_nr_free, to_drop, todo, batchVars, gc_channel, tuneVars, free_list,
                   next_ops_pool_remove_channel,
                   slab, data, index_table, mslabVars, dslabVars, destroyer>>

\* One iteration: the next channel gives a full dslab, if it has one.
SelectDslab ==
    LET c == NextChannel(next_ops_pool_remove_channel) IN
    /\ gc_pc = "select" /\ nr_to_drop > 0
    /\ next_ops_pool_remove_channel' = c
    /\ \/ /\ InChannel(dslab_full, c) = {}
          /\ UNCHANGED <<dslab_full, nr_full_dslab, to_drop, nr_to_drop>>
       \/ \E d \in InChannel(dslab_full, c) :
          /\ dslab_full' = dslab_full \ {d}
          /\ nr_full_dslab' = nr_full_dslab - 1
          /\ to_drop' = to_drop \cup {d}
          /\ nr_to_drop' = nr_to_drop - 1
    /\ UNCHANGED <<gc_pc, gc_nr_free, nr_back_to_ops, todo, batchVars, gc_channel,
                   tuneVars, free_list, slab, data, index_table, mslabVars, dslab_free,
                   ops_pool, nr_free_dslab, ops_pool_size, markVars, destroyer>>

SelectionDone ==
    /\ gc_pc = "select" /\ nr_to_drop <= 0
    /\ nr_to_drop' = 0
    /\ todo' = to_drop
    /\ gc_pc' = "evict"
    /\ UNCHANGED <<gc_nr_free, nr_back_to_ops, to_drop, batchVars, gc_channel,
                   tuneVars, free_list, next_ops_pool_remove_channel, cacheVars>>

\* del_index_entry of every key in the dslab, wherever the entry of that key
\* points by now.  Mutant: the entries stay.
KeepIndexEntries(d) == UNCHANGED index_table

DelIndexEntries(d) ==
    index_table' = [g \in Digests |-> IF g \in SlotDigests(d) THEN None ELSE index_table[g]]

evict_dslab ==
    /\ gc_pc = "evict"
    /\ \E d \in todo :
          /\ DelIndexEntries(d)
          /\ slab' = [slab EXCEPT ![d].nr_used = 0]
          /\ todo' = todo \ {d}
    /\ UNCHANGED <<gc_pc, gc_nr_free, quickVars, to_drop, batchVars, gc_channel,
                   tuneVars, free_list, next_ops_pool_remove_channel,
                   data, mslabVars, dslabVars, markVars, destroyer>>

\* The loop takes a dslab off to_drop before it looks at its count: the first
\* nr_back_to_ops dslabs go to the ops pool, and the one after them is off
\* to_drop when the loop breaks.  What is left goes to dslab_free_.
ReclaimToOps ==
    /\ gc_pc = "evict" /\ todo = {}
    /\ \E ops \in SUBSET to_drop :
          /\ Cardinality(ops) = MinOf(MaxOf(nr_back_to_ops, 0), Cardinality(to_drop))
          /\ \E off \in SUBSET (to_drop \ ops) :
                /\ Cardinality(off) = IF ops = to_drop THEN 0 ELSE 1
                /\ slab' = [s \in Slabs |-> IF s \in ops \cup off THEN ResetHeader ELSE slab[s]]
                /\ free_list' = to_drop \ (ops \cup off)
          /\ AddToOps(ops)
    /\ to_drop' = {} /\ nr_back_to_ops' = 0
    /\ gc_pc' = "to_free"
    /\ UNCHANGED <<gc_nr_free, nr_to_drop, todo, batchVars, gc_channel, tuneVars,
                   next_ops_pool_remove_channel, data, index_table, mslabVars,
                   dslab_free, dslab_full, nr_free_dslab, nr_full_dslab,
                   markVars, destroyer>>

-----------------------------------------------------------------------------
(* normal_gc *)

\* SlabGCPriorityComparator: bytes of valid objects.
Weight(d) == slab[d].nr_used * (IF slab[d].cid = NoClass THEN 0 ELSE SlotSize[slab[d].cid])

\* nr_used of a dslab changes under the queue when a client overwrites or deletes
\* one of its objects.  A heap whose keys have changed is in no order.
HeapIntact == \A d \in pq : weight[d] = Weight(d)

\* The queue keeps the QueueFactor * ops_pool_size_ lightest dslabs seen so far.
Lightest(cand) ==
    {S \in SUBSET cand :
        /\ Cardinality(S) = MinOf(QueueFactor * ops_pool_size, Cardinality(cand))
        /\ HeapIntact => \A d \in S, e \in cand \ S : Weight(d) <= Weight(e)}

CollectChannel ==
    /\ gc_pc = "collect" /\ gc_channel < NrChannels
    /\ pq' \in Lightest(pq \cup InChannel(dslab_full, gc_channel))
    /\ weight' = [d \in DSlabs |-> IF d \notin pq' THEN 0
                                   ELSE IF d \in pq THEN weight[d] ELSE Weight(d)]
    /\ gc_channel' = gc_channel + 1
    /\ UNCHANGED <<gc_pc, gc_nr_free, quickVars, to_drop, todo, gc_class,
                   nr_slots_moved, ops_slab, tuneVars, free_list,
                   next_ops_pool_remove_channel, cacheVars>>

\* The queue is emptied in the order of the weights, or in any order.
DrainQueue ==
    /\ gc_pc = "collect" /\ gc_channel = NrChannels
    /\ weight' = IF HeapIntact THEN weight ELSE NoWeight
    /\ old_ops_size' = ops_pool_size
    /\ gc_channel' = 0 /\ gc_class' = 0 /\ nr_slots_moved' = 0
    /\ gc_pc' = "batch"
    /\ UNCHANGED <<gc_nr_free, quickVars, to_drop, todo, pq, ops_slab, new_ops_size,
                   free_list, next_ops_pool_remove_channel, cacheVars>>

\* Mutant: the classes are not told apart.
CandidatesOfAnyClass == pq

\* slab_class_to_drop[gc_class], and its back(): the lightest.
Candidates == {d \in pq : slab[d].cid = gc_class}
Backs == {d \in Candidates : \A e \in Candidates : weight[d] <= weight[e]}

\* Mutant: what the batch already holds is not counted.
FitsAlone(d) == slab[d].nr_used <= NrSlots(gc_class)

FitsBatch(d) == slab[d].nr_used + nr_slots_moved <= NrSlots(gc_class)

AddToBatch ==
    /\ gc_pc = "batch" /\ gc_class < NrSlabClass
    /\ \E d \in Backs :
          /\ FitsBatch(d)
          /\ pq' = pq \ {d}
          /\ to_drop' = to_drop \cup {d}
          /\ nr_slots_moved' = nr_slots_moved + slab[d].nr_used
    /\ UNCHANGED <<gc_pc, gc_nr_free, quickVars, todo, weight, gc_class, ops_slab,
                   gc_channel, tuneVars, free_list, next_ops_pool_remove_channel, cacheVars>>

\* No candidate is left or the next one does not fit.  A batch of one is not
\* worth an ops dslab; a larger one is collected if there is an ops dslab.
BatchEnds ==
    /\ gc_pc = "batch" /\ gc_class < NrSlabClass
    /\ Candidates = {} \/ \E d \in Backs : ~FitsBatch(d)
    /\ \/ /\ Cardinality(to_drop) > 1 /\ ops_pool_size > 0
          /\ gc_pc' = "take"
          /\ UNCHANGED <<gc_class, to_drop, nr_slots_moved>>
       \/ /\ Cardinality(to_drop) > 1 /\ ops_pool_size <= 0
          /\ gc_class' = NrSlabClass           \* goto tune_ops_pool_size
          /\ to_drop' = {} /\ nr_slots_moved' = 0
          /\ UNCHANGED gc_pc
       \/ /\ Cardinality(to_drop) <= 1
          /\ gc_class' = gc_class + 1
          /\ to_drop' = {} /\ nr_slots_moved' = 0
          /\ UNCHANGED gc_pc
    /\ UNCHANGED <<gc_nr_free, quickVars, todo, pq, weight, ops_slab, gc_channel,
                   tuneVars, free_list, next_ops_pool_remove_channel, cacheVars>>

\* gc_dslabs: nr_full_dslab_ counts the dslabs that leave dslab_full_ and not
\* the ops dslab that enters it.
TakeOpsDslab ==
    /\ gc_pc = "take"
    /\ \E d \in FoundFrom(next_ops_pool_remove_channel, ops_pool) :
          /\ ops_slab' = d
          /\ RemoveFromOps(d)
          /\ next_ops_pool_remove_channel' = NextChannel(ChannelOf[d])
          /\ dslab_full' = (dslab_full \cup {d}) \ to_drop
          /\ slab' = [slab EXCEPT ![d] = ResetHeader,
                                  ![gc_buffer] = [ResetHeader EXCEPT !.cid = gc_class]]
    /\ nr_full_dslab' = nr_full_dslab - Cardinality(to_drop)
    /\ free_list' = free_list \cup to_drop
    /\ todo' = to_drop
    /\ gc_pc' = "move"
    /\ UNCHANGED <<gc_nr_free, quickVars, to_drop, pq, weight, gc_class, nr_slots_moved,
                   gc_channel, tuneVars, data, index_table, mslabVars, dslab_free,
                   nr_free_dslab, markVars, destroyer>>

\* Mutant: every dslab is copied to the start of the buffer.
NewSlotFromZero(d, g) ==
    Cardinality({h \in LiveDigests(d) : index_table[h].slot < index_table[g].slot})

\* The slots of gc_buffer_ that the valid objects of d are copied to, in slot order.
NewSlot(d, g) ==
    slab[gc_buffer].nr_alloc +
    Cardinality({h \in LiveDigests(d) : index_table[h].slot < index_table[g].slot})

MoveObjects ==
    /\ gc_pc = "move"
    /\ \E d \in todo :
          LET live == LiveDigests(d)
              n == Cardinality(live) IN
          /\ data' = [data EXCEPT ![gc_buffer] = [i \in SlotIds |->
                IF \E g \in live : NewSlot(d, g) = i
                THEN data[d][index_table[CHOOSE g \in live : NewSlot(d, g) = i].slot]
                ELSE data[gc_buffer][i]]]
          /\ index_table' = [g \in Digests |->
                IF g \in live THEN [slab |-> gc_buffer, slot |-> NewSlot(d, g)]
                ELSE index_table[g]]
          /\ slab' = [slab EXCEPT ![gc_buffer].nr_alloc = @ + n,
                                  ![gc_buffer].nr_used = @ + n,
                                  ![d].nr_used = 0]
          /\ todo' = todo \ {d}
    /\ UNCHANGED <<gc_pc, gc_nr_free, quickVars, to_drop, batchVars, gc_channel, tuneVars,
                   free_list, next_ops_pool_remove_channel,
                   mslabVars, dslabVars, markVars, destroyer>>

WriteGcBuffer ==
    /\ gc_pc = "move" /\ todo = {}
    /\ flush_mslab_to_dslab(gc_buffer, ops_slab)
    /\ gc_pc' = "index"
    /\ UNCHANGED <<gc_nr_free, quickVars, to_drop, todo, batchVars, gc_channel,
                   tuneVars, free_list, next_ops_pool_remove_channel,
                   index_table, mslabVars, dslabVars, markVars, destroyer>>

MoveIndexToOpsDslab ==
    /\ gc_pc = "index"
    /\ modify_index_to(gc_buffer, ops_slab)
    /\ ops_slab' = None /\ to_drop' = {} /\ nr_slots_moved' = 0
    /\ gc_class' = gc_class + 1
    /\ gc_pc' = "batch"
    /\ UNCHANGED <<gc_nr_free, quickVars, todo, pq, weight, gc_channel,
                   tuneVars, free_list, next_ops_pool_remove_channel,
                   data, mslabVars, dslabVars, markVars, destroyer>>

-----------------------------------------------------------------------------
(* normal_gc from tune_ops_pool_size on *)

TuneMarks ==
    /\ gc_pc = "batch" /\ gc_class = NrSlabClass
    /\ IF nr_free_dslab > water_mark_high
       THEN /\ water_mark_low' = NormalLow(water_mark_low, LowMin, MarkStep)
            /\ water_mark_high' = NormalHigh(water_mark_high, water_mark_low', MarkStep)
            /\ new_ops_size' = MaxOf(OpsFloor, old_ops_size - 1)
       ELSE new_ops_size' = old_ops_size /\ UNCHANGED markVars
    /\ pq' = {} /\ weight' = NoWeight /\ gc_class' = 0 /\ nr_slots_moved' = 0
    /\ gc_pc' = "refill"
    /\ UNCHANGED <<gc_nr_free, quickVars, to_drop, todo, ops_slab, gc_channel, old_ops_size,
                   free_list, next_ops_pool_remove_channel,
                   slab, data, index_table, mslabVars, dslabVars, destroyer>>

\* One iteration: channel gc_channel gives a reclaimed dslab, if it has one.
\* Mutant: it looks at one channel only.
RefillFromOneChannel ==
    /\ gc_pc = "refill" /\ ops_pool_size < old_ops_size
    /\ UNCHANGED gc_channel
    /\ \/ /\ InChannel(free_list, gc_channel) = {}
          /\ UNCHANGED <<free_list, slab, ops_pool, ops_pool_size>>
       \/ \E d \in InChannel(free_list, gc_channel) :
          /\ free_list' = free_list \ {d}
          /\ slab' = [slab EXCEPT ![d] = ResetHeader]
          /\ AddToOps({d})
    /\ UNCHANGED <<gc_pc, gc_nr_free, quickVars, to_drop, todo, batchVars, tuneVars,
                   next_ops_pool_remove_channel, data, index_table, mslabVars, dslab_free,
                   dslab_full, nr_free_dslab, nr_full_dslab, markVars, destroyer>>

RefillOps ==
    /\ gc_pc = "refill" /\ ops_pool_size < old_ops_size
    /\ gc_channel' = NextChannel(gc_channel)
    /\ \/ /\ InChannel(free_list, gc_channel) = {}
          /\ UNCHANGED <<free_list, slab, ops_pool, ops_pool_size>>
       \/ \E d \in InChannel(free_list, gc_channel) :
          /\ free_list' = free_list \ {d}
          /\ slab' = [slab EXCEPT ![d] = ResetHeader]
          /\ AddToOps({d})
    /\ UNCHANGED <<gc_pc, gc_nr_free, quickVars, to_drop, todo, batchVars, tuneVars,
                   next_ops_pool_remove_channel, data, index_table, mslabVars, dslab_free,
                   dslab_full, nr_free_dslab, nr_full_dslab, markVars, destroyer>>

\* nr_to_drop is here the shrink loop's count.
RefillDone ==
    /\ gc_pc = "refill" /\ ops_pool_size >= old_ops_size
    /\ nr_to_drop' = ops_pool_size - new_ops_size
    /\ gc_channel' = 0 /\ old_ops_size' = 0 /\ new_ops_size' = 0
    /\ gc_pc' = "to_free"
    /\ UNCHANGED <<gc_nr_free, nr_back_to_ops, to_drop, todo, batchVars,
                   free_list, next_ops_pool_remove_channel, cacheVars>>

ShrinkOps ==
    LET c == NextChannel(next_ops_pool_remove_channel) IN
    /\ gc_pc = "to_free" /\ nr_to_drop > 0
    /\ nr_to_drop' = nr_to_drop - 1
    /\ next_ops_pool_remove_channel' = c
    /\ \/ /\ InChannel(ops_pool, c) = {}
          /\ UNCHANGED <<free_list, slab, ops_pool, ops_pool_size>>
       \/ \E d \in InChannel(ops_pool, c) :
          /\ free_list' = free_list \cup {d}
          /\ slab' = [slab EXCEPT ![d] = ResetHeader]
          /\ RemoveFromOps(d)
    /\ UNCHANGED <<gc_pc, gc_nr_free, nr_back_to_ops, to_drop, todo, batchVars, gc_channel,
                   tuneVars, data, index_table, mslabVars, dslab_free, dslab_full,
                   nr_free_dslab, nr_full_dslab, markVars, destroyer>>

\* Last step of either round, under dslab_free_mutex_.
ReclaimToFree ==
    /\ gc_pc = "to_free" /\ nr_to_drop <= 0
    /\ slab' = [s \in Slabs |-> IF s \in free_list THEN ResetHeader ELSE slab[s]]
    /\ dslab_free' = dslab_free \cup free_list
    /\ nr_free_dslab' = nr_free_dslab + Cardinality(free_list)
    /\ free_list' = {} /\ nr_to_drop' = 0
    /\ gc_pc' = "wait"
    /\ UNCHANGED <<gc_nr_free, nr_back_to_ops, to_drop, todo, batchVars, gc_channel, tuneVars,
                   next_ops_pool_remove_channel, data, index_table, mslabVars, dslab_full,
                   ops_pool, nr_full_dslab, ops_pool_size, markVars, destroyer>>

QuickGcNext == quick_gc \/ SelectDslab \/ SelectionDone \/ evict_dslab \/ ReclaimToOps
NormalGcNext == \/ CollectChannel \/ DrainQueue \/ AddToBatch \/ BatchEnds
                \/ TakeOpsDslab \/ MoveObjects \/ WriteGcBuffer \/ MoveIndexToOpsDslab
                \/ TuneMarks \/ RefillOps \/ RefillDone \/ ShrinkOps
GcNext == \/ GcExit \/ GcWakes \/ ChooseDropOne \/ ChooseQuickGc \/ ChooseNormalGc
          \/ QuickGcNext \/ NormalGcNext \/ ReclaimToFree
=============================================================================
