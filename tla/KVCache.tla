------------------------------ MODULE KVCache -------------------------------
(***************************************************************************)
(* A KVCache object with background flush and background GC (the default   *)
(* options): client threads, the flush thread, the GC thread and the       *)
(* destructor, interleaved over the state of CacheState.                   *)
(***************************************************************************)
EXTENDS ClientOps, SlabFlush, SlabGC

CONSTANT AllowShutdown  \* whether the behaviours include the destructor

vars == <<cacheVars, clientVars, flushVars, gcVars>>

Init == CacheInit /\ ClientInit /\ FlushInit /\ GcInit

\* ~KVCache raises shutdown_ and then joins the flush and the GC thread.
BeginShutdown ==
    /\ AllowShutdown /\ destroyer = "none"
    /\ destroyer' = "joining"
    /\ UNCHANGED <<slab, data, index_table, mslabVars, dslabVars, markVars>>

JoinThreads ==
    /\ destroyer = "joining" /\ flush_pc = "exit" /\ gc_pc = "exit"
    /\ destroyer' = "done"
    /\ UNCHANGED <<slab, data, index_table, mslabVars, dslabVars, markVars>>

ClientStep == ClientNext /\ UNCHANGED <<flushVars, gcVars>>
FlushStep == FlushNext(DslabFullLocked) /\ UNCHANGED <<clientVars, gcVars>>
GcStep == GcNext /\ UNCHANGED <<clientVars, flushVars>>
DestroyStep == (BeginShutdown \/ JoinThreads) /\ UNCHANGED <<clientVars, flushVars, gcVars>>

Next == ClientStep \/ FlushStep \/ GcStep \/ DestroyStep

Spec == Init /\ [][Next]_vars

\* The GC thread takes its next step when it stays possible.
FairSpec == Spec /\ WF_vars(GcStep)

-----------------------------------------------------------------------------
TypeOK == CacheTypeOK /\ ClientTypeOK /\ FlushTypeOK /\ GcTypeOK

(***************************************************************************)
(* Every index entry names a slot that its slab has allocated and that     *)
(* holds a key with the entry's digest, in a slab that nobody may hand     *)
(* out: neither a free list nor the ops pool has it, and the dslab being   *)
(* written has no entry yet.  (get_slice asserts the first half, and Get,  *)
(* GC and flush all read the slot an entry names without further check.)   *)
(***************************************************************************)
IndexSound ==
    \A g \in Digests : index_table[g] # None =>
        LET e == index_table[g] IN
        /\ e.slot \in SlotIds /\ e.slot < slab[e.slab].nr_alloc
        /\ data[e.slab][e.slot] # None
        /\ DigestOf[data[e.slab][e.slot].key] = g
        /\ e.slab \notin mslab_free \cup dslab_free \cup ops_pool
        /\ flush_pc \in {"pick", "wait_gc", "write"} => e.slab # flush_dslab
        /\ gc_pc = "move" => e.slab # ops_slab

EntriesOf(s) == {g \in Digests : index_table[g] # None /\ index_table[g].slab = s}

(***************************************************************************)
(* nr_used of a slab is never less than the number of index entries that   *)
(* name it, the slot a Put has allocated but not yet indexed included.     *)
(* The decrements of Put and Delete assert that it stays non-negative, and *)
(* normal GC sizes a batch by it.                                          *)
(***************************************************************************)
NrUsedCoversEntries ==
    \A s \in Slabs :
        slab[s].nr_used >= Cardinality(EntriesOf(s)) +
            (IF put_pc \in {"index", "wait_index"} /\ put_slot.slab = s THEN 1 ELSE 0)

(***************************************************************************)
(* The valid objects of a batch fit gc_buffer_: slot_alloc never runs past *)
(* the end of a slab, for client slabs and for the collector's buffer.     *)
(***************************************************************************)
NoSlabOverrun == \A s \in Slabs : slab[s].nr_alloc <= NrSlots(slab[s].cid)

(***************************************************************************)
(* Every object lies within its slot: an object in a slab of some class is *)
(* no larger than a slot of that class, in client slabs, in gc_buffer_ and *)
(* on the SSD.  (Slot::Write copies without looking at the slot's size.)   *)
(***************************************************************************)
ObjectsFitSlots ==
    \A s \in Slabs : \A i \in {j \in SlotIds : j < slab[s].nr_alloc} :
        LET kv == data[s][i] IN KVSize[kv.key][kv.value] <= SlotSize[slab[s].cid]

(***************************************************************************)
(* No slab is in two hands.  An mslab is on one list, or being filled, or  *)
(* held by the Put that filled it, or held by the flush thread; a dslab is *)
(* on one list or held by one thread.                                      *)
(***************************************************************************)
Partial == {m \in MSlabs : \E c \in Classes : m \in slab_partial[c]}

PutHasSlot == put_pc \in {"index", "wait_index", "finish"}

PutHolds == IF PutHasSlot /\ put_slot.slab \notin Partial THEN {put_slot.slab} ELSE {}

GcHolds == free_list \cup (IF gc_pc \in {"select", "evict"} THEN to_drop ELSE {})

Disjoint(A, B, C, D, E) ==
    /\ A \cap B = {} /\ A \cap C = {} /\ A \cap D = {} /\ A \cap E = {}
    /\ B \cap C = {} /\ B \cap D = {} /\ B \cap E = {}
    /\ C \cap D = {} /\ C \cap E = {}
    /\ D \cap E = {}

MslabHands ==
    /\ \A b, c \in Classes : b # c => slab_partial[b] \cap slab_partial[c] = {}
    /\ Disjoint(mslab_free, mslab_full, Partial, PutHolds, {flush_mslab} \ {None})

DslabHands == Disjoint(dslab_free, dslab_full, ops_pool, GcHolds, {flush_dslab} \ {None})

OneHand == MslabHands /\ DslabHands

(***************************************************************************)
(* No mslab is lost: one of the hands has it.                              *)
(***************************************************************************)
NoMslabLost == MSlabs \subseteq mslab_free \cup mslab_full \cup Partial \cup PutHolds
                                 \cup {flush_mslab}

(***************************************************************************)
(* A Put that waits for a free mslab has somebody to wait for: an mslab is *)
(* full or the flush thread holds one.  No more mslabs can be stuck half   *)
(* full than there are other classes, so this rests on an mslab per class, *)
(* which nothing in the code makes sure of (SlabsAssumption).              *)
(***************************************************************************)
FlushWaitHasHelper ==
    (put_pc = "wait_flush" /\ mslab_free = {}) => mslab_full # {} \/ flush_mslab # None

(***************************************************************************)
(* What the threads hold at each place of their programs: with TypeOK,     *)
(* OneHand and NoMslabLost, an inductive invariant.                        *)
(***************************************************************************)
PutHolding ==
    /\ PutHasSlot => put_slot # None
    /\ PutHasSlot => (is_full(slab[put_slot.slab]) <=> put_slot.slab \notin Partial)

FlushHolding ==
    /\ flush_pc \in {"pick", "wait_gc", "write", "index", "recycle"} => flush_mslab # None
    /\ flush_pc \in {"write", "index", "recycle", "publish"} => flush_dslab # None
    /\ flush_pc \in {"wait", "publish"} => flush_mslab = None

GcHolding ==
    /\ pq \subseteq dslab_full /\ pq \cap to_drop = {}
    /\ gc_pc \notin {"collect", "batch", "take", "move", "index"} => pq = {}
    /\ gc_pc \in {"batch", "take"} => to_drop \subseteq dslab_full
    /\ gc_pc \in {"wait", "choose", "tune", "collect", "refill", "to_free", "exit"} =>
           to_drop = {}
    /\ gc_pc = "batch" /\ gc_class = NrSlabClass => to_drop = {}
    /\ gc_pc = "take" => gc_class < NrSlabClass
    /\ gc_pc \in {"move", "index"} => ops_slab # None

Ownership == TypeOK /\ OneHand /\ NoMslabLost /\ PutHolding /\ FlushHolding /\ GcHolding

(***************************************************************************)
(* The counters that threads wait on and size their work by: nr_free_dslab_ *)
(* and ops_pool_size_ are the lengths of their lists, the ops pool is      *)
(* neither empty (do_quick_gc asserts it) nor larger than at the start.    *)
(***************************************************************************)
CountersExact ==
    /\ nr_free_dslab = Cardinality(dslab_free)
    /\ ops_pool_size = Cardinality(ops_pool)
    /\ ops_pool_size <= MaxOpsPoolSize
    /\ gc_pc \in {"wait", "select"} => ops_pool_size > 0

(***************************************************************************)
(* The low mark never falls below its minimum ("the minimum ratio of free  *)
(* blocks") and the high mark stays a tenth above it, however quick and    *)
(* normal rounds alternate, if the marks begin so and the minimum is       *)
(* neither 1 (fewer than 100 blocks by default) nor above the caps that    *)
(* quick_gc puts on the low mark.  With a minimum of 1 the marks can meet  *)
(* at 1, and 0.9 of 1 is no mark at all.                                   *)
(***************************************************************************)
MarksScale ==
    /\ 2 <= LowMin /\ LowMin <= MaxOpsPoolSize /\ 10 * LowMin <= 9 * HighMax
    /\ LowInit <= MaxOpsPoolSize /\ (11 * LowInit) \div 10 <= HighInit

MarksInOrder ==
    MarksScale => /\ LowMin <= water_mark_low /\ water_mark_low <= MaxOpsPoolSize
                  /\ (11 * water_mark_low) \div 10 <= water_mark_high

(***************************************************************************)
(* The selection loop, which spins under dslab_full_mutex_ until it has    *)
(* all the dslabs asked for, is never asked for more than are full.  Every *)
(* quick round loses a block (NoDslabLost), and this holds as long as the  *)
(* blocks that remain are 2.3 times the ops pool.                          *)
(***************************************************************************)
LostDslabs ==
    DSlabs \ (dslab_free \cup dslab_full \cup ops_pool \cup GcHolds \cup {flush_dslab})

SelectionCovered ==
    (gc_pc = "select" /\ MarksScale
        /\ 23 * MaxOpsPoolSize + 10 <= 10 * Cardinality(DSlabs \ LostDslabs))
    => nr_to_drop <= Cardinality(dslab_full)

-----------------------------------------------------------------------------
(***************************************************************************)
(* The cache implements LossyMap: the value of a key is the one in the     *)
(* slot its index entry names, and a Put takes effect when it changes the  *)
(* index.                                                                  *)
(***************************************************************************)
AbstractMap == [k \in Keys |-> IF Lookup(k) = None THEN None ELSE Lookup(k).value]

AbstractPending ==
    IF put_pc \in {"alloc", "wait_flush", "index", "wait_index"} THEN put_arg ELSE None

LM == INSTANCE LossyMap WITH
        NoValue <- None, map <- AbstractMap, pending <- AbstractPending,
        closing <- shutdown

ImplementsLossyMap == LM!Spec

(***************************************************************************)
(* Flushing and normal GC move objects and lose none: a step of the flush  *)
(* thread, or of the GC thread outside quick GC, leaves every key its      *)
(* value.                                                                  *)
(***************************************************************************)
MovesKeepObjects ==
    [][(FlushStep \/ (GcStep /\ gc_pc # "evict")) => AbstractMap' = AbstractMap]_vars

(***************************************************************************)
(* A slot that an index entry names is not written: neither memory nor a   *)
(* block of the SSD is reused while a Get that holds index_mutex_ can find *)
(* it.  (get_slice reads the block under the shared lock and relies on it; *)
(* the flush and GC threads write blocks and buffers without the lock.)    *)
(***************************************************************************)
IndexedSlotsImmutable ==
    [][\A g \in Digests :
          (index_table[g] # None /\ index_table'[g] = index_table[g]) =>
             LET e == index_table[g] IN data'[e.slab][e.slot] = data[e.slab][e.slot]]_vars

-----------------------------------------------------------------------------
\* The selection loop is asked for more dslabs than are full.  It holds
\* dslab_full_mutex_, so none is added, and it spins for ever.
SelectionShort == gc_pc = "select" /\ nr_to_drop > Cardinality(dslab_full)

(***************************************************************************)
(* A Put that waits for a free mslab gets one, unless the flush thread in  *)
(* its turn waits for a free dslab or for the mutex of a selection that is *)
(* short, or the cache is shut down.                                       *)
(***************************************************************************)
FlushWaitEnds ==
    (put_pc = "wait_flush")
    ~> (put_pc # "wait_flush" \/ flush_pc = "wait_gc" \/ shutdown \/ SelectionShort)

(***************************************************************************)
(* A round of the collector ends, unless its selection is short of full    *)
(* dslabs.  The loop that refills the ops pool goes round the channels     *)
(* until it has put back as many dslabs as the round took, and the         *)
(* selection loop until it has all it was asked for: neither has another   *)
(* way out, and both depend on what the loops before them left on the      *)
(* lists of which channel.                                                 *)
(***************************************************************************)
RoundEnds == (gc_pc # "wait") ~> (gc_pc \in {"wait", "exit"} \/ SelectionShort)

-----------------------------------------------------------------------------
(* What comments and tests say of the code, and the code does not do.      *)

(***************************************************************************)
(* "GC thread will remove slab from dslab_full_ and add to dslab_free_":   *)
(* between two rounds of the collector every dslab is on a list or held by *)
(* the flush thread.                                                       *)
(***************************************************************************)
NoDslabLost ==
    gc_pc = "wait" =>
        DSlabs \subseteq dslab_free \cup dslab_full \cup ops_pool \cup {flush_dslab}

(***************************************************************************)
(* "Flush full mslabs and GC to release index entries": a Put that waits   *)
(* for an index entry has somebody to wait for.  When none is free, there  *)
(* is an mslab to flush or a thread at work, or the collector is woken by  *)
(* its count of full dslabs.                                               *)
(***************************************************************************)
IndexWaitHasHelper ==
    (put_pc = "wait_index" /\ nr_free_index_entry = 0 /\ ~shutdown) =>
        \/ mslab_full # {} \/ flush_pc # "wait"
        \/ gc_pc # "wait" \/ nr_full_dslab > 0

(***************************************************************************)
(* "Delete all index entries of the dslab": an eviction removes the index  *)
(* entries that name the evicted dslab, and no others.                     *)
(***************************************************************************)
EvictsOnlyItsOwn ==
    [][\A g \in Digests :
          (gc_pc = "evict" /\ todo' # todo /\ index_table[g] # None /\ index_table'[g] = None)
             => index_table[g].slab \in todo \ todo']_vars

(***************************************************************************)
(* "Value mismatch for key": a Get that finds its key returns the value it *)
(* has found.                                                              *)
(***************************************************************************)
GetReturnsFound == \A r \in Readers : reader[r].pc = "done" => reader[r].got = reader[r].found

(***************************************************************************)
(* "cache_.reset();", with which every test ends: the destructor returns.  *)
(* Both threads see shutdown_ and exit, whatever they were doing.          *)
(***************************************************************************)
ShutdownCompletes == shutdown ~> (destroyer = "done")
=============================================================================
