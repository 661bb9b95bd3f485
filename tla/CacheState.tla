----------------------------- MODULE CacheState -----------------------------
(***************************************************************************)
(* The state of a KVCache object that its threads share: the slabs in      *)
(* memory and on the SSD, the index that maps a key's digest to a slot,    *)
(* the lists the slabs wait on and the counters kept beside the lists.     *)
(*                                                                         *)
(* A slab is in memory (an mslab, or the collector's gc_buffer) or is one  *)
(* block of the SSD (a dslab).  struct Slab is the same header for both:   *)
(* slab[s] is the header of s and data[s] its slots, the mmap'ed bytes of  *)
(* an mslab or the contents of the SSD block of a dslab.  slot_size and    *)
(* nr_slots are functions of cid and are not stored.                       *)
(*                                                                         *)
(* The intrusive lists are LIFO.  The model keeps the set of members and   *)
(* lets any member be the first entry.  The per-channel lists dslab_free_, *)
(* dslab_full_ and ops_pool_ are one set each: a dslab is always on the    *)
(* list of its own channel.                                                *)
(***************************************************************************)
EXTENDS Integers, FiniteSets, FiniteSetsExt, WaterMarks

CONSTANTS
    Keys, Values,   \* what clients store
    Digests,        \* index buckets and SHA-1 digests, as one identity
    DigestOf,       \* [Keys -> Digests]
    KVSize,         \* [Keys -> [Values -> Nat]]: slot_size(key, value)
    NrSlabClass,    \* number of slab classes
    SlotSize,       \* [0..NrSlabClass-1 -> Nat], increasing
    SlabBytes,      \* slab_size_ - Slab::header_size()
    MSlabs,         \* mslabs that hold client data
    gc_buffer,      \* the last mslab, private to the collector
    DSlabs,         \* dslabs, one per SSD block
    NrChannels,     \* number of SSD channels
    ChannelOf,      \* [DSlabs -> 0..NrChannels-1]
    OpsPerChannel,  \* ops_rate * blocks_per_channel
    NrIndexEntry,   \* index_mem_budget / sizeof(IndexEntry)
    LowInit, HighInit, LowMin, HighMax,  \* water marks set by the constructor
    None            \* no index entry, no slab, bytes that are no slot

NoClass == -1
Classes == 0..(NrSlabClass - 1)
MemSlabs == MSlabs \cup {gc_buffer}
Slabs == MemSlabs \cup DSlabs
Channels == 0..(NrChannels - 1)

\* Slots a slab of class c holds; a reset slab (cid = -1) holds none.
NrSlots(c) == IF c = NoClass THEN 0 ELSE SlabBytes \div SlotSize[c]
SlotIds == 0..((SlabBytes \div SlotSize[0]) - 1)

Slot == [key : Keys, value : Values]
IndexEntry == [slab : Slabs, slot : Nat]
SlabHeader == [cid : Classes \cup {NoClass}, nr_alloc : Nat, nr_used : Int]

\* max_ops_pool_size_: the size of the ops pool slab_init builds.
MaxOpsPoolSize == NrChannels * OpsPerChannel

InChannel(pool, c) == {d \in pool : ChannelOf[d] = c}

(***************************************************************************)
(* What the constructor makes sure of (index_init's check included: entries *)
(* for one full slab of every class), and what it silently relies on: an   *)
(* mslab for every slab class, at least one ops dslab.                     *)
(***************************************************************************)
ASSUME ConstantsAssumption ==
    /\ IsFiniteSet(Digests)
    /\ DigestOf \in [Keys -> Digests]
    /\ KVSize \in [Keys -> [Values -> Nat]]
    /\ NrSlabClass \in Nat \ {0}
    /\ SlabBytes \in Nat
    /\ SlotSize \in [Classes -> 1..SlabBytes]
    /\ \A b, c \in Classes : b < c => SlotSize[b] < SlotSize[c]
    /\ NrIndexEntry \in Nat
    /\ NrIndexEntry >= MapThenSumSet(NrSlots, Classes)

ASSUME SlabsAssumption ==
    /\ IsFiniteSet(MSlabs) /\ IsFiniteSet(DSlabs)
    /\ gc_buffer \notin MSlabs
    /\ MemSlabs \cap DSlabs = {}
    /\ Cardinality(MSlabs) >= NrSlabClass
    /\ NrChannels \in Nat \ {0}
    /\ ChannelOf \in [DSlabs -> Channels]
    /\ OpsPerChannel \in Nat \ {0}
    /\ \A c \in Channels : OpsPerChannel <= Cardinality(InChannel(DSlabs, c))

ASSUME MarksAssumption ==
    /\ LowMin \in Nat \ {0} /\ LowInit \in Nat /\ HighInit \in Nat /\ HighMax \in Nat
    /\ LowMin <= LowInit /\ HighInit <= HighMax /\ LowMin + 10 <= HighMax

ASSUME NoneAssumption ==
    /\ None \notin Slabs
    /\ None \notin Slot
    /\ None \notin IndexEntry

VARIABLES
    slab,           \* [Slabs -> SlabHeader]
    data,           \* [Slabs -> [SlotIds -> Slot \cup {None}]]
    index_table,    \* [Digests -> IndexEntry \cup {None}]
    slab_partial,   \* [Classes -> SUBSET MSlabs]: each class's slab being filled
    mslab_free, mslab_full,           \* lists of mslabs
    dslab_free, dslab_full, ops_pool, \* lists of dslabs
    nr_free_dslab, nr_full_dslab, ops_pool_size,
    water_mark_low, water_mark_high,
    destroyer       \* ~KVCache: "none", "joining" the threads, or "done"

mslabVars == <<slab_partial, mslab_free, mslab_full>>
dslabVars == <<dslab_free, dslab_full, ops_pool,
               nr_free_dslab, nr_full_dslab, ops_pool_size>>
markVars == <<water_mark_low, water_mark_high>>
cacheVars == <<slab, data, index_table, mslabVars, dslabVars, markVars, destroyer>>

CacheTypeOK ==
    /\ slab \in [Slabs -> SlabHeader]
    /\ data \in [Slabs -> [SlotIds -> Slot \cup {None}]]
    /\ index_table \in [Digests -> IndexEntry \cup {None}]
    /\ slab_partial \in [Classes -> SUBSET MSlabs]
    /\ mslab_free \in SUBSET MSlabs /\ mslab_full \in SUBSET MSlabs
    /\ dslab_free \in SUBSET DSlabs /\ dslab_full \in SUBSET DSlabs
    /\ ops_pool \in SUBSET DSlabs
    /\ nr_free_dslab \in Int /\ nr_full_dslab \in Int /\ ops_pool_size \in Int
    /\ water_mark_low \in Int /\ water_mark_high \in Int
    /\ destroyer \in {"none", "joining", "done"}

ResetHeader == [cid |-> NoClass, nr_alloc |-> 0, nr_used |-> 0]

\* Slab::slot_alloc and Slab::is_full, on a header.  Mutant: an allocation
\* that is not counted as used.
AllocatedUncounted(h) == [h EXCEPT !.nr_alloc = @ + 1]

Allocated(h) == [h EXCEPT !.nr_alloc = @ + 1, !.nr_used = @ + 1]

is_full(h) == h.nr_alloc = NrSlots(h.cid)

(***************************************************************************)
(* The constructor: slab_init puts the first OpsPerChannel blocks of every *)
(* channel into the ops pool and the others on dslab_free_, and every      *)
(* mslab but the last on mslab_free_.                                      *)
(***************************************************************************)
CacheInit ==
    /\ slab = [s \in Slabs |-> ResetHeader]
    /\ data = [s \in Slabs |-> [i \in SlotIds |-> None]]
    /\ index_table = [g \in Digests |-> None]
    /\ slab_partial = [c \in Classes |-> {}]
    /\ mslab_free = MSlabs /\ mslab_full = {}
    /\ ops_pool \in {P \in SUBSET DSlabs :
            \A c \in Channels : Cardinality(InChannel(P, c)) = OpsPerChannel}
    /\ dslab_free = DSlabs \ ops_pool /\ dslab_full = {}
    /\ ops_pool_size = Cardinality(ops_pool)
    /\ nr_free_dslab = Cardinality(dslab_free) /\ nr_full_dslab = 0
    /\ water_mark_low = LowInit /\ water_mark_high = HighInit
    /\ destroyer = "none"

shutdown == destroyer # "none"

-----------------------------------------------------------------------------
(***************************************************************************)
(* The index.  index_mutex_ is held over each use below, so each is part   *)
(* of one step.                                                            *)
(***************************************************************************)
nr_free_index_entry ==
    NrIndexEntry - Cardinality({g \in Digests : index_table[g] # None})

\* The digests of the keys in the slots of s that for_each_slot visits.
SlotDigests(s) ==
    {DigestOf[data[s][i].key] : i \in {j \in SlotIds : j < slab[s].nr_alloc}}

\* Mutant: the loop over the slots stops one short of the end.
LiveDigestsButLast(s) ==
    {g \in Digests :
        /\ index_table[g] # None
        /\ index_table[g].slab = s
        /\ index_table[g].slot + 1 < slab[s].nr_alloc
        /\ DigestOf[data[s][index_table[g].slot].key] = g}

\* The digests whose entry is the very slot of s that holds a key with that
\* digest: the valid objects of s.
LiveDigests(s) ==
    {g \in Digests :
        /\ index_table[g] # None
        /\ index_table[g].slab = s
        /\ index_table[g].slot \in SlotIds
        /\ index_table[g].slot < slab[s].nr_alloc
        /\ DigestOf[data[s][index_table[g].slot].key] = g}

\* Mutants: not looking at whether a slot is stale; comparing the entry with
\* the wrong slab, so that nothing moves.
ModifyIndexByKey(src, dst) ==
    /\ index_table' = [g \in Digests |->
            IF g \in SlotDigests(src) /\ index_table[g] # None
            THEN [index_table[g] EXCEPT !.slab = dst] ELSE index_table[g]]
    /\ slab' = [slab EXCEPT ![src].nr_used = 0,
                            ![dst].nr_used = Cardinality(LiveDigests(src))]

ModifyIndexSwapped(src, dst) ==
    /\ index_table' = [g \in Digests |->
            IF g \in LiveDigests(dst)
            THEN [index_table[g] EXCEPT !.slab = dst] ELSE index_table[g]]
    /\ slab' = [slab EXCEPT ![src].nr_used = 0,
                            ![dst].nr_used = Cardinality(LiveDigests(dst))]

\* The valid objects of src are now found in dst, in the same slots.
modify_index_to(src, dst) ==
    /\ index_table' = [g \in Digests |->
            IF g \in LiveDigests(src)
            THEN [index_table[g] EXCEPT !.slab = dst] ELSE index_table[g]]
    /\ slab' = [slab EXCEPT ![src].nr_used = 0,
                            ![dst].nr_used = Cardinality(LiveDigests(src))]

\* write_block of the image of src to the block of dst, then the header.
flush_mslab_to_dslab(src, dst) ==
    /\ data' = [data EXCEPT ![dst] = data[src]]
    /\ slab' = [slab EXCEPT ![dst] = slab[src]]

-----------------------------------------------------------------------------
(***************************************************************************)
(* Channels are visited round robin.  d is what the scan that starts at    *)
(* channel c finds: a member of the first channel, from c on, that has one. *)
(***************************************************************************)
NextChannelNoWrap(c) == c + 1   \* mutant

NextChannel(c) == (c + 1) % NrChannels

Distance(c, d) == (ChannelOf[d] - c + NrChannels) % NrChannels

FoundFrom(c, pool) ==
    {d \in pool : \A e \in pool : Distance(c, d) <= Distance(c, e)}

=============================================================================
