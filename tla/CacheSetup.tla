----------------------------- MODULE CacheSetup -----------------------------
(***************************************************************************)
(* What the constructor of KVCache computes from the geometry of its SSD   *)
(* and from its Options: the water marks, the slab classes, the pools of   *)
(* dslabs, the mslabs and the number of index entries.  CacheState takes   *)
(* these as CONSTANTS with assumptions; here they are results.             *)
(*                                                                         *)
(* Sizes are in bytes.  The ratios of Options are floats; a ratio is given *)
(* in per cent, and the int a product with it is cut to may be one too low *)
(* where the exact product is an integer.  (Of up to some 80 000 blocks:   *)
(* there the error of the float is below a hundredth.)                     *)
(***************************************************************************)
EXTENDS Ssd, FiniteSetsExt, WaterMarks

SlabHeaderSize == 44    \* Slab::header_size()
SlotHeaderSize == 8     \* Slot::header_size()
IndexEntrySize == 48    \* sizeof(IndexEntry)
MinKVSize == 32
kMaxNumSlabClass == 50

Truncated(percent, n) ==
    LET q == (percent * n) \div 100 IN
    IF (percent * n) % 100 = 0 /\ q > 0 THEN {q - 1, q} ELSE {q}

-----------------------------------------------------------------------------
(***************************************************************************)
(* default_slab_class_size: sizes double from the smallest object's slot   *)
(* to the largest slot that fits a slab.  The loop ends after it has       *)
(* written a size that follows the largest one, which is not counted.      *)
(* The double is cast to int; one that does not fit is undefined: INT_MIN  *)
(* on x86-64, INT_MAX where the conversion saturates.                      *)
(***************************************************************************)
MaxSlotSize(slab_size) == slab_size - SlabHeaderSize

CastOverflows == {-IntLimit, IntLimit - 1}

IntCast(x, over) == IF -IntLimit <= x /\ x < IntLimit THEN x ELSE over

CurrSize(slab_size, over) ==
    LET size[i \in 0..kMaxNumSlabClass] ==
            IF i = 0 THEN MinKVSize + SlotHeaderSize
            ELSE MinOf(IntCast(2 * size[i - 1], over), MaxSlotSize(slab_size))
    IN  size

\* Mutant: the last size written is counted.
NrDefaultClassesCountsLast(slab_size, over) ==
    Min({i \in 2..(kMaxNumSlabClass - 1) :
            CurrSize(slab_size, over)[i - 1] >= MaxSlotSize(slab_size)} \cup {kMaxNumSlabClass}) + 1

NrDefaultClasses(slab_size, over) ==
    Min({i \in 2..(kMaxNumSlabClass - 1) :
            CurrSize(slab_size, over)[i - 1] >= MaxSlotSize(slab_size)} \cup {kMaxNumSlabClass})

default_slab_class_size(slab_size, over) ==
    [i \in 1..NrDefaultClasses(slab_size, over) |-> CurrSize(slab_size, over)[i - 1]]

\* A class table given in the options, or a default one.
ClassTables(g, o) ==
    IF o.slab_class_size = <<>>
    THEN {default_slab_class_size(g.block_size, over) : over \in CastOverflows}
    ELSE {o.slab_class_size}

\* get_slab_class on a sorted table of positive sizes, and the size MaxKVSize() promises.
ClassesFor(sizes, size) == {i \in DOMAIN sizes : sizes[i] >= size}
MaxKVSize(sizes) == sizes[Len(sizes)] - SlotHeaderSize

\* Objects a slab holds, and the slots_per_slab index_init counts with.  No block
\* is as large as a slot of INT_MIN bytes.
SlotsOf(g, size) == IF size > 0 THEN (g.block_size - SlabHeaderSize) \div size ELSE 0
SlotsPerSlab(g, size) == IF size > 0 THEN g.block_size \div size ELSE 0

-----------------------------------------------------------------------------
\* The four water marks.
Marks(g, o) ==
    {LET low_min == MaxOf(1, lm)  high_max == MaxOf(low_min + 10, hm) IN
     [low_min |-> low_min, high_max |-> high_max,
      low |-> MaxOf(low_min, l), high |-> MinOf(high_max, h)] :
        lm \in Truncated(o.low_min, g.nr_blocks), hm \in Truncated(o.high_max, g.nr_blocks),
        l \in Truncated(o.low, g.nr_blocks), h \in Truncated(o.high, g.nr_blocks)}

\* slab_init.  The last mslab is gc_buffer_; `i < nr_mslab_ - 1' compares
\* size_t with int, so without an mslab it holds of every slab id.
NrMslab(g, o) == o.slab_mem_budget \div g.block_size

\* Mutant: gc_buffer_ is on the list too.
MslabFreeWithGcBuffer(g, o) == 0..(NrMslab(g, o) - 1)

MslabFree(g, o) ==
    {i \in 0..(NrMslab(g, o) + g.nr_blocks - 1) :
        NrMslab(g, o) = 0 \/ i < NrMslab(g, o) - 1}

\* Each block found becomes the next dslab.  The first ops_size of a channel
\* go to its ops pool, the others to its free list.
BlocksOfChannel(g, found, c) == {b \in found : b[2] \div g.blocks_per_channel = c}

Pools(g, ops_size, found) ==
    [c \in 0..(g.nr_channels - 1) |->
        LET n == Cardinality(BlocksOfChannel(g, found, c)) IN
        [ops |-> MinOf(ops_size, n), free |-> n - MinOf(ops_size, n)]]

\* index_init: entries for one slab of every class, or it throws.
NrIndexEntries(o) == o.index_mem_budget \div IndexEntrySize

MinIndexEntries(g, sizes) == MapThenSumSet(LAMBDA i : SlotsPerSlab(g, sizes[i]), DOMAIN sizes)

IndexLargeEnough(g, o, sizes) == NrIndexEntries(o) >= MinIndexEntries(g, sizes)

\* The caches the constructor may build on an SSD of geometry g with the class table
\* `sizes', having found the blocks `found'.
Setups(g, o, sizes, found) ==
    {[geometry |-> g, options |-> o, found |-> found, marks |-> m,
      sizes |-> sizes, nr_mslab |-> NrMslab(g, o),
      mslab_free |-> MslabFree(g, o), ops_size |-> ops_size,
      pools |-> Pools(g, ops_size, found), nr_index_entry |-> NrIndexEntries(o)] :
        m \in Marks(g, o), ops_size \in Truncated(o.ops_rate, g.blocks_per_channel)}
=============================================================================
