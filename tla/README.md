# A TLA+ model of KVCache

This directory specifies and verifies KVCache: a key-value cache on an SSD with
concurrent clients, a flush thread and a garbage collector (`src/kvcache.cpp`,
`include/kvcache.h`), the block store under it (`src/ssd.cpp`, `include/ssd.h`) and
the C interface above it (`src/kvcache_c_api.cpp`). `PROJECT.json` maps every
definition to its source lines and lists runs, mutants, findings, hazards and
theorems.

## 1. The system

| Component | State | Operations | Talks to |
|---|---|---|---|
| Slab storage | mslabs (memory), dslabs (one per SSD block), `mslab_free_`, `mslab_full_`, `slab_partial` of each class, per-channel `dslab_free_`, `dslab_full_`, `ops_pool_`, the counters `nr_free_dslab_`, `nr_full_dslab_`, `ops_pool_size_` | list moves, `Slab::slot_alloc`, `reset` | everybody; one mutex per list |
| Index | digest -> (slab, slot), a fixed number of entries | `get_/put_/del_index_entry`, `modify_index_to` | everybody, under `index_mutex_` |
| Put | the slot it has allocated | allocate a slot, write, index, hand a full slab over | waits for the flush thread (free mslab) and for the collector (free index entry) |
| Get | a view of the value | `get_slice` under the shared lock, copy after it | reads mslabs and blocks |
| Delete | | drop the entry, count one valid object less | index |
| Flush thread | one mslab and one dslab | full mslab -> free dslab, move the index, recycle | waits for Put and for the collector |
| GC thread | batch, priority queue, reclaimed dslabs, water marks | quick GC (drop dslabs), normal GC (merge the valid objects of several dslabs into one of the ops pool), tuning | waits for the flush thread, wakes it and Put |
| Condition variables | `flush_signal_`, `flush_finished_signal_`, `gc_signal_`, `gc_finished_signal_`, two thread-started flags, two options | `slab_flush`, `slab_gc`, the waits | all threads |
| Destructor | `shutdown_` | notify, join | both threads |
| Constructor, slab classes | class table, water marks, sizes of the pools | `slab_init`, `slab_class_init`, `index_init`, `default_slab_class_size` | SSD, options |
| SSD | metadata and blocks that survive the process; an open database or file | `create`, open, `read_block`, `write_block`, `iterate_all_blocks` | RocksDB or a raw device |
| C API | handles | create, open, destroy, configure, forward | SSD, KVCache |
| Status, list.h | result codes, intrusive lists | | |

What is hard about it: four kinds of threads share slabs that travel through
seven lists; blocks and buffers are read and written without the index lock and
the index is repaired afterwards, slot by slot; `nr_used` is decremented by
clients while flush and GC copy and recount it; three counters that threads wait
on are kept by hand; everyone waits on someone (Put on flush, flush on GC, GC on
flush, Put on GC) with notifications sent outside the mutexes; the same functions
run as threads or inline; quick GC deletes entries while Put inserts them;
shutdown may come at any moment; the database is written one Put at a time and
reused by the next process. `PROJECT.json` lists these hazards line by line.

What correct means, by component: an index entry names a written slot with its
own key's digest in a slab nobody may reuse (index); a slab is in one hand at a
time and no mslab is ever lost (storage); the counters are the lengths of the lists
(storage); `nr_used` never falls below the number of valid objects, or a batch
would overrun `gc_buffer_` (index, GC); the water marks keep their order (GC);
flushing and merging lose nothing (threads); what the index leads to is a map that
may forget a key and otherwise has the last value put (Put, Delete), and a Get copies
what it found there (Get); nobody sleeps while what it waits for
is there (condition variables); rounds, waits and inline calls end (threads,
destructor); a cache has a dslab for every block and reads back what it wrote
(SSD); handles lead to objects that exist (C API).

## 2. The modules

| Module | Models |
|---|---|
| `CacheState` | the shared state, the index operators, `flush_mslab_to_dslab`, the channel scan |
| `ClientOps` | `Put`, `Delete`, `Get` |
| `SlabFlush` | the flush thread |
| `WaterMarks` | the integer arithmetic of `quick_gc` and `normal_gc` |
| `SlabGC` | the GC thread |
| `KVCache` | the composition, the destructor and the properties of the cache |
| `LossyMap` | the abstract specification of Put and Delete; it has no read |
| `ThreadSync` | `KVCache` with its condition variables, the start of its threads and the foreground modes; implements `KVCache` |
| `Ssd` | `class SSD` on RocksDB and on a device, with faults and the end of the process |
| `CacheSetup` | what the constructor computes from geometry and options |
| `CApi` | the C API and the life of a process: composes `Ssd` and `CacheSetup` |
| `MCKVCache`, `MCThreadSync`, `MCDeploy` | constants for TLC |
| `KVCacheProofs`, `ContentsProofs`, `LossyMapProofs` | theorems: ownership, contents, the refinement of `LossyMap` |
| `CacheLimitsProofs`, `CounterProofs` | theorems: water marks, pigeonhole, counters |
| `ThreadSyncProofs` | theorems: the refinement of `KVCache`, no lost wake-up |
| `DeployProofs`, `SetupProofs` | theorems: store and C API, constructor |

`ClientOps`, `SlabFlush` and `SlabGC` extend `CacheState`; `KVCache` extends the
three and interleaves their steps; `ThreadSync` extends `KVCache`. `CApi` is a
model of its own, at the grain of whole blocks: what it shows of a new cache
(`ConstructorMeetsModel`, `DslabsMatchBlocks`) is what `CacheState` assumes of its
constants.

An action is the code between two points where
another thread can observe or interfere: a region under one mutex, or a region
without a lock that touches only what the thread owns. Each thread has a program
counter (`put_pc`, `flush_pc`, `gc_pc`) named after the places of its function;
the header comment of each module lists them. Local variables that survive a step
are variables of the model under their own names (`to_drop`, `pq`, `free_list`,
`ops_slab`, `old_ops_size`, ...).

How state and code correspond:

* `slab[s]` is the header `struct Slab` (cid, nr_alloc, nr_used; slot size and
  number of slots follow from cid), `data[s]` the slots: the mapped memory of an
  mslab, or the contents of the block of a dslab. `gc_buffer` is the last mslab.
* A list is the set of its members. The code takes the first entry, the last one
  added; the model lets it be any member, which includes it. The per-channel
  lists are one set with `ChannelOf`, because a dslab is only ever put on the
  list of its own channel.
* `index_table` maps a digest to an entry; the hash bucket and the SHA-1 digest
  are one identity. `nr_free_index_entry` is computed from it: an entry is either
  on the free list or in the table. Two keys with one digest are an instance
  (`SameDigest`).
* Put holds `writer_mutex_` throughout, so one `put_pc` stands for all clients in
  Put. Get of a value in memory is two steps, `GetSlice` under the lock and
  `CopySlice` after it; if the bytes have changed in between, the copy is the new
  contents or torn (`None`).
* The selection loop of `do_quick_gc` holds `dslab_full_mutex_` over its
  iterations (`DslabFullLocked`); `PublishDslab` waits for it. Every other
  critical section is one action.
* `HeapIntact`: clients change `nr_used` of dslabs that are in the collector's
  priority queue. While no key has changed the queue keeps the lightest dslabs and
  yields them in order; otherwise it is a broken heap and the model lets it keep
  and yield any.
* `ReclaimToOps` and `TakeOpsDslab` are the code as it is, with the dslab that
  the loop of `do_quick_gc` drops and the missing `nr_full_dslab_++` (section 4).
* In `KVCache` a wait on a condition variable is an action guarded by the wait's
  predicate. `ThreadSync` splits it as the library does: test the predicate with the
  mutex held (`Test`), release and sleep (`Sleep`), be notified (`Woken`) or wake for
  no reason (`SpuriousWake`), take the mutex and test anew. `Mutex(p)` is the mutex of a
  program's next step, `Locked(m)` keeps others out between test and sleep.
* `owed[t]` is what thread t still has to do before its next step: notifications in
  the order the code sends them, calls of `slab_flush` and `slab_gc`, the return from an
  inline run. `caller[q]` says who runs `do_slab_flush` or `do_slab_gc` inline; the
  caller does nothing meanwhile. `slab_gc` notifies nobody once the thread runs.
* `NDEBUG` selects the release build, in which the decrement inside `assert` in
  Delete is gone.
* The constructor in the repository lacks the closing brace of its last `if`
  (line 192); the model takes it as `if (enable_background_gc) { slab_gc(); }`.
* `Ssd`: `meta` and `blocks` are what survives, `db_lock` the one opener RocksDB admits.
  The loop of `create` is one action per Put, so the process may die between any two.
  On a device a block lives at an offset; the product of two ints is computed modulo
  2 * `IntLimit` (2^32) or exactly, whichever the build does. `OpenSsd` is the code as it is: on a
  database it builds a temporary and leaves its own fields unassigned (`Uninit`).
* `CApi`: the handles are wrappers; `ssd_destroy` and `kvcache_destroy` delete the
  wrapper and leave the object and its threads. Using a null or an unassigned SSD makes
  `proc` "undefined". `geometries` is a history variable.
* `CacheSetup`: sizes in bytes with the real header sizes; a float product cut to int
  may be one below the exact value where that is an integer (`Truncated`; exact up to
  some 80 000 blocks, and no property depends on it). The double of a class size is cast
  to int (`IntCast`); one that does not fit is undefined, and the model has both
  outcomes builds produce, INT_MIN and INT_MAX (`CastOverflows`).

## 3. The runs

`MaxCalls` bounds the number of Put and Delete calls of
a behaviour, the only unbounded thing in the cache; `MaxFaults`, `MaxCrashes`, `MaxSsds`,
`MaxCaches` and `MaxGeometries` bound the deployments (a fault is a failing open, Put,
Get or write of `create`, `ssd_open` or a cache). Keys, values and slabs are model
values, permuted where the instance does not tell them apart. Liveness is checked without symmetry; `channels` then fixes which dslab of
each channel begins in the ops pool (`FixedFairSpec`), since those of a channel are alike. The code's constants 3, 10 and 10 (queue
factor, smallest ops pool, mark step) are the constants `QueueFactor`, `OpsFloor`
and `MarkStep`, scaled down to instances with 2 to 6 blocks; the queue factor
remains 3 except in `classes`. Deadlock is not checked: an idle cache waits for
clients, and at the bound there are none.

| Run | Instance | Shows |
|---|---|---|
| `merge` | 2 keys, 2 values, 1 mslab of 2 slots, 4 dslabs, 5 calls, one object too large | normal GC merges half-empty dslabs under concurrent overwrites and deletes: `TypeOK`, `IndexSound`, `NrUsedCoversEntries`, `MovesKeepObjects`, `ImplementsLossyMap` |
| `overlap` | 3 keys, 2 mslabs and 4 dslabs of 1 slot, 2 index entries, a reader, release build, shutdown | everybody at work at the same time, Puts that wait for an index entry: `OneHand`, `NoMslabLost`, `NoSlabOverrun`, `NrUsedCoversEntries`, `IndexedSlotsImmutable`, `ImplementsLossyMap` |
| `classes` | 2 classes and 2 mslabs, 4 dslabs, both keys with one digest | `ObjectsFitSlots`, `FlushWaitHasHelper`, and a key never reads the other's value |
| `channels` | 2 channels of 3 dslabs with one ops dslab each, 1 index entry, 6 calls, both marks 2 at the start | quick GC, shrinking and refilling of the ops pool: `OneHand`, `IndexSound`, `CountersExact`, `MarksInOrder`, `SelectionCovered`, and under fairness of the collector `RoundEnds` |
| `sync` | 2 keys, 1 mslab, 2 dslabs, 1 index entry, 3 calls; both in the background, flush in the foreground, both in the foreground | `NoLostWakeup`, `ImplementsKVCache`, and under fairness `FreedEntryReachesPut`, `ForegroundFlushReturns`, `FlushWaitEnds`, `ShutdownWakesSleepers` |
| `deploy` | 2 channels of 2 blocks of two sizes, or 1 block of four sizes; an int of 11 bits; 1 fault, 2 crashes, 2 SSD objects, 2 geometries | `DslabsMatchBlocks`, `BlocksKeepTheirData`, `CreatedSsdUsable`, `RunningCacheHoldsDb`, `ClassTableSound`, `ConstructorMeetsModel` |

The bounds are the smallest with which every action and disjunct is taken: 4
dslabs are one of the ops pool, two to merge and a free one; slabs of two slots
let a dslab be half valid; 5 calls fill two slabs and one slot of a third. Two dslabs
of one slot are enough for `sync`, whose question is who wakes whom: one is the ops
pool, the other fills, and every wait of the code is entered. `channels` also
asks whether the loops of the collector end, and reaches what they depend on: rounds that
drop one dslab (no index entry) and two, a selection that passes an empty channel and one
that is short of full dslabs, a merge whose reclaimed dslabs are all on the far channel.
Blocks of 344 bytes and
an int of at most 1023 make the offset of the last of four blocks overflow; the
sizes of a single block lie at and between the steps of the default class table (85,
364 and 555 bytes: two, four and five classes, with index entries enough for a cache of
each) and above its last step (700, where the next double overflows).
Each property also has a mutant of the code (dropped reset, swapped slabs, count
forgotten, a notification left out, ...) which violates it on the same instance.

Some properties have a premise worth knowing. `MarksInOrder` needs a minimum of at
least 2 blocks for the low mark (at least 100 blocks with the default 2 %); with a
minimum of 1 both marks can come down to 1, and 0.9 of 1 is 0. `SelectionCovered`
needs 2.3 times as many blocks as the ops pool holds, lost ones not counted; since every quick
round loses one (`lost_dslab`), a cache that runs long enough leaves the premise, and the
selection loop then spins for ever (section 4). In `channels` the premise ends
with the first lost dslab; the theorem of section 5 has it for any number of them.
`RoundEnds` and the liveness properties of `sync` therefore let the collector stay in a
selection that is short of full dslabs (`SelectionShort`); nothing else may keep it. In
`sync` no selection is ever short, so there they hold without this exception.
`ClassTableSound` is for slabs whose largest slot, doubled, is an int (1 GiB): up to
1.25 GiB only the size after the last one overflows, beyond it the table is wrong
(section 4).
`BlocksKeepTheirData` is for at most 2 * `IntLimit` bytes (4 GiB): an overflow then makes
the call fail and never reaches another block; beyond that wrapped offsets meet.

Fairness: `channels` assumes weak fairness of the GC thread alone (`FairSpec`), `sync`
(`SyncFairness`) weak fairness of a Put in progress, of the flush thread,
of the GC thread and of a destructor that has begun, each with all it does: steps,
notifications, tests and sleeps. They are operating-system threads, so one whose next
step stays possible takes it. No client is obliged to call anything and no spurious wake-up has to come.
`FlushWaitEnds` lets the flush thread itself wait for a free dslab: nothing in the
code makes the collector free one (`index_wait`, `lost_dslab`).

## 4. Where code and documentation disagree

Six runs are expected to fail; each states what a comment or a test says.

* `lost_dslab`: `do_quick_gc` unlinks a dslab before it looks at the loop count;
  the last one unlinked is put on no list (lines 769-783).
* `index_wait`: `gc_dslabs` adds `ops_slab` to `dslab_full_` without counting it
  (lines 1095-1097), so the collector may sleep although dslabs are full, and a Put
  waiting for an index entry has nobody to wait for.
* `evict`: `evict_dslab` removes the entries of stale copies too, that is, of
  newer versions in other slabs (lines 841-860). A loss, not a wrong value:
  `ImplementsLossyMap` holds.
* `get_race`: Get copies through a view of an mslab after the lock is gone
  (line 238). What it has found may have been overwritten.
* `shutdown`: the destructor sets `shutdown_` and notifies without a mutex (lines
  1189-1193); a thread between its test and its sleep misses both. `ShutdownWakesSleepers`
  shows that wherever else the threads are, they are reached, except a collector that
  spins in its selection loop (below), which does not look at `shutdown_`.
* `foreground`: a Put without an index entry calls `slab_flush` with `index_mutex_` in
  its hands (line 298); inline, `do_slab_flush` waits for a full mslab that only a Put can make, or
  for that very mutex (line 602).

Met on the way and stated in premises rather than as runs: in the release build Delete
does not decrement `nr_used` (line 1181), on the harmless side, as
`NrUsedCoversEntries` in `overlap` shows; `create` on a database of another geometry
leaves the old blocks in it (`DslabsMatchBlocks`); a memory budget below one slab puts
dslabs on `mslab_free_` (`ConstructorMeetsModel`, premise `nr_mslab > 0`); fewer
mslabs than slab classes can block a Put for ever (`SlabsAssumption`); `quick_gc` bounds
the low mark from above only (lines 824-825) and takes it below its minimum where the ops
pool is smaller (`MarksScale`); `default_slab_class_size` casts the double of a size to int
before it bounds it (line 1215), so that slabs of more than 1.25 GiB have a table that ends
in slots of INT_MIN bytes (`ClassTableSound`); and `do_quick_gc` looks for dslabs until it
has as many as `quick_gc` asked for, with `dslab_full_mutex_` locked (lines 736-751): when
fewer are full, it spins, and the flush thread cannot publish the one that would end it
(line 615; `SelectionShort`). Those properties would not catch these cases going wrong.
The comments on the marks (`include/kvcache.h` 168 and 170, line 968 of `kvcache.cpp`) say the
opposite of the code: at the low mark `quick_gc` doubles the ops pool, at the high one
`normal_gc` lowers the marks and shrinks it.

## 5. What is proved

For every value of the constants that satisfies the assumptions of the modules,
TLAPS checks every invariant and action property of the passing runs, and both
refinements:

* `KVCacheProofs`: `TypeCorrect` (`Spec => []TypeOK`), `OneHandInvariant` (no slab
  is in two hands), `NoMslabLostInvariant` (every mslab is in some hand), and
  `OwnershipInvariant`, from which the three follow.
* `ContentsProofs`: `IndexSoundInvariant`, `NrUsedInvariant`, `NoSlabOverrunInvariant`
  and `ObjectsFitSlotsInvariant`, from `ContentsInvariant`.
* `LossyMapProofs`: `IndexedSlotsNeverWritten`, `MovesKeepEveryObject`, and
  `CacheIsLossyMap`: `Spec` implements the abstract map.
* `CacheLimitsProofs`: `MarksInOrderInvariant`, from two lemmas on the arithmetic of a
  quick and of a normal round, which hold for the code's constants as for the scaled
  ones; `FlushWaitHasHelperInvariant`.
* `CounterProofs`: `CountersExactInvariant` and `SelectionCoveredInvariant`, from
  `CountsInvariant`.
* `ThreadSyncProofs`: `SyncImplementsKVCache` (`SyncSpec => Spec`: every step
  with condition variables and inline calls is a step of `KVCache` or changes none of its
  variables), `SyncOneHand` and `SyncIsLossyMap`, which follow, and `NoLostWakeupInvariant`.
* `DeployProofs`: `RunningCacheHoldsDbInvariant`, `CreatedSsdUsableInvariant`,
  `DslabsMatchBlocksInvariant` and `BlocksKeepTheirDataInvariant`, for any number of
  faults, crashes, objects and geometries.
* `SetupProofs`: `ClassTableSoundInvariant`, for every slab up to 1 GiB, and
  `ConstructorMeetsModelInvariant`, for every geometry and all options.

None of these properties is inductive by itself. The inductive invariants (those of
the threads and of the store were checked with TLC before they were proved):

**Ownership** (`KVCacheProofs`). That `FinishPut` gives the flush thread a slab
nobody else has needs to know that a slab is off its partial list exactly if it is
full (`PutHolding`); that the flush thread puts an mslab on `mslab_free_` and not
`None` needs to know what it holds at each place (`FlushHolding`); that `gc_dslabs`
takes from `dslab_full_` what it puts on `free_list` needs to know that queue and
batch are full dslabs and disjoint (`GcHolding`). `Ownership` is the conjunction of
`TypeOK`, `OneHand`, `NoMslabLost` and the three `...Holding`. The proof has, for the types and for the hands,
a lemma per thread with a step per action (`ClientType`, `FlushType`, `GcType`;
`ClientMslabs`, `FlushMslabs`, `GcKeepsMslabs`; `ClientDslabs`, `FlushDslabs`,
`GcDslabs`), lemmas on the operators the actions share, and frame lemmas
(`PutHoldingFrame`, `MslabHandsFrame`, `NoMslabLostFrame`).

**Contents** (`ContentsProofs`) relates headers, slots and index. A flush copies a
slab without the index lock and repairs the index afterwards, slot by slot; in
between clients overwrite and delete. So the invariant says what holds at each place:
between `write_block` and `modify_index_to` the block is the image of the slab and no
entry names it (`FlushContents`, `GcTarget`); what is about to be recycled, or has been
visited by the collector, has no entry left (`GcVisited`); what may be handed out is
blank (`BlankHeaders`). The entries that name a batch are at most the `nr_used` summed
when it was chosen, and later at most what is left of `gc_buffer_` (`GcBatch`), so the
overrun that the code never tests for cannot happen.

**The refinement of `LossyMap`** rests on both. A step of a client that changes the
index is a Put or Delete of the abstract map; an eviction is a loss; every step that
moves entries moves them to equal objects (`MovesKeepEveryObject`), so the abstract
map, which is the index read through the slots, stays as it is; and no slot that an
entry names is written (`IndexedSlotsNeverWritten`).

**Counts** (`CounterProofs`). Beside the lengths of the lists, the size of the ops
pool at each place of a round: a normal round spends dslabs of the pool and refills it
to its old size before it shrinks it, and leaves at least one; a quick round adds no
more than the pool lacks (`OpsCounts`). `SelectionCovered` then is a count of disjoint
sets: what is neither free, nor in the pool, nor in a hand, nor lost, is full.

**Pigeonhole** (`CacheLimitsProofs`). When a Put waits and neither
`mslab_full_` nor the flush thread has an mslab, `Ownership` leaves only the partial
slabs; each class has at most one (`PartialSlabs`, invariant by the way `slot_alloc`
takes a new slab only for a class without one), the class of the waiting Put has none,
so there are fewer of them than classes, and there is an mslab per class.

**Wakeful** (`ThreadSyncProofs`). A thread that sleeps, or has tested and is about
to, either waits for something that is not there or has a notification under way: one
owed by the thread that made it true, or one that thread will come to owe at a place
it cannot leave otherwise (`PutMissesNothing`, `FlushMissesNothing`,
`GcMissesNothing`). It holds until the destructor begins, whose notification is lost
indeed (`shutdown`), and for every wait but Put's for an index entry (`index_wait`).

**DeployInv and StoreInv** (`DeployProofs`). `DeployInv`: what a `create` in progress
has put (`CreateProgress`: it owns the database, and the first n metadata keys hold
its own geometry, whatever was there before), who has the database open (`OpenOwner`)
and what an OK means (`CreatedHandle`). `StoreInv`: all SSD objects of a process
agree, since the client changes its configuration only without one (`SsdsAgree`); the
first blocks are there while a create puts the others, and nothing else on a database
of one geometry (`StoreHasBlocks`); a cache has found its blocks (`CachesSound`) and
what was written is where a read looks (`WrittenKept`). For the last, up to 4 GiB a
block has one offset that is not negative, the true one (`OneOffset`).

**CachesBuilt** (`SetupProofs`): a running cache is what the constructor computed.
What it computes are recursive functions and sums over sets. That these exist and
have their properties is shown by least counterexample (`LeastNat`, from the
well-foundedness of the naturals): the sizes of a default table are positive or INT_MIN
(`CurrSizes`); where no double overflows (`SmallSizes`) it doubles from 40 and reaches the
largest slot within thirty steps, because a size is an int; a sum of larger terms is
larger, so `index_init`, which divides whole blocks into slots, counts enough entries.

The assumptions: those the constructor checks or establishes (finite sets, sorted
classes, enough index entries, water marks in order, channels with enough blocks
for their share of the ops pool) and two it relies on without a check: an mslab
per slab class and a non-empty ops pool. For `ThreadSync`: not background flush with
foreground GC (`OptionsAssumption`). For the deployments: positive geometries in
ints of at most 32 bits, a number of blocks that is an int, blocks larger than the header of a slab, and no slots of size
0, by which the constructor would divide. `DslabsMatchBlocks`,
`BlocksKeepTheirData`, `SelectionCovered`, `MarksInOrder`, `ClassTableSound` and `ConstructorMeetsModel`
keep the premises of section 3 and 4.

Model-checked only: the liveness properties of `sync` and `channels`, and the fairness they
need (fairness and ENABLED are beyond the prover). What a violation run shows is not
a theorem either: it is a behaviour.

## 6. What is not modelled

* Background flush with foreground GC: Put and the flush thread may then run
  `do_slab_gc` at once (`gc_mutex_` is never locked), which the single `gc_pc` cannot
  express; likewise two caches in one process, which share the static `read_buffer`.
* The destructor of a cache in a foreground mode: it is modelled with both threads in the
  background.
* A change of `nr_used` in the middle of the scan of one channel (lines 889-902), which
  is one action; the broken order it may give the heap is that of `HeapIntact`.
* The order of lists and the pointers of `list.h`: a list is a set.
* Hash buckets apart from digests; SHA-1.
* `Status`, `BufferTooSmall`, result codes and error strings of the C API; the
  forwarding `kvcache_get`, `_put`, `_delete` are the actions of `ClientOps`.
* Narrowing of `size_t` options to `int`, and `nr_slab_class` beyond its array: the
  setters trust their caller.
* mmap failures of the constructor; the 300 ms pause between GC rounds, which only delays.
* The contents RocksDB may lose when it dies with unsynced writes: a Put that returned is kept.

## 7. Plan

1. *Done*: storage, clients, flush, GC, destructor, abstract map, ownership proofs.
2. *Done*: condition variables and foreground modes, water marks, slab classes, SSD, C
   API, restart after a crash; refinement, limits and deployment proofs.
3. *Done*: proofs of all safety properties: contents, counters, wake-ups, store,
   constructor, and of the refinement of `LossyMap`.
4. *Done*: the ends of a round on instances where its loops have a choice, the int cast
   of the class table, faults of `ssd_open`.
5. *Left*: a model with two collectors for background flush with foreground GC.
