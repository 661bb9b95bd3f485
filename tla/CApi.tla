-------------------------------- MODULE CApi --------------------------------
(***************************************************************************)
(* The C API and the life of a process that uses it, as fatcache does:     *)
(* configure, create an SSD, create a cache on it, let its threads write   *)
(* blocks, and start again after a crash on the store the last process     *)
(* left.  A handle is a small wrapper round a pointer; the destroy calls   *)
(* delete the wrapper only, so SSD objects, caches and their threads live  *)
(* until the process ends.  Get, Put and Delete through a handle are the   *)
(* operations of module ClientOps; here a cache only writes its blocks.    *)
(***************************************************************************)
EXTENDS CacheSetup

CONSTANTS
    OptionSets,   \* KVCache::Options values
    MaxCrashes,
    MaxSsds, MaxCaches,   \* SSD objects and caches of one process
    MaxGeometries  \* geometries one database is created with, one after the other

\* What the constructor relies on without a check: a block has room for more than the
\* header of a slab, and no class of the client's has slots of size 0, which it would
\* divide by.  The ratios are in per cent.
ASSUME OptionsAssumption ==
    /\ \A c \in Configs : c.block_size > SlabHeaderSize
    /\ \A o \in OptionSets :
          /\ o.slab_mem_budget \in Nat /\ o.index_mem_budget \in Nat
          /\ o.ops_rate \in Nat /\ o.low_min \in Nat /\ o.high_max \in Nat
          /\ o.low \in Nat /\ o.high \in Nat
          /\ o.slab_class_size \in Seq(Nat \ {0})

VARIABLES
    config,        \* the ssd_config_t the client has filled in
    ssd_handle,    \* NoHandle, NullSsd, or an index of ssds
    create_ok,     \* the Status SSD::create returned for ssd_handle was OK
    caches,        \* the running caches, [ssd, setup]
    cache_handle,  \* 0, or an index of caches
    proc,          \* "running", or "undefined" after a bad dereference
    crashes

apiVars == <<config, ssd_handle, create_ok, caches, cache_handle, proc, crashes>>
deployVars == <<ssdVars, apiVars>>

NoHandle == -1  \* the client holds no ssd_t
NullSsd == 0    \* an ssd_t whose SSD pointer is null

DeployInit ==
    /\ SsdInit
    /\ config \in Configs
    /\ ssd_handle = NoHandle /\ create_ok = FALSE
    /\ caches = <<>> /\ cache_handle = 0
    /\ proc = "running" /\ crashes = 0

\* The client is one thread; a create is one call of it.
ClientReady == proc = "running" /\ creating = Null

-----------------------------------------------------------------------------
\* ssd_config_create and the setters, before there is an SSD.
SetConfig(c) ==
    /\ ClientReady /\ ssds = <<>>
    /\ is_dev \/ Cardinality(geometries \cup {c}) <= MaxGeometries
    /\ config' = c
    /\ UNCHANGED <<ssdVars, ssd_handle, create_ok, caches, cache_handle, proc, crashes>>

\* How ssd_create and ssd_open end.  ssd_create ignores create's Status.
ReturnsHandle(h, ok) ==
    /\ ssd_handle' = h /\ create_ok' = ok
    /\ UNCHANGED <<config, caches, cache_handle, proc, crashes>>

MayCreate == ClientReady /\ ssd_handle = NoHandle /\ Len(ssds) < MaxSsds

ssd_create ==
    /\ MayCreate
    /\ \/ CreateOpen(config) /\ UNCHANGED apiVars
       \/ CreateRefused /\ ReturnsHandle(NullSsd, FALSE)
       \/ CreateDevice(config) /\ ReturnsHandle(Len(ssds) + 1, TRUE)
       \/ CreateDeviceThrows /\ ReturnsHandle(NoHandle, FALSE)

ssd_create_step ==
    /\ proc = "running"
    /\ \/ CreatePut /\ UNCHANGED apiVars
       \/ CreatePutFails /\ ReturnsHandle(NullSsd, FALSE)
       \/ CreateFinish /\ ReturnsHandle(Len(ssds) + 1, TRUE)
       \/ CreateFinishThrows /\ ReturnsHandle(NoHandle, FALSE)

ssd_open ==
    /\ MayCreate
    /\ \/ OpenSsd /\ ReturnsHandle(Len(ssds) + 1, FALSE)
       \/ OpenThrows /\ ReturnsHandle(NoHandle, FALSE)

\* Mutant: the SSD object is deleted with its handle.
SsdDestroyDeletes ==
    /\ ClientReady /\ ssd_handle # NoHandle
    /\ ssd_handle' = NoHandle /\ create_ok' = FALSE
    /\ db_lock' = IF db_lock = "ssd" THEN "free" ELSE db_lock
    /\ UNCHANGED <<is_dev, meta, blocks, creating, ssds, written, geometries, faults,
                   config, caches, cache_handle, proc, crashes>>

ssd_destroy ==
    /\ ClientReady /\ ssd_handle # NoHandle
    /\ ssd_handle' = NoHandle /\ create_ok' = FALSE
    /\ UNCHANGED <<ssdVars, config, caches, cache_handle, proc, crashes>>

-----------------------------------------------------------------------------
\* kvcache_options_create, the setters and kvcache_create.  The first reads
\* block_size_ through the SSD pointer.
Usable(h) == h # NullSsd /\ ssds[h] # Uninit

kvcache_create(o) ==
    /\ ClientReady /\ ssd_handle # NoHandle /\ cache_handle = 0 /\ Len(caches) < MaxCaches
    /\ IF ~Usable(ssd_handle)
       THEN proc' = "undefined" /\ UNCHANGED <<caches, cache_handle>>
       ELSE LET g == ssds[ssd_handle] IN
            /\ UNCHANGED proc
            /\ \E sizes \in ClassTables(g, o) :
                  IF IndexLargeEnough(g, o, sizes)
                  THEN /\ \E s \in Setups(g, o, sizes, AllBlocks(g)) :
                             caches' = Append(caches, [ssd |-> ssd_handle, setup |-> s])
                       /\ cache_handle' = Len(caches) + 1
                  ELSE UNCHANGED <<caches, cache_handle>>   \* returns NULL
    /\ UNCHANGED <<ssdVars, config, ssd_handle, create_ok, crashes>>

kvcache_destroy ==
    /\ ClientReady /\ cache_handle # 0
    /\ cache_handle' = 0
    /\ UNCHANGED <<ssdVars, config, ssd_handle, create_ok, caches, proc, crashes>>

\* The flush or GC thread of a cache writes one of its dslabs.  A failed write
\* is thrown out of the thread, which ends the process.
Exit ==
    /\ crashes < MaxCrashes /\ crashes' = crashes + 1
    /\ ssd_handle' = NoHandle /\ create_ok' = FALSE
    /\ caches' = <<>> /\ cache_handle' = 0 /\ proc' = "running"
    /\ UNCHANGED config

CacheWrites ==
    /\ proc = "running"
    /\ \E i \in DOMAIN caches : \E b \in caches[i].setup.found :
          LET g == ssds[caches[i].ssd] IN
          \/ WriteBlock(g, b[2]) /\ UNCHANGED apiVars
          \/ WriteFails(g, b[2]) /\ LoseProcess /\ Exit

Crash == LoseProcess /\ UNCHANGED faults /\ Exit

DeployNext ==
    \/ \E c \in Configs : SetConfig(c)
    \/ ssd_create \/ ssd_create_step \/ ssd_open \/ ssd_destroy
    \/ \E o \in OptionSets : kvcache_create(o)
    \/ kvcache_destroy \/ CacheWrites \/ Crash

DeploySpec == DeployInit /\ [][DeployNext]_deployVars

-----------------------------------------------------------------------------
(***************************************************************************)
(* Whatever creates have failed or died half way before, the dslabs of a   *)
(* running cache stand for the blocks 0..nr_blocks_-1, one each, every     *)
(* block is kept where read_block and write_block look for it, and the     *)
(* store has these blocks for as long as the cache runs                    *)
(* (ssd.cpp:169-181, 39, 59; kvcache.cpp:76-93).  On a database created    *)
(* with another geometry before, no block is missing, but create deletes   *)
(* no key: slab_init then also makes dslabs of blocks the SSD has not got. *)
(***************************************************************************)
DslabsMatchBlocks ==
    \A i \in DOMAIN caches :
        LET g == caches[i].setup.geometry  found == caches[i].setup.found IN
        /\ OwnBlocks(g) \subseteq found /\ found \subseteq AllBlocks(g)
        /\ Cardinality(geometries) <= 1 => found = OwnBlocks(g) /\ found = AllBlocks(g)

(***************************************************************************)
(* A read of a block that this process has written, if it succeeds,        *)
(* returns what was written there, although the offset overflows beyond    *)
(* 2 GiB (ssd.cpp:32, 52): up to 4 GiB an overflow makes the call fail, it *)
(* never reaches another block.                                            *)
(***************************************************************************)
BlocksKeepTheirData ==
    \A i \in DOMAIN caches :
        LET g == caches[i].setup.geometry IN
        g.nr_blocks * g.block_size <= 2 * IntLimit =>
            \A id \in written : ReadBlock(g, id) \subseteq {id}

(***************************************************************************)
(* When SSD::create returned OK, the handle leads to an SSD of the         *)
(* geometry asked for, read back from the database, and creating a cache   *)
(* on it dereferences no bad pointer.  (After any other outcome ssd_create *)
(* may still return a handle, and its SSD pointer is null.)                *)
(***************************************************************************)
CreatedSsdUsable ==
    create_ok => /\ Usable(ssd_handle)
                 /\ ssds[ssd_handle] = Geometry(config)
                 /\ proc = "running"

(***************************************************************************)
(* The threads of a cache run until the process ends, also after           *)
(* kvcache_destroy and ssd_destroy; the database they write stays open and *)
(* its own for as long (kvcache_c_api.cpp:68-70, 139-141).                 *)
(***************************************************************************)
RunningCacheHoldsDb == caches # <<>> /\ ~is_dev => db_lock = "ssd"

(***************************************************************************)
(* In slabs so small that the double of a slot is an int (up to 1 GiB) the *)
(* default class table is what get_slab_class and MaxKVSize rely on:       *)
(* strictly increasing, so that lower_bound works, never more than doubled *)
(* so that less than half of a slot is lost, and reaching the largest slot *)
(* of a slab: an object has a class exactly if it is not larger than       *)
(* MaxKVSize() (kvcache.cpp:486-497, 1205-1222; kvcache.h:201).            *)
(***************************************************************************)
ClassTableSound ==
    \A i \in DOMAIN caches :
        LET s == caches[i].setup.sizes  slab_size == caches[i].setup.geometry.block_size IN
        /\ caches[i].setup.options.slab_class_size = <<>>
        /\ MaxSlotSize(slab_size) > MinKVSize + SlotHeaderSize
        /\ 2 * MaxSlotSize(slab_size) < IntLimit
        => /\ \A k \in 2..Len(s) : s[k - 1] < s[k] /\ s[k] <= 2 * s[k - 1]
           /\ s[1] = MinKVSize + SlotHeaderSize
           /\ \A n \in 0..slab_size :
                 ClassesFor(s, n + SlotHeaderSize) # {} <=> n <= MaxKVSize(s)
           /\ MaxKVSize(s) = MaxSlotSize(slab_size) - SlotHeaderSize

(***************************************************************************)
(* The constructor establishes what CacheState assumes of its constants:   *)
(* the order of the water marks, an index entry for every slot of one slab *)
(* of each class, a dslab of every channel in exactly one pool, and the    *)
(* free mslabs, gc_buffer_ not among them (kvcache.cpp:32-149, 182-186).   *)
(* The last needs a memory budget of at least one slab.                    *)
(***************************************************************************)
ConstructorMeetsModel ==
    \A i \in DOMAIN caches :
        LET s == caches[i].setup  g == s.geometry IN
        /\ 1 <= s.marks.low_min /\ s.marks.low_min <= s.marks.low
        /\ s.marks.high <= s.marks.high_max /\ s.marks.low_min + 10 <= s.marks.high_max
        /\ s.nr_index_entry >= MapThenSumSet(LAMBDA k : SlotsOf(g, s.sizes[k]), DOMAIN s.sizes)
        /\ s.found = OwnBlocks(g) => \A c \in DOMAIN s.pools :
              /\ s.pools[c].ops + s.pools[c].free = g.blocks_per_channel
              /\ s.pools[c].ops = MinOf(s.ops_size, g.blocks_per_channel)
        /\ s.nr_mslab > 0 => s.mslab_free = 0..(s.nr_mslab - 2)
=============================================================================
