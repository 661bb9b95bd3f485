-------------------------------- MODULE Ssd --------------------------------
(***************************************************************************)
(* class SSD: a store of fixed-size blocks, on a raw device (the path      *)
(* starts with /dev/) or mocked by a RocksDB database.                     *)
(*                                                                         *)
(* What outlives the process is `meta' and `blocks'.  `blocks' maps a cell *)
(* to the block whose bytes it holds: a cell is the RocksDB key            *)
(* "/blocks/<channel>/<block>", here <<channel, block>>, or an offset of   *)
(* the device.  SSD::create writes the database one Put at a time, and the *)
(* process may die or a Put may fail between any two of them.  RocksDB     *)
(* lets one opener in at a time (its LOCK file): db_lock is the opener.    *)
(***************************************************************************)
EXTENDS Integers, FiniteSets, Sequences

CONSTANTS
    Configs,    \* SSD::Config values: nr_channels, blocks_per_channel, block_size
    IntLimit,   \* INT_MAX + 1: ints are modulo 2 * IntLimit, 2^32 in the code
    MaxFaults,  \* I/O calls that fail: open, Put, Get
    Null,       \* a key that is absent, a null pointer, a cell put as ""
    Uninit      \* an SSD object whose fields were never assigned

SsdObjects == [nr_channels : Int \cup {Null}, blocks_per_channel : Int \cup {Null},
               block_size : Int \cup {Null}, nr_blocks : Int \cup {Null}]

ASSUME SsdAssumption ==
    /\ \A c \in Configs : /\ c.nr_channels \in Nat \ {0}
                          /\ c.blocks_per_channel \in Nat \ {0}
                          /\ c.block_size \in 1..(IntLimit - 1)
                          /\ c.blocks_per_channel * c.nr_channels < IntLimit
    /\ IntLimit \in Nat \ {0}
    /\ Uninit \notin SsdObjects

\* An int has at most 32 bits.
ASSUME IntAssumption == IntLimit - 1 <= 2147483647

VARIABLES
    is_dev,    \* the path starts with /dev/
    meta,      \* [MetaKeys -> Int \cup {Null}]
    blocks,    \* [cells -> block ids \cup {Null}]
    db_lock,   \* "free", "create", "ssd", or "leaked" by a constructor that threw
    creating,  \* the create in progress, [config, next], or Null
    ssds,      \* the SSD objects of this process
    written,   \* the blocks this process has written
    geometries,\* history: the configs a create of this database has begun with
    faults

ssdVars == <<is_dev, meta, blocks, db_lock, creating, ssds, written, geometries, faults>>

\* The order in which create puts the metadata.
MetaPuts == <<"blocks_per_channel", "nr_blocks", "block_size", "nr_channels">>
MetaKeys == {MetaPuts[i] : i \in DOMAIN MetaPuts}

Geometry(c) ==
    [nr_channels |-> c.nr_channels, blocks_per_channel |-> c.blocks_per_channel,
     block_size |-> c.block_size, nr_blocks |-> c.blocks_per_channel * c.nr_channels]

\* What the constructor reads from an open database.
FromMeta ==
    [nr_channels |-> meta["nr_channels"], blocks_per_channel |-> meta["blocks_per_channel"],
     block_size |-> meta["block_size"], nr_blocks |-> meta["nr_blocks"]]

SsdInit ==
    /\ is_dev \in BOOLEAN
    /\ meta = [k \in MetaKeys |-> Null]
    /\ blocks = <<>>
    /\ db_lock = "free"
    /\ creating = Null
    /\ ssds = <<>>
    /\ written = {} /\ geometries = {}
    /\ faults = 0

-----------------------------------------------------------------------------
(***************************************************************************)
(* Where block id of an SSD of geometry g is read and written.  The offset *)
(* block_id * block_size_ is a product of two ints: where it does not fit  *)
(* its value is undefined; a build computes it modulo 2^32, or in the      *)
(* 64 bits of off_t.  A negative offset makes pread and pwrite fail.       *)
(***************************************************************************)
channel_id(g, id) == id \div g.blocks_per_channel

block_key(channel, block) == <<channel, block>>

Wrapped(n) == ((n + IntLimit) % (2 * IntLimit)) - IntLimit

\* Mutant: the offset of the block within its channel.
OffsetsInChannel(g, id) == {(id % g.blocks_per_channel) * g.block_size}

Offsets(g, id) == {id * g.block_size, Wrapped(id * g.block_size)}

Cells(g, id) == IF is_dev THEN Offsets(g, id)
                ELSE {block_key(channel_id(g, id), id)}

Reachable(cell) == is_dev => cell >= 0

\* The store after a Put or a pwrite to a cell.
Stored(cell, id) ==
    [c \in DOMAIN blocks \cup {cell} |-> IF c = cell THEN id ELSE blocks[c]]

\* The blocks iterate_all_blocks visits, as the keys it builds or finds.
\* A key's channel is not looked at: Block computes it from the block id.
OwnBlocks(g) == {block_key(channel_id(g, id), id) : id \in 0..(g.nr_blocks - 1)}

AllBlocks(g) == IF is_dev THEN OwnBlocks(g) ELSE DOMAIN blocks

-----------------------------------------------------------------------------
\* SSD::create on a RocksDB path.  An Open fails if the database is in use, or by a
\* fault.
CreateOpen(c) ==
    /\ ~is_dev /\ db_lock = "free"
    /\ db_lock' = "create"
    /\ creating' = [config |-> c, next |-> 1]
    /\ geometries' = geometries \cup {c}
    /\ UNCHANGED <<is_dev, meta, blocks, ssds, written, faults>>

CreateRefused ==
    /\ ~is_dev
    /\ \/ db_lock # "free" /\ UNCHANGED faults
       \/ db_lock = "free" /\ faults < MaxFaults /\ faults' = faults + 1
    /\ UNCHANGED <<is_dev, meta, blocks, db_lock, creating, ssds, written, geometries>>

NrPuts(g) == Len(MetaPuts) + g.nr_blocks

\* Mutant: the blocks of every channel are numbered from 0.
BlockOfPutInChannel(g, i) ==
    LET id == i - Len(MetaPuts) - 1 IN
    block_key(channel_id(g, id), id % g.blocks_per_channel)

BlockOfPut(g, i) ==
    LET id == i - Len(MetaPuts) - 1 IN block_key(channel_id(g, id), id)

\* Mutant: the number of blocks is that of one channel.
MetaOfPutOneChannel(g, k) == IF k = "nr_blocks" THEN g.blocks_per_channel ELSE g[k]

MetaOfPut(g, k) == g[k]

CreatePut ==
    /\ creating # Null
    /\ LET g == Geometry(creating.config)  i == creating.next IN
       /\ i <= NrPuts(g)
       /\ IF i <= Len(MetaPuts)
          THEN /\ meta' = [meta EXCEPT ![MetaPuts[i]] = MetaOfPut(g, MetaPuts[i])]
               /\ UNCHANGED blocks
          ELSE /\ blocks' = Stored(BlockOfPut(g, i), Null)
               /\ UNCHANGED meta
    /\ creating' = [creating EXCEPT !.next = @ + 1]
    /\ UNCHANGED <<is_dev, db_lock, ssds, written, geometries, faults>>

\* create deletes db and returns Corruption.
CreatePutFails ==
    /\ creating # Null /\ creating.next <= NrPuts(Geometry(creating.config))
    /\ faults < MaxFaults /\ faults' = faults + 1
    /\ creating' = Null /\ db_lock' = "free"
    /\ UNCHANGED <<is_dev, meta, blocks, ssds, written, geometries>>

\* delete db, then the constructor opens the database and reads the metadata.
CreateFinish ==
    /\ creating # Null /\ creating.next > NrPuts(Geometry(creating.config))
    /\ creating' = Null /\ db_lock' = "ssd"
    /\ ssds' = Append(ssds, FromMeta)
    /\ UNCHANGED <<is_dev, meta, blocks, written, geometries, faults>>

\* That constructor throws: before it has the database, or on a Get, when
\* nobody deletes db_.
CreateFinishThrows ==
    /\ creating # Null /\ creating.next > NrPuts(Geometry(creating.config))
    /\ faults < MaxFaults /\ faults' = faults + 1
    /\ creating' = Null /\ db_lock' \in {"free", "leaked"}
    /\ UNCHANGED <<is_dev, meta, blocks, ssds, written, geometries>>

\* SSD::create on a device, and its open(2) failing.
CreateDevice(c) ==
    /\ is_dev
    /\ ssds' = Append(ssds, Geometry(c))
    /\ UNCHANGED <<is_dev, meta, blocks, db_lock, creating, written, geometries, faults>>

CreateDeviceThrows ==
    /\ is_dev /\ faults < MaxFaults /\ faults' = faults + 1
    /\ UNCHANGED <<is_dev, meta, blocks, db_lock, creating, ssds, written, geometries>>

(***************************************************************************)
(* SSD(path).  On a database it builds a temporary, which reads the        *)
(* metadata and is destroyed at once, and leaves its own fields alone; on  *)
(* a device it only sets fd_.  The temporary throws if the database is in  *)
(* use or its Open fails, or if a metadata key is missing or its Get       *)
(* fails, and then keeps it open for ever.  open(2) fails on a device.     *)
(***************************************************************************)
OpenSsd ==
    /\ \/ is_dev
       \/ db_lock = "free" /\ \A k \in MetaKeys : meta[k] # Null
    /\ ssds' = Append(ssds, Uninit)
    /\ UNCHANGED <<is_dev, meta, blocks, db_lock, creating, written, geometries, faults>>

OpenThrows ==
    /\ \/ ~is_dev /\ db_lock # "free" /\ UNCHANGED <<db_lock, faults>>
       \/ /\ ~is_dev /\ db_lock = "free" /\ \E k \in MetaKeys : meta[k] = Null
          /\ db_lock' = "leaked" /\ UNCHANGED faults
       \/ /\ faults < MaxFaults /\ faults' = faults + 1
          /\ \/ UNCHANGED db_lock
             \/ ~is_dev /\ db_lock = "free" /\ db_lock' = "leaked"
    /\ UNCHANGED <<is_dev, meta, blocks, creating, ssds, written, geometries>>

-----------------------------------------------------------------------------
\* write_block, by an SSD of geometry g.  On RocksDB a failure is a fault.
WriteBlock(g, id) ==
    /\ \E cell \in Cells(g, id) :
          /\ Reachable(cell)
          /\ blocks' = Stored(cell, id)
    /\ written' = written \cup {id}
    /\ UNCHANGED <<is_dev, meta, db_lock, creating, ssds, geometries, faults>>

WriteFails(g, id) ==
    \/ (\E cell \in Cells(g, id) : ~Reachable(cell)) /\ UNCHANGED faults
    \/ faults < MaxFaults /\ faults' = faults + 1

\* What a read_block that succeeds may return.
ReadBlock(g, id) ==
    {IF cell \in DOMAIN blocks THEN blocks[cell] ELSE Null :
        cell \in {c \in Cells(g, id) : Reachable(c)}}

\* The process dies: the store stays, everything else and the lock are gone.
LoseProcess ==
    /\ db_lock' = "free" /\ creating' = Null /\ ssds' = <<>> /\ written' = {}
    /\ UNCHANGED <<is_dev, meta, blocks, geometries>>
=============================================================================
