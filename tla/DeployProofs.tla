---------------------------- MODULE DeployProofs ----------------------------
(***************************************************************************)
(* Proofs about CApi, for every set of geometries and options and any      *)
(* number of faults, crashes and objects.                                  *)
(***************************************************************************)
EXTENDS CApi, FiniteSetTheorems, TLAPS

\* The types the argument needs.
DeployTypes ==
    /\ config \in Configs
    /\ meta \in [MetaKeys -> Int \cup {Null}]
    /\ ssds \in Seq(SsdObjects \cup {Uninit})
    /\ ssd_handle \in {NoHandle, NullSsd} \cup 1..Len(ssds)

\* A create in progress owns the database and has put what it has put.
CreateProgress ==
    creating # Null =>
        /\ ~is_dev /\ db_lock = "create"
        /\ creating \in [config : Configs, next : Nat \ {0}]
        /\ creating.config = config
        /\ 1 < creating.next => meta["blocks_per_channel"] = Geometry(config).blocks_per_channel
        /\ 2 < creating.next => meta["nr_blocks"] = Geometry(config).nr_blocks
        /\ 3 < creating.next => meta["block_size"] = Geometry(config).block_size
        /\ 4 < creating.next => meta["nr_channels"] = Geometry(config).nr_channels

\* An SSD object that is not the debris of ssd_open has the database open.
OpenOwner ==
    ~is_dev /\ (\E i \in 1..Len(ssds) : ssds[i] # Uninit) => db_lock = "ssd"

\* What an OK from create means.
CreatedHandle ==
    create_ok => /\ ssd_handle \in 1..Len(ssds)
                 /\ ssds[ssd_handle] = Geometry(config)
                 /\ proc = "running"

DeployInv == DeployTypes /\ CreateProgress /\ OpenOwner /\ CreatedHandle /\ RunningCacheHoldsDb

-----------------------------------------------------------------------------
\* The order in which create puts the four keys of the metadata.
LEMMA Meta ==
  /\ Len(MetaPuts) = 4 /\ MetaPuts[1] = "blocks_per_channel" /\ MetaPuts[2] = "nr_blocks"
  /\ MetaPuts[3] = "block_size" /\ MetaPuts[4] = "nr_channels"
  /\ MetaKeys = {"blocks_per_channel", "nr_blocks", "block_size", "nr_channels"}
  BY DEF MetaPuts, MetaKeys

\* A geometry the client may ask for makes an SSD object with all its fields.
LEMMA GeometryType ==
  ASSUME NEW c \in Configs
  PROVE  /\ Geometry(c) \in SsdObjects
         /\ Geometry(c) \in [nr_channels : Nat, blocks_per_channel : Nat,
                             block_size : Nat, nr_blocks : Nat]
  <1>1. c.nr_channels \in Nat /\ c.blocks_per_channel \in Nat /\ c.block_size \in Nat
    BY SsdAssumption
  <1>2. c.blocks_per_channel * c.nr_channels \in Nat
    BY <1>1
  <1> QED
    BY <1>1, <1>2 DEF Geometry, SsdObjects

\* A process that has made no call.
LEMMA InitDeploy == DeployInit => DeployInv
  BY DEF DeployInit, SsdInit, DeployInv, DeployTypes, CreateProgress, OpenOwner, CreatedHandle,
         RunningCacheHoldsDb, NoHandle

\* The parts of the invariant that the other variables do not touch.
LEMMA DeployFrame ==
  ASSUME DeployInv, UNCHANGED <<is_dev, meta, db_lock, creating, ssds>>,
         UNCHANGED <<config, ssd_handle, create_ok, caches, proc>>
  PROVE  DeployInv'
  BY DEF DeployInv, DeployTypes, CreateProgress, OpenOwner, CreatedHandle, RunningCacheHoldsDb

\* One Put of create.
LEMMA CreatePutKeeps ==
  ASSUME DeployInv, CreatePut, UNCHANGED apiVars
  PROVE  DeployInv'
  <1> DEFINE g == Geometry(config)
             i == creating.next
  <1>1. /\ ~is_dev /\ db_lock = "create" /\ creating.config = config
        /\ creating \in [config : Configs, next : Nat \ {0}]
    BY DEF DeployInv, CreateProgress, CreatePut
  <1>2. /\ creating' = [creating EXCEPT !.next = @ + 1]
        /\ UNCHANGED <<is_dev, db_lock, ssds>>
        /\ UNCHANGED <<config, ssd_handle, create_ok, caches, proc>>
    BY DEF CreatePut, apiVars
  <1>3. /\ creating' \in [config : Configs, next : Nat \ {0}]
        /\ creating'.config = config /\ creating'.next = i + 1 /\ i \in Nat \ {0}
    BY <1>1, <1>2
  <1>4. \/ i <= 4 /\ meta' = [meta EXCEPT ![MetaPuts[i]] = g[MetaPuts[i]]]
        \/ i > 4 /\ UNCHANGED meta
    BY <1>1, <1>3, Meta DEF CreatePut, MetaOfPut
  <1>5. /\ meta \in [MetaKeys -> Int \cup {Null}] /\ config \in Configs
        /\ 1 < i => meta["blocks_per_channel"] = g.blocks_per_channel
        /\ 2 < i => meta["nr_blocks"] = g.nr_blocks
        /\ 3 < i => meta["block_size"] = g.block_size
        /\ 4 < i => meta["nr_channels"] = g.nr_channels
    BY DEF DeployInv, DeployTypes, CreateProgress, CreatePut
  <1>6. g \in [nr_channels : Nat, blocks_per_channel : Nat, block_size : Nat, nr_blocks : Nat]
    BY <1>5, GeometryType
  <1> HIDE DEF g
  <1>7. /\ meta' \in [MetaKeys -> Int \cup {Null}]
        /\ 1 < i + 1 => meta'["blocks_per_channel"] = g.blocks_per_channel
        /\ 2 < i + 1 => meta'["nr_blocks"] = g.nr_blocks
        /\ 3 < i + 1 => meta'["block_size"] = g.block_size
        /\ 4 < i + 1 => meta'["nr_channels"] = g.nr_channels
    <2>1. CASE i > 4
      BY <1>3, <1>4, <1>5, <2>1
    <2>2. CASE i = 1
      BY <1>4, <1>5, <1>6, <2>2, Meta
    <2>3. CASE i = 2
      BY <1>4, <1>5, <1>6, <2>3, Meta
    <2>4. CASE i = 3
      BY <1>4, <1>5, <1>6, <2>4, Meta
    <2>5. CASE i = 4
      BY <1>4, <1>5, <1>6, <2>5, Meta
    <2> QED
      BY <1>3, <2>1, <2>2, <2>3, <2>4, <2>5
  <1>8. CreateProgress'
    BY <1>1, <1>2, <1>3, <1>7 DEF CreateProgress, g
  <1>9. DeployTypes' /\ OpenOwner' /\ CreatedHandle' /\ RunningCacheHoldsDb'
    BY <1>2, <1>7 DEF DeployInv, DeployTypes, OpenOwner, CreatedHandle, RunningCacheHoldsDb
  <1> QED
    BY <1>8, <1>9 DEF DeployInv

\* No SSD object is lost, and the new one comes last.
LEMMA AppendSsd ==
  ASSUME NEW s \in Seq(SsdObjects \cup {Uninit}), NEW x \in SsdObjects \cup {Uninit}
  PROVE  /\ Append(s, x) \in Seq(SsdObjects \cup {Uninit})
         /\ Len(Append(s, x)) = Len(s) + 1 /\ Len(s) \in Nat
         /\ Append(s, x)[Len(s) + 1] = x
         /\ \A k \in 1..Len(s) : Append(s, x)[k] = s[k]
  OBVIOUS

\* create succeeds: the metadata read back is what was put.
LEMMA CreateFinishKeeps ==
  ASSUME DeployInv, CreateFinish, ReturnsHandle(Len(ssds) + 1, TRUE), proc = "running"
  PROVE  DeployInv'
  <1>1. /\ ~is_dev /\ db_lock = "create" /\ creating.config = config
        /\ creating.next \in Nat /\ config \in Configs
    BY DEF DeployInv, DeployTypes, CreateProgress, CreateFinish
  <1>2. 4 < creating.next
    <2>1. Geometry(config).nr_blocks \in Nat
      BY <1>1, GeometryType
    <2> QED
      BY <1>1, <2>1, Meta DEF CreateFinish, NrPuts
  <1>3. FromMeta = Geometry(config)
    BY <1>1, <1>2 DEF DeployInv, CreateProgress, CreateFinish, FromMeta, Geometry
  <1>4. FromMeta \in SsdObjects
    BY <1>1, <1>3, GeometryType
  <1>5. /\ creating' = Null /\ db_lock' = "ssd" /\ ssds' = Append(ssds, FromMeta)
        /\ UNCHANGED <<is_dev, meta>>
        /\ ssd_handle' = Len(ssds) + 1 /\ create_ok' = TRUE
        /\ UNCHANGED <<config, caches, proc>>
    BY DEF CreateFinish, ReturnsHandle
  <1>6. DeployTypes' /\ CreatedHandle'
    BY <1>3, <1>4, <1>5, AppendSsd DEF DeployInv, DeployTypes, CreatedHandle, Geometry
  <1> QED
    BY <1>5, <1>6 DEF DeployInv, CreateProgress, OpenOwner, RunningCacheHoldsDb

\* create fails, is refused or throws: no SSD object, and nobody's database closed.
LEMMA CreateFailureKeeps ==
  ASSUME DeployInv, NEW h \in {NoHandle, NullSsd}, ReturnsHandle(h, FALSE),
         \/ CreateRefused \/ CreatePutFails \/ CreateFinishThrows
         \/ CreateDeviceThrows \/ OpenThrows
  PROVE  DeployInv'
  <1>1. /\ ssd_handle' = h /\ create_ok' = FALSE
        /\ UNCHANGED <<config, caches, proc, is_dev, meta, ssds>>
    BY DEF ReturnsHandle, CreateRefused, CreatePutFails, CreateFinishThrows,
           CreateDeviceThrows, OpenThrows, ssdVars
  <1>2. DeployTypes' /\ CreatedHandle'
    BY <1>1 DEF DeployInv, DeployTypes, CreatedHandle
  <1>3. CASE UNCHANGED <<creating, db_lock>>
    BY <1>1, <1>2, <1>3 DEF DeployInv, CreateProgress, OpenOwner, RunningCacheHoldsDb
  <1>4. CASE CreatePutFails \/ CreateFinishThrows
    BY <1>1, <1>2, <1>4 DEF DeployInv, CreateProgress, OpenOwner, RunningCacheHoldsDb,
           CreatePutFails, CreateFinishThrows
  <1>5. CASE OpenThrows /\ db_lock' # db_lock
    BY <1>1, <1>2, <1>5 DEF DeployInv, CreateProgress, OpenOwner, RunningCacheHoldsDb, OpenThrows
  <1>6. CASE OpenThrows /\ db_lock' = db_lock
    BY <1>3, <1>6 DEF OpenThrows
  <1> QED
    BY <1>3, <1>4, <1>5, <1>6 DEF CreateRefused, CreateDeviceThrows

\* An SSD object of a device, and the object of ssd_open.
LEMMA NewSsdKeeps ==
  ASSUME DeployInv, ClientReady, NEW x \in SsdObjects \cup {Uninit}, NEW ok \in BOOLEAN,
         ReturnsHandle(Len(ssds) + 1, ok), ssds' = Append(ssds, x),
         UNCHANGED <<is_dev, meta, db_lock, creating>>,
         ok => x = Geometry(config), ~is_dev => x = Uninit
  PROVE  DeployInv'
  <1>1. /\ ssd_handle' = Len(ssds) + 1 /\ create_ok' = ok
        /\ UNCHANGED <<config, caches, proc>> /\ proc = "running"
    BY DEF ReturnsHandle, ClientReady
  <1>2. DeployTypes' /\ CreatedHandle'
    BY <1>1, AppendSsd DEF DeployInv, DeployTypes, CreatedHandle, Geometry
  <1>3. OpenOwner'
    BY AppendSsd DEF DeployInv, DeployTypes, OpenOwner
  <1> QED
    BY <1>1, <1>2, <1>3 DEF DeployInv, CreateProgress, RunningCacheHoldsDb

\* ssd_create and ssd_open, with each of their outcomes.
LEMMA SsdCreateKeeps ==
  ASSUME DeployInv, ssd_create \/ ssd_create_step \/ ssd_open
  PROVE  DeployInv'
  <1>1. CASE MayCreate /\ CreateOpen(config) /\ UNCHANGED apiVars
    <2>1. /\ creating' = [config |-> config, next |-> 1] /\ db_lock = "free" /\ db_lock' = "create"
          /\ ~is_dev /\ UNCHANGED <<is_dev, meta, ssds>>
          /\ UNCHANGED <<config, ssd_handle, create_ok, caches, proc>>
      BY <1>1 DEF CreateOpen, apiVars
    <2> QED
      BY <2>1 DEF DeployInv, DeployTypes, CreateProgress, OpenOwner, CreatedHandle,
                  RunningCacheHoldsDb
  <1>2. CASE MayCreate /\ CreateDevice(config) /\ ReturnsHandle(Len(ssds) + 1, TRUE)
    <2>1. Geometry(config) \in SsdObjects
      BY GeometryType DEF DeployInv, DeployTypes
    <2> QED
      BY <1>2, <2>1, NewSsdKeeps DEF CreateDevice, MayCreate
  <1>3. CASE MayCreate /\ OpenSsd /\ ReturnsHandle(Len(ssds) + 1, FALSE)
    BY <1>3, NewSsdKeeps DEF OpenSsd, MayCreate
  <1> QED
    BY <1>1, <1>2, <1>3, CreateFailureKeeps, CreatePutKeeps, CreateFinishKeeps
    DEF ssd_create, ssd_create_step, ssd_open

\* A cache is created only on an SSD that is usable, and such an SSD holds the
\* database.
LEMMA CacheCreateKeeps ==
  ASSUME DeployInv, NEW o \in OptionSets, kvcache_create(o)
  PROVE  DeployInv'
  <1>1. /\ UNCHANGED <<is_dev, meta, db_lock, creating, ssds, config, ssd_handle, create_ok>>
        /\ ssd_handle \in {NullSsd} \cup 1..Len(ssds)
    BY DEF kvcache_create, ssdVars, DeployInv, DeployTypes
  <1>2. DeployTypes' /\ CreateProgress' /\ OpenOwner'
    BY <1>1 DEF DeployInv, DeployTypes, CreateProgress, OpenOwner
  <1>3. CASE ~Usable(ssd_handle)
    <2>1. ~create_ok
      <3>1. SUFFICES ASSUME create_ok PROVE FALSE
        OBVIOUS
      <3>2. /\ ssd_handle \in 1..Len(ssds) /\ ssds \in Seq(SsdObjects \cup {Uninit})
            /\ ssds[ssd_handle] \in SsdObjects
        BY <3>1, GeometryType DEF DeployInv, DeployTypes, CreatedHandle
      <3> QED
        BY <1>3, <3>2, SsdAssumption DEF Usable, NullSsd
    <2> QED
      BY <1>1, <1>2, <1>3, <2>1
      DEF DeployInv, CreatedHandle, RunningCacheHoldsDb, kvcache_create
  <1>4. CASE Usable(ssd_handle)
    <2>1. ~is_dev => db_lock = "ssd"
      BY <1>1, <1>4 DEF DeployInv, DeployTypes, OpenOwner, Usable
    <2>2. UNCHANGED proc
      BY <1>4 DEF kvcache_create
    <2> QED
      BY <1>1, <1>2, <2>1, <2>2 DEF DeployInv, CreatedHandle, RunningCacheHoldsDb
  <1> QED
    BY <1>3, <1>4

\* The end of the process leaves nothing that the invariant is about.
LEMMA ExitKeeps ==
  ASSUME DeployInv, LoseProcess, Exit
  PROVE  DeployInv'
  BY DEF DeployInv, DeployTypes, CreateProgress, OpenOwner, CreatedHandle, RunningCacheHoldsDb,
         LoseProcess, Exit, NoHandle

\* Every call, fault and crash keeps the invariant.
LEMMA NextDeploy == DeployInv /\ [DeployNext]_deployVars => DeployInv'
  <1> SUFFICES ASSUME DeployInv, [DeployNext]_deployVars PROVE DeployInv'
    OBVIOUS
  <1>1. ASSUME NEW c \in Configs, SetConfig(c) PROVE DeployInv'
    <2>1. /\ ssds = <<>> /\ creating = Null /\ config' = c
          /\ UNCHANGED <<is_dev, meta, db_lock, creating, ssds, ssd_handle, create_ok, caches, proc>>
      BY <1>1 DEF SetConfig, ClientReady, ssdVars
    <2>2. ~create_ok
      BY <2>1 DEF DeployInv, CreatedHandle
    <2> QED
      BY <2>1, <2>2 DEF DeployInv, DeployTypes, CreateProgress, OpenOwner, CreatedHandle,
                       RunningCacheHoldsDb
  <1>2. CASE ssd_create \/ ssd_create_step \/ ssd_open
    BY <1>2, SsdCreateKeeps
  <1>3. CASE ssd_destroy
    <2>1. /\ ssd_handle' = NoHandle /\ create_ok' = FALSE
          /\ UNCHANGED <<is_dev, meta, db_lock, creating, ssds, config, caches, proc>>
      BY <1>3 DEF ssd_destroy, ssdVars
    <2> QED
      BY <2>1 DEF DeployInv, DeployTypes, CreateProgress, OpenOwner, CreatedHandle,
                  RunningCacheHoldsDb
  <1>4. ASSUME NEW o \in OptionSets, kvcache_create(o) PROVE DeployInv'
    BY <1>4, CacheCreateKeeps
  <1>5. CASE kvcache_destroy
    BY <1>5, DeployFrame DEF kvcache_destroy, ssdVars
  <1>6. CASE CacheWrites
    <2>1. CASE \E g, id : WriteBlock(g, id) /\ UNCHANGED apiVars
      BY <2>1, DeployFrame DEF WriteBlock, apiVars
    <2>2. CASE LoseProcess /\ Exit
      BY <2>2, ExitKeeps
    <2> QED
      BY <1>6, <2>1, <2>2 DEF CacheWrites
  <1>7. CASE Crash
    BY <1>7, ExitKeeps DEF Crash
  <1>8. CASE UNCHANGED deployVars
    BY <1>8, DeployFrame DEF deployVars, ssdVars, apiVars
  <1> QED
    BY <1>1, <1>2, <1>3, <1>4, <1>5, <1>6, <1>7, <1>8 DEF DeployNext

\* DeployInv holds in every reachable state.
LEMMA DeployInvariant == DeploySpec => []DeployInv
  <1>1. DeployInit => DeployInv
    BY InitDeploy
  <1>2. DeployInv /\ [DeployNext]_deployVars => DeployInv'
    BY NextDeploy
  <1> QED
    BY <1>1, <1>2, PTL DEF DeploySpec

\* Whatever calls the client makes, and in whatever order calls, faults and
\* crashes come, a cache whose threads run has the database open.
THEOREM RunningCacheHoldsDbInvariant == DeploySpec => []RunningCacheHoldsDb
  <1>1. DeployInv => RunningCacheHoldsDb
    BY DEF DeployInv
  <1> QED
    BY <1>1, DeployInvariant, PTL

\* An OK of SSD::create means an SSD of the geometry asked for, also on a
\* database that an earlier create left half written or of another geometry.
THEOREM CreatedSsdUsableInvariant == DeploySpec => []CreatedSsdUsable
  <1>1. DeployInv => CreatedSsdUsable
    <2> SUFFICES ASSUME DeployInv, create_ok PROVE CreatedSsdUsable
      BY DEF CreatedSsdUsable
    <2>1. /\ ssd_handle \in 1..Len(ssds) /\ ssds \in Seq(SsdObjects \cup {Uninit})
          /\ ssds[ssd_handle] = Geometry(config) /\ proc = "running"
          /\ ssds[ssd_handle] \in SsdObjects
      BY GeometryType DEF DeployInv, DeployTypes, CreatedHandle
    <2> QED
      BY <2>1, SsdAssumption DEF CreatedSsdUsable, Usable, NullSsd
  <1> QED
    BY <1>1, DeployInvariant, PTL

-----------------------------------------------------------------------------
(* The blocks of a cache.                                                  *)

OneGeometry == \A c, d \in geometries : c = d

\* Every SSD object of a process has the geometry the client has asked for, which
\* stays as it is while there is one.
SsdsAgree ==
    /\ IsFiniteSet(geometries) /\ geometries \subseteq Configs
    /\ \A i \in 1..Len(ssds) : ssds[i] \in {Uninit, Geometry(config)}

\* The database has the blocks of an SSD that has it open, a create in progress has
\* put those it has put, and nobody puts a block that is in no geometry.
StoreHasBlocks ==
    ~is_dev =>
        /\ (\E i \in 1..Len(ssds) : ssds[i] # Uninit) =>
               config \in geometries /\ OwnBlocks(Geometry(config)) \subseteq DOMAIN blocks
        /\ creating # Null =>
               /\ config \in geometries
               /\ \A id \in 0..(creating.next - 6) :
                     block_key(channel_id(Geometry(config), id), id) \in DOMAIN blocks
        /\ OneGeometry =>
               \A b \in DOMAIN blocks : \E c \in geometries : b \in OwnBlocks(Geometry(c))

\* A running cache is on an SSD object with all its fields, and has found its blocks.
CachesSound ==
    /\ caches \in Seq({caches[i] : i \in DOMAIN caches})
    /\ \A i \in DOMAIN caches :
          /\ caches[i].ssd \in 1..Len(ssds) /\ ssds[caches[i].ssd] = Geometry(config)
          /\ caches[i].setup.geometry = Geometry(config)
          /\ OwnBlocks(Geometry(config)) \subseteq caches[i].setup.found
          /\ caches[i].setup.found \subseteq AllBlocks(Geometry(config))
          /\ is_dev \/ OneGeometry => caches[i].setup.found = OwnBlocks(Geometry(config))

\* What the caches of this process have written is where they will look for it.
WrittenKept ==
    /\ written # {} => caches # <<>>
    /\ \A id \in written :
          /\ is_dev => id \in 0..(Geometry(config).nr_blocks - 1)
          /\ Geometry(config).nr_blocks * Geometry(config).block_size <= 2 * IntLimit =>
                ReadBlock(Geometry(config), id) \subseteq {id}

StoreInv == SsdsAgree /\ StoreHasBlocks /\ CachesSound /\ WrittenKept

\* The blocks of an SSD and the keys they have.
LEMMA OwnBlock ==
  ASSUME NEW c \in Configs, NEW b \in OwnBlocks(Geometry(c))
  PROVE  /\ b[2] \in 0..(Geometry(c).nr_blocks - 1)
         /\ b = block_key(channel_id(Geometry(c), b[2]), b[2])
  BY DEF OwnBlocks, block_key

\* Up to 4 GiB a block has one offset that pread and pwrite accept: the true one.
LEMMA OneOffset ==
  ASSUME NEW c \in Configs, NEW id \in 0..(Geometry(c).nr_blocks - 1),
         Geometry(c).nr_blocks * Geometry(c).block_size <= 2 * IntLimit
  PROVE  {x \in Offsets(Geometry(c), id) : x >= 0} = {id * Geometry(c).block_size}
  <1> DEFINE n == Geometry(c).nr_blocks
             s == Geometry(c).block_size
             p == id * s
  <1>1. n \in Nat /\ s \in Nat \ {0} /\ IntLimit \in Nat \ {0}
    BY GeometryType, SsdAssumption DEF Geometry
  <1> HIDE DEF n, s
  <1>2. id \in Nat /\ id <= n - 1
    BY <1>1 DEF n
  <1>3. p \in Nat /\ p < n * s
    BY <1>1, <1>2
  <1>4. p < 2 * IntLimit
    <2>1. n * s \in Nat /\ n * s <= 2 * IntLimit
      BY <1>1 DEF n, s
    <2> QED
      BY <1>1, <1>3, <2>1
  <1> HIDE DEF p
  <1>5. Wrapped(p) = p \/ Wrapped(p) < 0
    BY <1>1, <1>3, <1>4 DEF Wrapped
  <1>6. Offsets(Geometry(c), id) = {p, Wrapped(p)}
    BY DEF Offsets, p, s
  <1>7. Wrapped(p) \in Int
    BY <1>1, <1>3 DEF Wrapped
  <1> QED
    BY <1>3, <1>5, <1>6, <1>7 DEF p, s

\* Two blocks of a device have two offsets.
LEMMA OffsetsDiffer ==
  ASSUME NEW i \in Nat, NEW j \in Nat, NEW s \in Nat \ {0}, i # j
  PROVE  i * s # j * s
  OBVIOUS

\* At most one geometry.
LEMMA OneGeometryCount ==
  ASSUME IsFiniteSet(geometries), Cardinality(geometries) <= 1
  PROVE  OneGeometry
  <1> SUFFICES ASSUME NEW c \in geometries, NEW d \in geometries, c # d PROVE FALSE
    BY DEF OneGeometry
  <1>1. Cardinality({c, d}) <= Cardinality(geometries)
    BY FS_Subset
  <1>2. IsFiniteSet({c}) /\ Cardinality({c}) = 1
    BY FS_Singleton
  <1>3. {c, d} = {c} \cup {d} /\ d \notin {c}
    OBVIOUS
  <1>4. Cardinality({c, d}) = 2
    BY <1>2, <1>3, FS_AddElement
  <1> QED
    BY <1>1, <1>4, FS_CardinalityType

\* The parts that depend on the store, for steps that leave it and the objects alone.
LEMMA StoreFrame ==
  ASSUME StoreInv,
         UNCHANGED <<is_dev, blocks, creating, ssds, written, geometries, config, caches>>
  PROVE  StoreInv'
  <1>1. \A id : ReadBlock(Geometry(config), id)' = ReadBlock(Geometry(config), id)
    BY DEF ReadBlock, Cells, Reachable
  <1>2. OneGeometry' <=> OneGeometry
    BY DEF OneGeometry
  <1>3. AllBlocks(Geometry(config))' = AllBlocks(Geometry(config))
    BY DEF AllBlocks
  <1>4. SsdsAgree' /\ StoreHasBlocks'
    BY <1>2 DEF StoreInv, SsdsAgree, StoreHasBlocks
  <1>5. CachesSound'
    BY <1>2, <1>3 DEF StoreInv, CachesSound
  <1>6. WrittenKept'
    BY <1>1 DEF StoreInv, WrittenKept
  <1> QED
    BY <1>4, <1>5, <1>6 DEF StoreInv

\* A store nobody has written to.
LEMMA InitStore == DeployInit => StoreInv
  <1> SUFFICES ASSUME DeployInit PROVE StoreInv
    OBVIOUS
  <1>1. /\ blocks = <<>> /\ ssds = <<>> /\ creating = Null /\ written = {} /\ geometries = {}
        /\ caches = <<>>
    BY DEF DeployInit, SsdInit
  <1>2. SsdsAgree
    BY <1>1, FS_EmptySet DEF SsdsAgree
  <1>3. StoreHasBlocks
    BY <1>1 DEF StoreHasBlocks
  <1>4. CachesSound /\ WrittenKept
    BY <1>1 DEF CachesSound, WrittenKept
  <1> QED
    BY <1>2, <1>3, <1>4 DEF StoreInv

\* Without a cache there is nothing that a cache could rely on.
LEMMA NoCache ==
  ASSUME caches' = <<>>, written' = {}
  PROVE  CachesSound' /\ WrittenKept'
  BY DEF CachesSound, WrittenKept

\* While a create is at work, or about to begin, nobody uses the database.
LEMMA NobodyUsesDb ==
  ASSUME DeployInv, StoreInv, ~is_dev, db_lock # "ssd"
  PROVE  caches = <<>> /\ written = {} /\ \A i \in 1..Len(ssds) : ssds[i] = Uninit
  BY DEF DeployInv, RunningCacheHoldsDb, OpenOwner, StoreInv, WrittenKept

\* create begins, perhaps with another geometry than the last one.
LEMMA CreateOpenStore ==
  ASSUME DeployInv, StoreInv, CreateOpen(config), UNCHANGED apiVars
  PROVE  StoreInv'
  <1>1. /\ ~is_dev /\ db_lock = "free" /\ creating' = [config |-> config, next |-> 1]
        /\ geometries' = geometries \cup {config}
        /\ UNCHANGED <<is_dev, blocks, ssds, written, config, caches>>
    BY DEF CreateOpen, apiVars
  <1>2. caches = <<>> /\ written = {} /\ \A i \in 1..Len(ssds) : ssds[i] = Uninit
    BY <1>1, NobodyUsesDb
  <1>3. config \in Configs
    BY DEF DeployInv, DeployTypes
  <1>4. SsdsAgree'
    <2>1. IsFiniteSet(geometries \cup {config})
      BY FS_AddElement DEF StoreInv, SsdsAgree
    <2> QED
      BY <1>1, <1>2, <1>3, <2>1 DEF StoreInv, SsdsAgree
  <1>5. StoreHasBlocks'
    <2>1. OneGeometry' => OneGeometry
      BY <1>1 DEF OneGeometry
    <2>2. creating'.next - 6 = -5
      BY <1>1
    <2>3. 0..(creating'.next - 6) = {}
      BY <2>2
    <2> QED
      BY <1>1, <1>2, <2>1, <2>3 DEF StoreInv, StoreHasBlocks
  <1> QED
    BY <1>1, <1>2, <1>4, <1>5, NoCache DEF StoreInv

\* create puts a block, or a key of the metadata.
LEMMA CreatePutStore ==
  ASSUME DeployInv, StoreInv, CreatePut, UNCHANGED apiVars
  PROVE  StoreInv'
  <1> DEFINE g == Geometry(config)
             i == creating.next
  <1>1. /\ creating # Null /\ ~is_dev /\ db_lock = "create" /\ creating.config = config
        /\ creating \in [config : Configs, next : Nat \ {0}] /\ config \in Configs
    BY DEF DeployInv, DeployTypes, CreateProgress, CreatePut
  <1>2. /\ creating' = [creating EXCEPT !.next = @ + 1] /\ creating'.next = i + 1
        /\ UNCHANGED <<is_dev, ssds, written, geometries, config, caches>>
    BY <1>1 DEF CreatePut, apiVars
  <1>3. caches = <<>> /\ written = {} /\ \A k \in 1..Len(ssds) : ssds[k] = Uninit
    BY <1>1, NobodyUsesDb
  <1>4. SsdsAgree'
    BY <1>2 DEF StoreInv, SsdsAgree
  <1>5. /\ config \in geometries /\ i \in Nat
        /\ \A id \in 0..(i - 6) : block_key(channel_id(g, id), id) \in DOMAIN blocks
    BY <1>1 DEF StoreInv, StoreHasBlocks
  <1>6. OneGeometry' <=> OneGeometry
    BY <1>2 DEF OneGeometry
  <1>7. g.nr_blocks \in Nat
    BY <1>1, GeometryType
  <1>8. CASE i <= 4
    <2>1. UNCHANGED blocks
      BY <1>1, <1>8, Meta DEF CreatePut
    <2>2. 0..(i + 1 - 6) = {}
      BY <1>5, <1>8
    <2>3. StoreHasBlocks'
      BY <1>2, <1>3, <1>5, <1>6, <2>1, <2>2 DEF StoreInv, StoreHasBlocks
    <2> QED
      BY <1>2, <1>3, <1>4, <2>3, NoCache DEF StoreInv
  <1>9. CASE i > 4
    <2> DEFINE id == i - 5
               cell == block_key(channel_id(g, id), id)
    <2>1. blocks' = Stored(cell, Null) /\ i <= 4 + g.nr_blocks
      BY <1>1, <1>5, <1>9, Meta DEF CreatePut, BlockOfPut, NrPuts
    <2>2. DOMAIN blocks' = DOMAIN blocks \cup {cell}
      BY <2>1 DEF Stored
    <2>3. id \in 0..(g.nr_blocks - 1)
      BY <1>5, <1>7, <1>9, <2>1
    <2>4. cell \in OwnBlocks(g)
      BY <2>3 DEF OwnBlocks
    <2> HIDE DEF g
    <2>5. ASSUME NEW k \in 0..(i + 1 - 6) PROVE block_key(channel_id(g, k), k) \in DOMAIN blocks'
      <3>1. k = id \/ k \in 0..(i - 6)
        BY <1>5, <1>9
      <3> QED
        BY <1>5, <2>2, <3>1
    <2> HIDE DEF id, cell
    <2>6. OneGeometry => \A b \in DOMAIN blocks' : \E c \in geometries : b \in OwnBlocks(Geometry(c))
      BY <1>1, <1>5, <2>2, <2>4 DEF StoreInv, StoreHasBlocks, g
    <2>7. StoreHasBlocks'
      BY <1>2, <1>3, <1>5, <1>6, <2>5, <2>6 DEF StoreHasBlocks, g
    <2> QED
      BY <1>2, <1>3, <1>4, <2>7, NoCache DEF StoreInv
  <1> QED
    BY <1>5, <1>8, <1>9

\* create has put every block when it succeeds.
LEMMA CreateFinishStore ==
  ASSUME DeployInv, StoreInv, CreateFinish, ReturnsHandle(Len(ssds) + 1, TRUE),
         DeployInv', CreatedHandle'
  PROVE  StoreInv'
  <1> DEFINE g == Geometry(config)
  <1>1. /\ creating # Null /\ ~is_dev /\ db_lock = "create" /\ creating.config = config
        /\ creating \in [config : Configs, next : Nat \ {0}] /\ config \in Configs
        /\ ssds \in Seq(SsdObjects \cup {Uninit})
    BY DEF DeployInv, DeployTypes, CreateProgress, CreateFinish
  <1>2. /\ creating' = Null /\ ssds' = Append(ssds, FromMeta) /\ ssd_handle' = Len(ssds) + 1
        /\ create_ok' /\ UNCHANGED <<is_dev, blocks, written, geometries, config, caches>>
    BY DEF CreateFinish, ReturnsHandle
  <1>3. caches = <<>> /\ written = {} /\ \A k \in 1..Len(ssds) : ssds[k] = Uninit
    BY <1>1, NobodyUsesDb
  <1>4. /\ config \in geometries
        /\ \A id \in 0..(creating.next - 6) :
              block_key(channel_id(g, id), id) \in DOMAIN blocks
    BY <1>1 DEF StoreInv, StoreHasBlocks
  <1>5. g.nr_blocks \in Nat
    BY <1>1, GeometryType
  <1>6. creating.next > 4 + g.nr_blocks
    BY <1>1, Meta DEF CreateFinish, NrPuts
  <1>7. OwnBlocks(g) \subseteq DOMAIN blocks
    <2> SUFFICES ASSUME NEW id \in 0..(g.nr_blocks - 1)
                 PROVE  block_key(channel_id(g, id), id) \in DOMAIN blocks
      BY DEF OwnBlocks
    <2>1. id \in 0..(creating.next - 6)
      BY <1>1, <1>5, <1>6
    <2> QED
      BY <1>4, <2>1
  <1>8. \A k \in 1..Len(ssds') : ssds'[k] \in {Uninit, g}
    <2>1. ssds'[Len(ssds) + 1] = g /\ ssds' \in Seq(SsdObjects \cup {Uninit})
      BY <1>2 DEF CreatedHandle, DeployInv, DeployTypes
    <2>2. Len(ssds') = Len(ssds) + 1 /\ Len(ssds) \in Nat
          /\ \A k \in 1..Len(ssds) : ssds'[k] = ssds[k]
      BY <1>1, <1>2
    <2> QED
      BY <1>3, <2>1, <2>2
  <1>9. SsdsAgree'
    BY <1>2, <1>8 DEF StoreInv, SsdsAgree
  <1>10. StoreHasBlocks'
    <2>1. OneGeometry' <=> OneGeometry
      BY <1>2 DEF OneGeometry
    <2> QED
      BY <1>1, <1>2, <1>4, <1>7, <2>1 DEF StoreInv, StoreHasBlocks
  <1> QED
    BY <1>2, <1>3, <1>9, <1>10, NoCache DEF StoreInv

\* A new SSD object of a device, or one of ssd_open.
LEMMA NewSsdStore ==
  ASSUME DeployInv, StoreInv, NEW x \in {Uninit, Geometry(config)}, ~is_dev => x = Uninit,
         ssds' = Append(ssds, x), 
         UNCHANGED <<is_dev, blocks, creating, written, geometries, config, caches>>
  PROVE  StoreInv'
  <1>1. ssds \in Seq(SsdObjects \cup {Uninit}) /\ config \in Configs
    BY DEF DeployInv, DeployTypes
  <1>2. x \in SsdObjects \cup {Uninit}
    BY <1>1, GeometryType
  <1>3. /\ Len(ssds') = Len(ssds) + 1 /\ Len(ssds) \in Nat /\ ssds'[Len(ssds) + 1] = x
        /\ \A k \in 1..Len(ssds) : ssds'[k] = ssds[k]
    BY <1>1, <1>2, AppendSsd
  <1>4. \A k \in 1..Len(ssds') : k \in 1..Len(ssds) \/ k = Len(ssds) + 1
    BY <1>3
  <1>5. OneGeometry' <=> OneGeometry
    BY DEF OneGeometry
  <1>6. SsdsAgree'
    BY <1>3, <1>4 DEF StoreInv, SsdsAgree
  <1>7. StoreHasBlocks'
    <2>1. ~is_dev /\ (\E k \in 1..Len(ssds') : ssds'[k] # Uninit)
             => \E k \in 1..Len(ssds) : ssds[k] # Uninit
      BY <1>3, <1>4
    <2> QED
      BY <1>5, <2>1 DEF StoreInv, StoreHasBlocks
  <1>8. CachesSound'
    <2>1. AllBlocks(Geometry(config))' = AllBlocks(Geometry(config))
      BY DEF AllBlocks
    <2>2. 1..Len(ssds) \subseteq 1..Len(ssds')
      BY <1>3
    <2> QED
      BY <1>3, <1>5, <2>1, <2>2 DEF StoreInv, CachesSound
  <1>9. WrittenKept'
    <2>1. \A id : ReadBlock(Geometry(config), id)' = ReadBlock(Geometry(config), id)
      BY DEF ReadBlock, Cells, Reachable
    <2> QED
      BY <2>1 DEF StoreInv, WrittenKept
  <1> QED
    BY <1>6, <1>7, <1>8, <1>9 DEF StoreInv

\* A create that does not succeed leaves the store as it is, half written perhaps.
LEMMA FailureStore ==
  ASSUME StoreInv, creating' \in {creating, Null},
         UNCHANGED <<is_dev, blocks, ssds, written, geometries, config, caches>>
  PROVE  StoreInv'
  <1>1. \A id : ReadBlock(Geometry(config), id)' = ReadBlock(Geometry(config), id)
    BY DEF ReadBlock, Cells, Reachable
  <1>2. OneGeometry' <=> OneGeometry
    BY DEF OneGeometry
  <1>3. AllBlocks(Geometry(config))' = AllBlocks(Geometry(config))
    BY DEF AllBlocks
  <1>4. SsdsAgree' /\ StoreHasBlocks'
    BY <1>2 DEF StoreInv, SsdsAgree, StoreHasBlocks
  <1>5. CachesSound'
    BY <1>2, <1>3 DEF StoreInv, CachesSound
  <1>6. WrittenKept'
    BY <1>1 DEF StoreInv, WrittenKept
  <1> QED
    BY <1>4, <1>5, <1>6 DEF StoreInv

\* The end of the process leaves the store.
LEMMA ExitStore ==
  ASSUME StoreInv, LoseProcess, Exit
  PROVE  StoreInv'
  <1>1. /\ creating' = Null /\ ssds' = <<>> /\ written' = {} /\ caches' = <<>>
        /\ UNCHANGED <<is_dev, blocks, geometries, config>>
    BY DEF LoseProcess, Exit
  <1>2. OneGeometry' <=> OneGeometry
    BY <1>1 DEF OneGeometry
  <1>3. SsdsAgree' /\ StoreHasBlocks'
    BY <1>1, <1>2 DEF StoreInv, SsdsAgree, StoreHasBlocks
  <1> QED
    BY <1>1, <1>3, NoCache DEF StoreInv

\* The client changes the geometry while it has no SSD object.
LEMMA SetConfigStore ==
  ASSUME StoreInv, NEW c \in Configs, SetConfig(c)
  PROVE  StoreInv'
  <1>1. /\ creating = Null /\ ssds = <<>>
        /\ UNCHANGED <<is_dev, blocks, creating, ssds, written, geometries, caches>>
    BY DEF SetConfig, ClientReady, ssdVars
  <1>2. caches = <<>> /\ written = {}
    <2>1. DOMAIN caches = {}
      BY <1>1 DEF StoreInv, CachesSound
    <2>2. caches = <<>>
      BY <2>1 DEF StoreInv, CachesSound
    <2> QED
      BY <2>2 DEF StoreInv, WrittenKept
  <1>3. OneGeometry' <=> OneGeometry
    BY <1>1 DEF OneGeometry
  <1>4. SsdsAgree' /\ StoreHasBlocks'
    BY <1>1, <1>3 DEF StoreInv, SsdsAgree, StoreHasBlocks
  <1> QED
    BY <1>1, <1>2, <1>4, NoCache DEF StoreInv

\* A cache is one more element of caches.
LEMMA AppendCache ==
  ASSUME NEW s, NEW S, s \in Seq(S), NEW x
  PROVE  /\ Append(s, x) \in Seq(S \cup {x})
         /\ Len(s) \in Nat /\ DOMAIN s = 1..Len(s)
         /\ DOMAIN Append(s, x) = 1..(Len(s) + 1)
         /\ Append(s, x)[Len(s) + 1] = x
         /\ \A k \in DOMAIN s : Append(s, x)[k] = s[k]
  <1>1. s \in Seq(S \cup {x}) /\ x \in S \cup {x}
    OBVIOUS
  <1> QED
    BY <1>1

\* A sequence is one over the set of its elements.
LEMMA OverItsElements ==
  ASSUME NEW S, NEW s \in Seq(S)
  PROVE  s \in Seq({s[i] : i \in DOMAIN s})
  OBVIOUS

\* The constructor finds every block of the SSD, and in one geometry no other.
LEMMA CacheCreateStore ==
  ASSUME DeployInv, StoreInv, NEW o \in OptionSets, kvcache_create(o)
  PROVE  StoreInv'
  <1> DEFINE g == Geometry(config)
  <1>1. /\ UNCHANGED <<is_dev, blocks, creating, ssds, written, geometries, config>>
        /\ ssd_handle \in {NullSsd} \cup 1..Len(ssds) /\ config \in Configs
    BY DEF kvcache_create, ssdVars, DeployInv, DeployTypes
  <1>2. CASE UNCHANGED caches
    BY <1>1, <1>2, StoreFrame
  <1>3. CASE ~UNCHANGED caches
    <2>1. Usable(ssd_handle)
      BY <1>3 DEF kvcache_create
    <2>2. ssd_handle \in 1..Len(ssds) /\ ssds[ssd_handle] = g
      BY <1>1, <2>1 DEF Usable, StoreInv, SsdsAgree
    <2>3. PICK sizes \in ClassTables(g, o) : \E s \in Setups(g, o, sizes, AllBlocks(g)) :
             caches' = Append(caches, [ssd |-> ssd_handle, setup |-> s])
      BY <1>3, <2>1, <2>2 DEF kvcache_create
    <2>4. PICK s \in Setups(g, o, sizes, AllBlocks(g)) :
             caches' = Append(caches, [ssd |-> ssd_handle, setup |-> s])
      BY <2>3
    <2>5. s.geometry = g /\ s.found = AllBlocks(g)
      BY <2>4 DEF Setups
    <2> DEFINE x == [ssd |-> ssd_handle, setup |-> s]
    <2>6. g # Uninit
      BY <2>1, <2>2 DEF Usable
    <2>7. ~is_dev => config \in geometries /\ OwnBlocks(g) \subseteq DOMAIN blocks
      BY <2>2, <2>6 DEF StoreInv, StoreHasBlocks
    <2>8. OwnBlocks(g) \subseteq AllBlocks(g)
      BY <2>7 DEF AllBlocks
    <2>9. is_dev \/ OneGeometry => AllBlocks(g) = OwnBlocks(g)
      <3>1. CASE is_dev
        BY <3>1 DEF AllBlocks
      <3>2. CASE ~is_dev /\ OneGeometry
        <4>1. \A b \in DOMAIN blocks : \E c \in geometries : b \in OwnBlocks(Geometry(c))
          BY <3>2 DEF StoreInv, StoreHasBlocks
        <4>2. \A c \in geometries : c = config
          BY <2>7, <3>2 DEF OneGeometry
        <4> QED
          BY <2>7, <3>2, <4>1, <4>2 DEF AllBlocks
      <3> QED
        BY <3>1, <3>2
    <2>10. AllBlocks(g)' = AllBlocks(g) /\ (OneGeometry' <=> OneGeometry) /\ g' = g
      BY <1>1 DEF AllBlocks, OneGeometry
    <2>11. x.ssd = ssd_handle /\ x.setup.geometry = g /\ x.setup.found = AllBlocks(g)
      BY <2>5
    <2> HIDE DEF x
    <2>12. /\ caches' \in Seq({caches[i] : i \in DOMAIN caches} \cup {x})
           /\ Len(caches) \in Nat /\ DOMAIN caches = 1..Len(caches)
           /\ DOMAIN caches' = 1..(Len(caches) + 1) /\ caches'[Len(caches) + 1] = x
           /\ \A k \in DOMAIN caches : caches'[k] = caches[k]
      <3>1. caches \in Seq({caches[i] : i \in DOMAIN caches})
        BY DEF StoreInv, CachesSound
      <3> QED
        BY <2>4, <3>1, AppendCache DEF x
    <2>13. caches' \in Seq({caches'[i] : i \in DOMAIN caches'})
      BY <2>12, OverItsElements
    <2>14. ASSUME NEW i \in DOMAIN caches'
           PROVE  /\ caches'[i].ssd \in 1..Len(ssds) /\ ssds[caches'[i].ssd] = g
                  /\ caches'[i].setup.geometry = g
                  /\ OwnBlocks(g) \subseteq caches'[i].setup.found
                  /\ caches'[i].setup.found \subseteq AllBlocks(g)
                  /\ is_dev \/ OneGeometry => caches'[i].setup.found = OwnBlocks(g)
      <3>1. i \in DOMAIN caches \/ i = Len(caches) + 1
        BY <2>12
      <3>2. CASE i \in DOMAIN caches
        BY <2>12, <3>2 DEF StoreInv, CachesSound
      <3>3. CASE i = Len(caches) + 1
        BY <2>2, <2>8, <2>9, <2>11, <2>12, <3>3
      <3> QED
        BY <3>1, <3>2, <3>3
    <2>15. CachesSound'
      BY <1>1, <2>10, <2>13, <2>14 DEF CachesSound
    <2>16. caches' # <<>>
      BY <2>12
    <2>17. SsdsAgree' /\ StoreHasBlocks'
      BY <1>1, <2>10 DEF StoreInv, SsdsAgree, StoreHasBlocks
    <2>18. WrittenKept'
      <3>1. \A id : ReadBlock(g, id)' = ReadBlock(g, id)
        BY <1>1 DEF ReadBlock, Cells, Reachable
      <3> QED
        BY <1>1, <2>16, <3>1 DEF StoreInv, WrittenKept
    <2> QED
      BY <2>15, <2>17, <2>18 DEF StoreInv
  <1> QED
    BY <1>2, <1>3

\* A write is found by a read of its block and by no other read.
LEMMA WriteIsRead ==
  ASSUME NEW c \in Configs, NEW id, NEW cell \in Cells(Geometry(c), id), Reachable(cell),
         blocks' = Stored(cell, id), UNCHANGED is_dev,
         is_dev => id \in 0..(Geometry(c).nr_blocks - 1),
         Geometry(c).nr_blocks * Geometry(c).block_size <= 2 * IntLimit
  PROVE  /\ ReadBlock(Geometry(c), id)' \subseteq {id}
         /\ \A k : /\ k # id
                   /\ is_dev => k \in 0..(Geometry(c).nr_blocks - 1)
                   => ReadBlock(Geometry(c), k)' = ReadBlock(Geometry(c), k)
  <1> DEFINE g == Geometry(c)
             At(k) == {x \in Cells(g, k) : Reachable(x)}
  <1>1. \A k : At(k)' = At(k)
    BY DEF Cells, Reachable
  <1>2. At(id) = {cell}
    <2>1. CASE is_dev
      <3>1. At(id) = {id * g.block_size}
        BY <2>1, OneOffset DEF Cells, Reachable
      <3>2. cell \in At(id)
        OBVIOUS
      <3> QED
        BY <3>1, <3>2
    <2>2. CASE ~is_dev
      BY <2>2 DEF Cells, Reachable
    <2> QED
      BY <2>1, <2>2
  <1>3. ASSUME NEW k, k # id, is_dev => k \in 0..(g.nr_blocks - 1)
        PROVE  cell \notin At(k)
    <2>1. CASE is_dev
      <3>1. At(id) = {id * g.block_size} /\ At(k) = {k * g.block_size}
        BY <1>3, <2>1, OneOffset DEF Cells, Reachable
      <3>2. g.block_size \in Nat \ {0} /\ g.nr_blocks \in Nat
        BY GeometryType, SsdAssumption DEF Geometry
      <3>3. id \in Nat /\ k \in Nat
        BY <1>3, <2>1, <3>2
      <3>4. id * g.block_size # k * g.block_size
        BY <1>3, <3>2, <3>3, OffsetsDiffer
      <3> QED
        BY <1>2, <3>1, <3>4
    <2>2. CASE ~is_dev
      BY <1>3, <2>2 DEF Cells, block_key
    <2> QED
      BY <2>1, <2>2
  <1>4. /\ DOMAIN blocks' = DOMAIN blocks \cup {cell} /\ blocks'[cell] = id
        /\ \A x \in DOMAIN blocks : x # cell => blocks'[x] = blocks[x]
    BY DEF Stored
  <1>5. \A k : /\ ReadBlock(g, k) =
                    {IF x \in DOMAIN blocks THEN blocks[x] ELSE Null : x \in At(k)}
               /\ ReadBlock(g, k)' =
                    {IF x \in DOMAIN blocks' THEN blocks'[x] ELSE Null : x \in At(k)}
    BY <1>1 DEF ReadBlock
  <1> HIDE DEF At, g
  <1>6. ReadBlock(g, id)' = {id}
    BY <1>2, <1>4, <1>5
  <1>7. ASSUME NEW k, k # id, is_dev => k \in 0..(g.nr_blocks - 1)
        PROVE  ReadBlock(g, k)' = ReadBlock(g, k)
    <2>1. cell \notin At(k)
      BY <1>3, <1>7
    <2> DEFINE Before(x) == IF x \in DOMAIN blocks THEN blocks[x] ELSE Null
               After(x) == IF x \in DOMAIN blocks' THEN blocks'[x] ELSE Null
    <2>2. \A x \in At(k) : After(x) = Before(x)
      BY <1>4, <2>1
    <2>3. /\ ReadBlock(g, k) = {Before(x) : x \in At(k)}
          /\ ReadBlock(g, k)' = {After(x) : x \in At(k)}
      BY <1>5
    <2> HIDE DEF Before, After
    <2>4. {After(x) : x \in At(k)} = {Before(x) : x \in At(k)}
      BY <2>2
    <2> QED
      BY <2>3, <2>4
  <1> QED
    BY <1>6, <1>7 DEF g

\* A thread of a cache writes one of its blocks.
LEMMA CacheWriteStore ==
  ASSUME DeployInv, StoreInv, NEW i \in DOMAIN caches, NEW b \in caches[i].setup.found,
         WriteBlock(ssds[caches[i].ssd], b[2]), UNCHANGED apiVars
  PROVE  StoreInv'
  <1> DEFINE g == Geometry(config)
             id == b[2]
  <1>1. /\ config \in Configs /\ caches[i].ssd \in 1..Len(ssds) /\ ssds[caches[i].ssd] = g
        /\ is_dev \/ OneGeometry => b \in OwnBlocks(g)
    BY DEF DeployInv, DeployTypes, StoreInv, CachesSound
  <1>2. /\ written' = written \cup {id}
        /\ UNCHANGED <<is_dev, creating, ssds, geometries, config, caches>>
    BY DEF WriteBlock, apiVars
  <1>3. PICK cell \in Cells(g, id) : Reachable(cell) /\ blocks' = Stored(cell, id)
    BY <1>1 DEF WriteBlock
  <1>4. DOMAIN blocks' = DOMAIN blocks \cup {cell}
    BY <1>3 DEF Stored
  <1>5. is_dev => id \in 0..(g.nr_blocks - 1)
    BY <1>1, OwnBlock
  <1>6. ~is_dev /\ OneGeometry => cell \in OwnBlocks(g)
    BY <1>1, <1>3, OwnBlock DEF Cells
  <1>7. ~is_dev => config \in geometries
    <2>1. g # Uninit
      BY <1>1, GeometryType, SsdAssumption
    <2> QED
      BY <1>1, <2>1 DEF StoreInv, StoreHasBlocks
  <1>8. OneGeometry' <=> OneGeometry
    BY <1>2 DEF OneGeometry
  <1>9. SsdsAgree'
    BY <1>2 DEF StoreInv, SsdsAgree
  <1>10. StoreHasBlocks'
    BY <1>2, <1>4, <1>6, <1>7, <1>8 DEF StoreInv, StoreHasBlocks
  <1>11. CachesSound'
    <2>1. AllBlocks(g) \subseteq AllBlocks(g)'
      BY <1>2, <1>4 DEF AllBlocks
    <2> QED
      BY <1>2, <1>8, <2>1 DEF StoreInv, CachesSound
  <1>12. WrittenKept'
    <2>1. caches # <<>>
      OBVIOUS
    <2>2. ASSUME NEW k \in written'
          PROVE  /\ is_dev => k \in 0..(g.nr_blocks - 1)
                 /\ g.nr_blocks * g.block_size <= 2 * IntLimit => ReadBlock(g, k)' \subseteq {k}
      <3>1. is_dev => k \in 0..(g.nr_blocks - 1)
        BY <1>2, <1>5 DEF StoreInv, WrittenKept
      <3>2. ASSUME g.nr_blocks * g.block_size <= 2 * IntLimit
            PROVE  ReadBlock(g, k)' \subseteq {k}
        <4>1. CASE k = id
          BY <1>1, <1>2, <1>3, <1>5, <3>2, <4>1, WriteIsRead
        <4>2. CASE k # id
          <5>1. ReadBlock(g, k)' = ReadBlock(g, k)
            BY <1>1, <1>2, <1>3, <1>5, <3>1, <3>2, <4>2, WriteIsRead
          <5>2. ReadBlock(g, k) \subseteq {k}
            BY <1>2, <2>2, <3>2, <4>2 DEF StoreInv, WrittenKept
          <5> QED
            BY <5>1, <5>2
        <4> QED
          BY <4>1, <4>2
      <3> QED
        BY <3>1, <3>2
    <2> QED
      BY <1>2, <2>1, <2>2 DEF WrittenKept
  <1> QED
    BY <1>9, <1>10, <1>11, <1>12 DEF StoreInv

\* The calls that may leave an SSD object, one by one.
LEMMA SsdCreateStore ==
  ASSUME DeployInv, StoreInv, ssd_create \/ ssd_create_step \/ ssd_open
  PROVE  StoreInv'
  <1>1. CASE CreateOpen(config) /\ UNCHANGED apiVars
    BY <1>1, CreateOpenStore
  <1>2. CASE CreatePut /\ UNCHANGED apiVars
    BY <1>2, CreatePutStore
  <1>3. CASE CreateFinish /\ ReturnsHandle(Len(ssds) + 1, TRUE) /\ proc = "running"
    <2>1. DeployInv'
      BY <1>3, CreateFinishKeeps
    <2> QED
      BY <1>3, <2>1, CreateFinishStore DEF DeployInv
  <1>4. CASE CreateDevice(config) /\ ReturnsHandle(Len(ssds) + 1, TRUE)
    BY <1>4, NewSsdStore DEF CreateDevice, ReturnsHandle
  <1>5. CASE OpenSsd /\ ReturnsHandle(Len(ssds) + 1, FALSE)
    BY <1>5, NewSsdStore DEF OpenSsd, ReturnsHandle
  <1>6. ASSUME NEW h, ReturnsHandle(h, FALSE),
               \/ CreateRefused \/ CreatePutFails \/ CreateFinishThrows
               \/ CreateDeviceThrows \/ OpenThrows
        PROVE  StoreInv'
    BY <1>6, FailureStore
    DEF ReturnsHandle, CreateRefused, CreatePutFails, CreateFinishThrows, CreateDeviceThrows,
        OpenThrows, ssdVars
  <1> QED
    BY <1>1, <1>2, <1>3, <1>4, <1>5, <1>6 DEF ssd_create, ssd_create_step, ssd_open

\* Every call, write, fault and crash keeps what is known of the store.
LEMMA NextStore == DeployInv /\ StoreInv /\ [DeployNext]_deployVars => StoreInv'
  <1> SUFFICES ASSUME DeployInv, StoreInv, [DeployNext]_deployVars PROVE StoreInv'
    OBVIOUS
  <1>1. ASSUME NEW c \in Configs, SetConfig(c) PROVE StoreInv'
    BY <1>1, SetConfigStore
  <1>2. CASE ssd_create \/ ssd_create_step \/ ssd_open
    BY <1>2, SsdCreateStore
  <1>3. CASE ssd_destroy
    BY <1>3, StoreFrame DEF ssd_destroy, ssdVars
  <1>4. ASSUME NEW o \in OptionSets, kvcache_create(o) PROVE StoreInv'
    BY <1>4, CacheCreateStore
  <1>5. CASE kvcache_destroy
    BY <1>5, StoreFrame DEF kvcache_destroy, ssdVars
  <1>6. CASE CacheWrites
    <2>1. PICK i \in DOMAIN caches : \E b \in caches[i].setup.found :
             \/ WriteBlock(ssds[caches[i].ssd], b[2]) /\ UNCHANGED apiVars
             \/ LoseProcess /\ Exit
      BY <1>6 DEF CacheWrites
    <2> QED
      BY <2>1, CacheWriteStore, ExitStore
  <1>7. CASE Crash
    BY <1>7, ExitStore DEF Crash
  <1>8. CASE UNCHANGED deployVars
    BY <1>8, StoreFrame DEF deployVars, ssdVars, apiVars
  <1> QED
    BY <1>1, <1>2, <1>3, <1>4, <1>5, <1>6, <1>7, <1>8 DEF DeployNext

\* StoreInv holds in every reachable state.
LEMMA StoreInvariant == DeploySpec => []StoreInv
  <1>1. DeployInit => StoreInv
    BY InitStore
  <1>2. DeployInv /\ StoreInv /\ [DeployNext]_deployVars => StoreInv'
    BY NextStore
  <1> QED
    BY <1>1, <1>2, DeployInvariant, PTL DEF DeploySpec

\* For every set of geometries, and whatever creates have failed or died half way
\* before: a running cache has a dslab for every block of its SSD, the store has
\* what the cache has, and a database that has seen one geometry has nothing else.
THEOREM DslabsMatchBlocksInvariant == DeploySpec => []DslabsMatchBlocks
  <1>1. DeployInv /\ StoreInv => DslabsMatchBlocks
    <2> SUFFICES ASSUME DeployInv, StoreInv, NEW i \in DOMAIN caches
                 PROVE  LET g == caches[i].setup.geometry  found == caches[i].setup.found IN
                        /\ OwnBlocks(g) \subseteq found /\ found \subseteq AllBlocks(g)
                        /\ Cardinality(geometries) <= 1
                           => found = OwnBlocks(g) /\ found = AllBlocks(g)
      BY DEF DslabsMatchBlocks
    <2> DEFINE g == Geometry(config)
    <2>1. /\ caches[i].setup.geometry = g /\ OwnBlocks(g) \subseteq caches[i].setup.found
          /\ caches[i].setup.found \subseteq AllBlocks(g)
          /\ is_dev \/ OneGeometry => caches[i].setup.found = OwnBlocks(g)
          /\ caches[i].ssd \in 1..Len(ssds) /\ ssds[caches[i].ssd] = g /\ config \in Configs
      BY DEF StoreInv, CachesSound, DeployInv, DeployTypes
    <2>2. ASSUME Cardinality(geometries) <= 1
          PROVE  caches[i].setup.found = OwnBlocks(g) /\ AllBlocks(g) = OwnBlocks(g)
      <3>1. OneGeometry
        BY <2>2, OneGeometryCount DEF StoreInv, SsdsAgree
      <3>2. CASE is_dev
        BY <2>1, <3>2 DEF AllBlocks
      <3>3. CASE ~is_dev
        <4>1. g # Uninit
          BY <2>1, GeometryType, SsdAssumption
        <4>2. config \in geometries
          BY <2>1, <3>3, <4>1 DEF StoreInv, StoreHasBlocks
        <4>3. DOMAIN blocks \subseteq OwnBlocks(g)
          BY <3>1, <3>3, <4>2 DEF StoreInv, StoreHasBlocks, OneGeometry
        <4> QED
          BY <2>1, <3>1, <3>3, <4>3 DEF AllBlocks
      <3> QED
        BY <3>2, <3>3
    <2> QED
      BY <2>1, <2>2
  <1> QED
    BY <1>1, DeployInvariant, StoreInvariant, PTL

\* For every geometry of at most 4 GiB, and whatever the build makes of the offset
\* that overflows: a read that succeeds returns what this process wrote there.
THEOREM BlocksKeepTheirDataInvariant == DeploySpec => []BlocksKeepTheirData
  <1>1. StoreInv => BlocksKeepTheirData
    BY DEF StoreInv, CachesSound, WrittenKept, BlocksKeepTheirData
  <1> QED
    BY <1>1, StoreInvariant, PTL

=============================================================================
