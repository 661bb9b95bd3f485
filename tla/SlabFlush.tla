----------------------------- MODULE SlabFlush ------------------------------
(***************************************************************************)
(* The flush thread: do_slab_flush in a loop.  It moves a full mslab to a  *)
(* free dslab, makes the index point there and recycles the mslab.         *)
(* flush_pc names the place in do_slab_flush:                              *)
(*   "wait"     on flush_signal_ for a full mslab (also: not yet started)  *)
(*   "pick"     scanning the channels for a free dslab                     *)
(*   "wait_gc"  on gc_finished_signal_ for the collector to free one       *)
(*   "write"    write_block and the dslab's header, no lock held           *)
(*   "index"    modify_index_to under index_mutex_                         *)
(*   "recycle"  mslab -> mslab_free_                                       *)
(*   "publish"  dslab -> dslab_full_                                       *)
(*   "exit"     after shutdown                                             *)
(***************************************************************************)
EXTENDS CacheState

VARIABLES
    flush_pc,
    flush_mslab, flush_dslab,       \* the locals mslab and dslab
    next_mslab_flush_channel

flushVars == <<flush_pc, flush_mslab, flush_dslab, next_mslab_flush_channel>>

FlushTypeOK ==
    /\ flush_pc \in {"wait", "pick", "wait_gc", "write", "index", "recycle",
                     "publish", "exit"}
    /\ flush_mslab \in MSlabs \cup {None}
    /\ flush_dslab \in DSlabs \cup {None}
    /\ next_mslab_flush_channel \in Channels

FlushInit ==
    /\ flush_pc = "wait" /\ flush_mslab = None /\ flush_dslab = None
    /\ next_mslab_flush_channel = 0

FlushExit ==
    /\ flush_pc \in {"wait", "wait_gc"} /\ shutdown
    /\ flush_pc' = "exit"
    /\ UNCHANGED <<flush_mslab, flush_dslab, next_mslab_flush_channel, cacheVars>>

\* Mutant: the mslab is not taken off its list.
PeekFullMslab ==
    /\ flush_pc = "wait" /\ ~shutdown
    /\ \E m \in mslab_full : flush_mslab' = m
    /\ flush_pc' = "pick"
    /\ UNCHANGED <<flush_dslab, next_mslab_flush_channel, cacheVars>>

TakeFullMslab ==
    /\ flush_pc = "wait" /\ ~shutdown
    /\ \E m \in mslab_full :
          /\ mslab_full' = mslab_full \ {m}
          /\ flush_mslab' = m
    /\ flush_pc' = "pick"
    /\ UNCHANGED <<flush_dslab, next_mslab_flush_channel, slab, data, index_table,
                   slab_partial, mslab_free, dslabVars, markVars, destroyer>>

PickFreeDslab ==
    /\ flush_pc = "pick"
    /\ \E d \in FoundFrom(next_mslab_flush_channel, dslab_free) :
          /\ dslab_free' = dslab_free \ {d}
          /\ flush_dslab' = d
          /\ next_mslab_flush_channel' = NextChannel(ChannelOf[d])
    /\ nr_free_dslab' = nr_free_dslab - 1
    /\ flush_pc' = "write"
    /\ UNCHANGED <<flush_mslab, slab, data, index_table, mslabVars, dslab_full,
                   ops_pool, nr_full_dslab, ops_pool_size, markVars, destroyer>>

\* No channel has one: slab_gc(), and wait.
NoFreeDslab ==
    /\ flush_pc = "pick" /\ dslab_free = {}
    /\ flush_pc' = "wait_gc"
    /\ UNCHANGED <<flush_mslab, flush_dslab, next_mslab_flush_channel, cacheVars>>

GcFinished ==
    /\ flush_pc = "wait_gc" /\ ~shutdown
    /\ nr_free_dslab > 0
    /\ flush_pc' = "pick"
    /\ UNCHANGED <<flush_mslab, flush_dslab, next_mslab_flush_channel, cacheVars>>

WriteDslab ==
    /\ flush_pc = "write"
    /\ flush_mslab_to_dslab(flush_mslab, flush_dslab)
    /\ flush_pc' = "index"
    /\ UNCHANGED <<flush_mslab, flush_dslab, next_mslab_flush_channel, index_table,
                   mslabVars, dslabVars, markVars, destroyer>>

MoveIndexToDslab ==
    /\ flush_pc = "index"
    /\ modify_index_to(flush_mslab, flush_dslab)
    /\ flush_pc' = "recycle"
    /\ UNCHANGED <<flush_mslab, flush_dslab, next_mslab_flush_channel, data,
                   mslabVars, dslabVars, markVars, destroyer>>

\* Mutant: the mslab is reset but not put back.
RecycleForgetsList ==
    /\ flush_pc = "recycle"
    /\ slab' = [slab EXCEPT ![flush_mslab] = ResetHeader]
    /\ flush_mslab' = None
    /\ flush_pc' = "publish"
    /\ UNCHANGED <<flush_dslab, next_mslab_flush_channel, data, index_table,
                   mslabVars, dslabVars, markVars, destroyer>>

RecycleMslab ==
    /\ flush_pc = "recycle"
    /\ slab' = [slab EXCEPT ![flush_mslab] = ResetHeader]
    /\ mslab_free' = mslab_free \cup {flush_mslab}
    /\ flush_mslab' = None
    /\ flush_pc' = "publish"
    /\ UNCHANGED <<flush_dslab, next_mslab_flush_channel, data, index_table,
                   slab_partial, mslab_full, dslabVars, markVars, destroyer>>

\* Blocked while the collector holds dslab_full_mutex_ (DslabFullLocked).
PublishDslab(DslabFullLocked) ==
    /\ flush_pc = "publish"
    /\ ~DslabFullLocked
    /\ dslab_full' = dslab_full \cup {flush_dslab}
    /\ nr_full_dslab' = nr_full_dslab + 1
    /\ flush_dslab' = None
    /\ flush_pc' = "wait"
    /\ UNCHANGED <<flush_mslab, next_mslab_flush_channel, slab, data, index_table,
                   mslabVars, dslab_free, ops_pool, nr_free_dslab, ops_pool_size,
                   markVars, destroyer>>

FlushNext(DslabFullLocked) ==
    \/ FlushExit \/ TakeFullMslab \/ PickFreeDslab \/ NoFreeDslab \/ GcFinished
    \/ WriteDslab \/ MoveIndexToDslab \/ RecycleMslab
    \/ PublishDslab(DslabFullLocked)
=============================================================================
