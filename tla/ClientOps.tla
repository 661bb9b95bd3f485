----------------------------- MODULE ClientOps ------------------------------
(***************************************************************************)
(* What client threads do to a KVCache: Put, Delete and Get.               *)
(*                                                                         *)
(* Put holds writer_mutex_ from its first statement to its return, so one  *)
(* program counter, put_pc, stands for whichever client is inside it.  Its *)
(* steps are the regions between two lock operations that other threads    *)
(* can observe:                                                            *)
(*   "alloc"      slot_alloc, with or without a slab to allocate from      *)
(*   "wait_flush" waiting on flush_finished_signal_ for a free mslab       *)
(*   "index"      the section under index_mutex_                           *)
(*   "wait_index" waiting on gc_finished_signal_ for a free index entry    *)
(*   "finish"     after index_mutex_: hand a full slab to the flush thread *)
(* Delete is one section under index_mutex_.  Get finds the value under a  *)
(* shared index_mutex_ (get_slice) and copies it after the lock is gone.   *)
(***************************************************************************)
EXTENDS CacheState

CONSTANTS
    Readers,    \* client threads that call Get
    MaxCalls,   \* bound on the number of Put and Delete calls in a behaviour
    NDEBUG      \* TRUE for the release build, which compiles assert away

ASSUME ClientAssumption == MaxCalls \in Nat /\ NDEBUG \in BOOLEAN

VARIABLES
    put_pc,     \* where the Put in progress stands, "idle" when there is none
    put_arg,    \* its key and value
    put_slot,   \* the slot it has allocated and written
    calls,      \* number of Put and Delete calls so far, at most MaxCalls
    reader      \* [Readers -> what the thread's Get has in hand]

putVars == <<put_pc, put_arg, put_slot>>
clientVars == <<putVars, calls, reader>>

PutPCs == {"idle", "alloc", "wait_flush", "index", "wait_index", "finish"}
NoGet == [pc |-> "idle"]

\* A Get that holds a string_view into a slab in memory, which it has found to
\* hold the slot "found"; and a Get about to return what it has copied.
ReaderOK(g) == \/ g.pc = "idle"
               \/ g.pc = "copy" /\ g.slab \in MemSlabs /\ g.slot \in Nat
               \/ g.pc = "done"

ClientTypeOK ==
    /\ put_pc \in PutPCs
    /\ put_arg \in Slot \cup {None}
    /\ put_slot \in [slab : MSlabs, slot : Nat] \cup {None}
    /\ calls \in 0..MaxCalls
    /\ DOMAIN reader = Readers /\ \A r \in Readers : ReaderOK(reader[r])

ClientInit ==
    /\ put_pc = "idle" /\ put_arg = None /\ put_slot = None /\ calls = 0
    /\ reader = [r \in Readers |-> NoGet]

-----------------------------------------------------------------------------
\* lower_bound over the sorted class table: the class of the smallest slots
\* that hold the object, as a set that is empty when none does (ObjectTooLarge).
get_slab_class(kv) ==
    {c \in Classes : /\ SlotSize[c] >= KVSize[kv.key][kv.value]
                     /\ \A b \in Classes : b < c => SlotSize[b] < KVSize[kv.key][kv.value]}

Put(kv) ==
    /\ put_pc = "idle" /\ ~shutdown
    /\ calls < MaxCalls
    /\ calls' = calls + 1
    /\ IF get_slab_class(kv) = {}
       THEN UNCHANGED <<put_pc, put_arg>>      \* returns ObjectTooLarge
       ELSE put_pc' = "alloc" /\ put_arg' = kv
    /\ UNCHANGED <<put_slot, reader, cacheVars>>

\* slot_alloc from the class's partial slab, and Slot::Write.
slot_alloc ==
    /\ put_pc = "alloc"
    /\ \E c \in get_slab_class(put_arg) : \E m \in slab_partial[c] :
          LET i == slab[m].nr_alloc IN
          /\ slab' = [slab EXCEPT ![m] = Allocated(@)]
          /\ data' = [data EXCEPT ![m][i] = put_arg]
          /\ slab_partial' = IF is_full(slab'[m])
                             THEN [slab_partial EXCEPT ![c] = @ \ {m}] ELSE slab_partial
          /\ put_slot' = [slab |-> m, slot |-> i]
    /\ put_pc' = "index"
    /\ UNCHANGED <<put_arg, calls, reader, index_table, mslab_free, mslab_full,
                   dslabVars, markVars, destroyer>>

\* Mutant: a free mslab is opened although the class has a partial slab.
TakeSpareMslab ==
    /\ put_pc = "alloc"
    /\ \E c \in get_slab_class(put_arg), m \in mslab_free :
          /\ mslab_free' = mslab_free \ {m}
          /\ slab' = [slab EXCEPT ![m].cid = c]
          /\ slab_partial' = [slab_partial EXCEPT ![c] = @ \cup {m}]
    /\ UNCHANGED <<clientVars, data, index_table, mslab_full, dslabVars, markVars, destroyer>>

\* slot_alloc, no partial slab: open a free mslab for the class and retry.
TakeFreeMslab ==
    /\ put_pc = "alloc"
    /\ \E c \in get_slab_class(put_arg) :
       /\ slab_partial[c] = {}
       /\ \E m \in mslab_free :
            /\ mslab_free' = mslab_free \ {m}
            /\ slab' = [slab EXCEPT ![m].cid = c]
            /\ slab_partial' = [slab_partial EXCEPT ![c] = {m}]
    /\ UNCHANGED <<clientVars, data, index_table, mslab_full, dslabVars, markVars, destroyer>>

\* slot_alloc, no free mslab: slab_flush() and wait for the flush thread.
NoFreeMslab ==
    /\ put_pc = "alloc"
    /\ \E c \in get_slab_class(put_arg) : slab_partial[c] = {}
    /\ mslab_free = {}
    /\ put_pc' = "wait_flush"
    /\ UNCHANGED <<put_arg, put_slot, calls, reader, cacheVars>>

\* wait_slab_flush_until_shutdown returns; on shutdown Put fails.
FlushFinished ==
    /\ put_pc = "wait_flush"
    /\ \/ shutdown /\ put_pc' = "idle" /\ put_arg' = None
       \/ ~shutdown /\ mslab_free # {} /\ put_pc' = "alloc" /\ UNCHANGED put_arg
    /\ UNCHANGED <<put_slot, calls, reader, cacheVars>>

PutDigest == DigestOf[put_arg.key]

\* The key (its digest) is indexed: the entry moves to the new slot, and the
\* slab of the old one has one valid object less.
UpdateIndexEntry ==
    /\ put_pc = "index"
    /\ index_table[PutDigest] # None
    /\ slab' = [slab EXCEPT ![index_table[PutDigest].slab].nr_used = @ - 1]
    /\ index_table' = [index_table EXCEPT ![PutDigest] = put_slot]
    /\ put_pc' = "finish"
    /\ UNCHANGED <<put_arg, put_slot, calls, reader, data, mslabVars, dslabVars,
                   markVars, destroyer>>

\* The key is not indexed: allocate an entry and fill it.  The while loop
\* gets here at once or after a wait; it does not look the key up again.
InsertIndexEntry ==
    /\ \/ put_pc = "index" /\ index_table[PutDigest] = None
       \/ put_pc = "wait_index"
    /\ nr_free_index_entry > 0
    /\ index_table' = [index_table EXCEPT ![PutDigest] = put_slot]
    /\ put_pc' = "finish"
    /\ UNCHANGED <<put_arg, put_slot, calls, reader, slab, data, mslabVars, dslabVars,
                   markVars, destroyer>>

\* Mutant: without a free entry the object is not indexed.
GiveUpIndexing ==
    /\ put_pc = "index" /\ index_table[PutDigest] = None
    /\ nr_free_index_entry = 0
    /\ put_pc' = "finish"
    /\ UNCHANGED <<put_arg, put_slot, calls, reader, cacheVars>>

\* No free entry: slab_flush(), slab_gc(), and wait without index_mutex_.
NoFreeIndexEntry ==
    /\ put_pc = "index" /\ index_table[PutDigest] = None
    /\ nr_free_index_entry = 0
    /\ put_pc' = "wait_index"
    /\ UNCHANGED <<put_arg, put_slot, calls, reader, cacheVars>>

\* Mutant: the full slab is handed to nobody.
FinishPutKeepsSlab ==
    /\ put_pc = "finish"
    /\ put_pc' = "idle" /\ put_arg' = None /\ put_slot' = None
    /\ UNCHANGED <<calls, reader, cacheVars>>

\* A slab that the Put has filled goes to the flush thread; Put returns OK.
FinishPut ==
    /\ put_pc = "finish"
    /\ LET m == put_slot.slab IN
       mslab_full' = IF is_full(slab[m]) THEN mslab_full \cup {m} ELSE mslab_full
    /\ put_pc' = "idle" /\ put_arg' = None /\ put_slot' = None
    /\ UNCHANGED <<calls, reader, slab, data, index_table, slab_partial, mslab_free,
                   dslabVars, markVars, destroyer>>

-----------------------------------------------------------------------------
\* The decrement is the operand of an assert: the release build drops it.
Delete(k) ==
    LET g == DigestOf[k] IN
    /\ ~shutdown
    /\ calls < MaxCalls
    /\ calls' = calls + 1
    /\ index_table[g] # None
    /\ index_table' = [index_table EXCEPT ![g] = None]
    /\ slab' = IF NDEBUG THEN slab
               ELSE [slab EXCEPT ![index_table[g].slab].nr_used = @ - 1]
    /\ UNCHANGED <<putVars, reader, data, mslabVars, dslabVars, markVars, destroyer>>

-----------------------------------------------------------------------------
\* Mutant: trusting the digest.
LookupByDigest(k) ==
    LET e == index_table[DigestOf[k]] IN
    IF e # None THEN data[e.slab][e.slot] ELSE None

\* The slot get_slice finds for k, if it holds k itself and not another key
\* with the same digest.  Otherwise Get returns NotFound.
Lookup(k) ==
    LET e == index_table[DigestOf[k]] IN
    IF e # None /\ data[e.slab][e.slot].key = k THEN data[e.slab][e.slot] ELSE None

\* get_slice: a value in memory is returned as a view of the slab, a value on
\* the SSD is read into the caller's own buffer.
GetSlice(r, k) ==
    LET e == index_table[DigestOf[k]] IN
    /\ reader[r] = NoGet /\ ~shutdown
    /\ Lookup(k) # None
    /\ reader' = [reader EXCEPT ![r] =
            IF e.slab \in MemSlabs
            THEN [pc |-> "copy", slab |-> e.slab, slot |-> e.slot, found |-> Lookup(k)]
            ELSE [pc |-> "done", found |-> Lookup(k), got |-> Lookup(k)]]
    /\ UNCHANGED <<putVars, calls, cacheVars>>

\* Get copies the bytes the view points at, with no lock held.  Bytes that
\* another thread has rewritten, or is rewriting, come out new or torn (None).
CopySlice(r) ==
    /\ reader[r].pc = "copy"
    /\ LET view == reader[r]
           now == data[view.slab][view.slot] IN
       \E got \in IF now = view.found THEN {now} ELSE {now, None} :
          reader' = [reader EXCEPT ![r] = [pc |-> "done", found |-> view.found, got |-> got]]
    /\ UNCHANGED <<putVars, calls, cacheVars>>

GetReturn(r) ==
    /\ reader[r].pc = "done"
    /\ reader' = [reader EXCEPT ![r] = NoGet]
    /\ UNCHANGED <<putVars, calls, cacheVars>>

PutStep == \/ slot_alloc \/ TakeFreeMslab \/ NoFreeMslab \/ FlushFinished
           \/ UpdateIndexEntry \/ InsertIndexEntry \/ NoFreeIndexEntry \/ FinishPut

ClientNext ==
    \/ \E kv \in Slot : Put(kv)
    \/ PutStep
    \/ \E k \in Keys : Delete(k)
    \/ \E r \in Readers, k \in Keys : GetSlice(r, k)
    \/ \E r \in Readers : CopySlice(r) \/ GetReturn(r)
=============================================================================
