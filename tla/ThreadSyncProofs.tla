-------------------------- MODULE ThreadSyncProofs --------------------------
(***************************************************************************)
(* ThreadSync implements KVCache, for every value of the constants and     *)
(* every choice of modes.  What KVCacheProofs proves of KVCache holds of   *)
(* the cache with its condition variables and foreground modes, too.       *)
(***************************************************************************)
EXTENDS ThreadSync, LossyMapProofs

\* A step of a program is a step of that program in KVCache.
LEMMA ProgramSteps ==
    ASSUME PutProgram \/ FlushProgram \/ GcProgram \/ ClientCalls
    PROVE  Next
<1>1. CASE PutProgram
  <2>1. PutStep /\ UNCHANGED <<flushVars, gcVars>>
    BY <1>1 DEF PutProgram
  <2>2. ClientStep
    BY <2>1 DEF ClientStep, ClientNext
  <2> QED BY <2>2 DEF Next
<1>2. CASE FlushProgram
  BY <1>2 DEF FlushProgram, Next, FlushStep
<1>3. CASE GcProgram
  BY <1>3 DEF GcProgram, Next, GcStep
<1>4. CASE ClientCalls
  <2>1. ClientNext
    BY <1>4 DEF ClientCalls, ClientNext
  <2>2. UNCHANGED <<flushVars, gcVars>>
    BY <1>4 DEF ClientCalls
  <2> QED BY <2>1, <2>2 DEF Next, ClientStep
<1> QED BY <1>1, <1>2, <1>3, <1>4

\* The destructor's steps; passing over a flush thread that never started is
\* that thread's exit.
LEMMA DestructorSteps ==
    ASSUME SetShutdown \/ SkipFlushThread \/ Join
    PROVE  Next
<1>1. CASE SetShutdown
  BY <1>1 DEF SetShutdown, Next, DestroyStep
<1>2. CASE SkipFlushThread
  <2>1. FlushNext(DslabFullLocked) /\ UNCHANGED <<clientVars, gcVars>>
    BY <1>2 DEF SkipFlushThread, FlushNext
  <2> QED BY <2>1 DEF Next, FlushStep
<1>3. CASE Join
  BY <1>3 DEF Join, Next, DestroyStep
<1> QED BY <1>1, <1>2, <1>3

\* Notifying, calling, testing, sleeping and waking change nothing of the cache.
LEMMA SyncSteps ==
    ASSUME NEW p, \/ RetryGc \/ Notify(p) \/ CallSlabFlush \/ CallSlabGc(p)
                  \/ TestIndexEntries \/ Return(p) \/ Test(p) \/ Sleep(p) \/ SpuriousWake(p)
    PROVE  UNCHANGED vars
BY DEF RetryGc, Notify, CallSlabFlush, CallSlabGc, TestIndexEntries, Return, Test, Sleep,
       SpuriousWake

\* Every step with condition variables is one of KVCache or leaves its variables alone.
LEMMA SyncNextRefines == SyncNext => Next \/ UNCHANGED vars
<1> SUFFICES ASSUME SyncNext PROVE Next \/ UNCHANGED vars
  OBVIOUS
<1>1. CASE ClientCalls
  BY <1>1, ProgramSteps
<1>2. CASE PutThread
  BY <1>2, ProgramSteps, SyncSteps DEF PutThread
<1>3. CASE FlushThread
  BY <1>3, ProgramSteps, SyncSteps DEF FlushThread
<1>4. CASE GcThread
  BY <1>4, ProgramSteps, SyncSteps DEF GcThread
<1>5. CASE SetShutdown \/ DestroyThread
  BY <1>5, DestructorSteps, SyncSteps DEF DestroyThread
<1>6. CASE \E p \in Programs : SpuriousWake(p)
  BY <1>6, SyncSteps
<1> QED BY <1>1, <1>2, <1>3, <1>4, <1>5, <1>6 DEF SyncNext

(***************************************************************************)
(* The cache with its condition variables, thread start, notifications and *)
(* foreground modes implements KVCache.                                    *)
(***************************************************************************)
THEOREM SyncImplementsKVCache == SyncSpec => ImplementsKVCache
<1>1. SyncInit => Init
  BY DEF SyncInit
<1>2. [SyncNext]_allVars => [Next]_vars
  BY SyncNextRefines DEF allVars
<1> QED BY <1>1, <1>2, PTL DEF SyncSpec, ImplementsKVCache, Spec

(***************************************************************************)
(* No slab is in two hands in any mode, although foreground flush and GC   *)
(* run on the thread of a client.                                          *)
(***************************************************************************)
THEOREM SyncOneHand == SyncSpec => [](OneHand /\ NoMslabLost)
BY SyncImplementsKVCache, OneHandInvariant, NoMslabLostInvariant, PTL
   DEF ImplementsKVCache

(***************************************************************************)
(* In every mode the cache is a map that may lose what it holds and never  *)
(* returns a value that was not put, whichever thread flushes and collects *)
(* and whoever sleeps.                                                     *)
(***************************************************************************)
THEOREM SyncIsLossyMap == SyncSpec => ImplementsLossyMap
BY SyncImplementsKVCache, CacheIsLossyMap, PTL DEF ImplementsKVCache

-----------------------------------------------------------------------------
(* Who may sleep, and what wakes it.                                       *)

Duties == Signals \cup {"slab_flush", "slab_gc", "test", "return"}

SyncTypeOK ==
    /\ options \in [flush : BOOLEAN, gc : BOOLEAN]
    /\ waiting \in [Programs -> {"no", "tested", "asleep"}]
    /\ owed \in [Programs \cup {"destroy"} -> Seq(Duties)]
    /\ caller \in [{"flush", "gc"} -> {"none", "put", "flush"}]

\* A thread waits where its program waits, owes nothing while it does, and a
\* do_slab_flush that waits in the foreground has its Put wait with it.
WaitPlaces ==
    /\ waiting["put"] # "no" \/ owed["put"] # <<>> => put_pc \in {"wait_flush", "wait_index"}
    /\ waiting["flush"] # "no" => flush_pc \in {"wait", "wait_gc"} /\ owed["flush"] = <<>>
    /\ waiting["gc"] # "no" => gc_pc = "wait"
    /\ waiting["flush"] # "no" => options.flush \/ caller["flush"] = "put"
    /\ caller["flush"] \in {"none", "put"}

\* A thread that is between its test and its sleep has nothing to wait for missed,
\* and one that sleeps is about to be notified if it has.
PutMissesNothing ==
    waiting["put"] # "no" /\ put_pc = "wait_flush" /\ mslab_free # {} =>
        waiting["put"] = "asleep" /\ (flush_pc = "publish" \/ Due("flush_finished"))

FlushMissesNothing ==
    /\ waiting["flush"] # "no" /\ flush_pc = "wait" => mslab_full = {}
    /\ waiting["flush"] # "no" /\ flush_pc = "wait_gc" /\ nr_free_dslab > 0 =>
           waiting["flush"] = "asleep" /\ Due("gc_finished")

GcMissesNothing ==
    waiting["gc"] # "no" /\ nr_full_dslab > 0 => waiting["gc"] = "asleep" /\ Due("gc")

MissesNothing == WaitPlaces /\ PutMissesNothing /\ FlushMissesNothing /\ GcMissesNothing

Wakeful == ~shutdown => SyncTypeOK /\ MissesNothing

\* The mutex of each wait is the one that guards what its predicate reads.
LEMMA WaitMutexes ==
    /\ put_pc = "finish" => Mutex("put") = "mslab_full"
    /\ put_pc = "wait_flush" => Mutex("put") = "mslab_free"
    /\ flush_pc = "wait" => Mutex("flush") = "mslab_full"
    /\ flush_pc = "wait_gc" => Mutex("flush") = "dslab_free"
    /\ flush_pc = "recycle" => Mutex("flush") = "mslab_free"
    /\ flush_pc = "publish" => Mutex("flush") = "dslab_full"
    /\ gc_pc = "wait" => Mutex("gc") = "dslab_full"
    /\ gc_pc = "to_free" => Mutex("gc") = "dslab_free"
BY DEF Mutex

\* What each wait reads and which notification ends it.
LEMMA WaitSignals ==
    /\ put_pc = "wait_flush" => /\ SignalOf("put") = "flush_finished"
                                /\ Pred("put") <=> mslab_free # {} \/ shutdown
    /\ flush_pc = "wait" => /\ SignalOf("flush") = "flush"
                            /\ Pred("flush") <=> mslab_full # {} \/ shutdown
    /\ flush_pc = "wait_gc" => /\ SignalOf("flush") = "gc_finished"
                               /\ Pred("flush") <=> nr_free_dslab > 0 \/ shutdown
    /\ SignalOf("gc") = "gc"
    /\ Pred("gc") <=> nr_full_dslab > 0 \/ shutdown
BY DEF SignalOf, Pred

\* What the steps of Put, of the flush thread and of the collector may do to what
\* the others wait for.
LEMMA PutTouches ==
  ASSUME PutStep
  PROVE  /\ UNCHANGED <<dslabVars, destroyer>>
         /\ mslab_full' # mslab_full => put_pc = "finish"
  BY DEF PutStep, slot_alloc, TakeFreeMslab, NoFreeMslab, FlushFinished, UpdateIndexEntry,
         InsertIndexEntry, NoFreeIndexEntry, FinishPut, cacheVars, mslabVars

\* What do_slab_flush leaves alone.
LEMMA FlushTouches ==
  ASSUME TypeOK, FlushNext(DslabFullLocked)
  PROVE  /\ destroyer' = destroyer
         /\ mslab_free' # mslab_free => flush_pc = "recycle" /\ flush_pc' = "publish"
         /\ nr_full_dslab' # nr_full_dslab => flush_pc = "publish"
         /\ flush_pc = "publish" => flush_pc' = "wait"
  BY DEF FlushNext, FlushExit, TakeFullMslab, PickFreeDslab, NoFreeDslab, GcFinished,
         WriteDslab, MoveIndexToDslab, RecycleMslab, PublishDslab, cacheVars, mslabVars, dslabVars

\* What do_slab_gc leaves alone.
LEMMA GcTouches ==
  ASSUME GcNext
  PROVE  /\ UNCHANGED <<mslabVars, destroyer>>
         /\ nr_free_dslab' # nr_free_dslab => gc_pc = "to_free" /\ gc_pc' = "wait"
  BY DEF GcNext, QuickGcNext, NormalGcNext, quick_gc, TuneMarks,
         GcExit, GcWakes, ChooseDropOne, ChooseQuickGc, ChooseNormalGc,
         SelectDslab, SelectionDone, evict_dslab, ReclaimToOps, CollectChannel, DrainQueue,
         AddToBatch, BatchEnds, TakeOpsDslab, MoveObjects, WriteGcBuffer,
         MoveIndexToOpsDslab, RefillOps, RefillDone, ShrinkOps, ReclaimToFree,
         cacheVars, mslabVars, dslabVars

\* Nobody takes shutdown_ back.
LEMMA ShutdownStays == ASSUME SyncNext, shutdown PROVE shutdown'
  <1>1. CASE UNCHANGED vars
    BY <1>1 DEF vars, cacheVars, shutdown
  <1>2. CASE ClientStep
    BY <1>2 DEF ClientStep, ClientNext, PutStep, Put, slot_alloc, TakeFreeMslab,
                NoFreeMslab, FlushFinished, UpdateIndexEntry, InsertIndexEntry,
                NoFreeIndexEntry, FinishPut, Delete, GetSlice, CopySlice, GetReturn,
                cacheVars, shutdown
  <1>3. CASE FlushStep
    BY <1>3 DEF FlushStep, FlushNext, FlushExit, TakeFullMslab, PickFreeDslab, NoFreeDslab,
                GcFinished, WriteDslab, MoveIndexToDslab, RecycleMslab, PublishDslab,
                cacheVars, shutdown
  <1>4. CASE GcStep
    BY <1>4, GcTouches DEF GcStep, shutdown
  <1>5. CASE DestroyStep
    BY <1>5 DEF DestroyStep, BeginShutdown, JoinThreads, shutdown
  <1> QED
    BY <1>1, <1>2, <1>3, <1>4, <1>5, SyncNextRefines DEF Next

-----------------------------------------------------------------------------
(* What is due stays due until it is done.                                 *)

\* Duties followed by a return.
LEMMA DutiesAndReturn ==
  ASSUME NEW p \in Programs, NEW q \in Seq(Duties)
  PROVE  /\ q \o AndReturn(p) \in Seq(Duties)
         /\ \A i \in DOMAIN q : /\ i \in DOMAIN (q \o AndReturn(p))
                               /\ (q \o AndReturn(p))[i] = q[i]
  <1>1. AndReturn(p) \in Seq(Duties)
    <2>1. <<"return">> \in Seq(Duties) /\ <<>> \in Seq(Duties)
      BY DEF Duties
    <2>2. AndReturn(p) = <<"return">> \/ AndReturn(p) = <<>>
      BY DEF AndReturn
    <2> QED
      BY <2>1, <2>2
  <1> QED
    BY <1>1

\* Duties new to a thread that has none.
LEMMA DueOwed ==
  ASSUME SyncTypeOK, NEW t \in Programs \cup {"destroy"}, NEW q \in Seq(Duties), NEW s,
         owed[t] = <<>>, Owe(t, q)
  PROVE  /\ Due(s) => Due(s)'
         /\ (\E i \in DOMAIN q : q[i] = s) => Due(s)'
         /\ owed' \in [Programs \cup {"destroy"} -> Seq(Duties)]
         /\ owed'[t] = q /\ \A u \in Programs \cup {"destroy"} : u # t => owed'[u] = owed[u]
  <1>1. owed \in [Programs \cup {"destroy"} -> Seq(Duties)] /\ owed' = [owed EXCEPT ![t] = q]
    BY DEF SyncTypeOK, Owe
  <1>2. /\ owed'[t] = q /\ \A u \in Programs \cup {"destroy"} : u # t => owed'[u] = owed[u]
        /\ owed' \in [Programs \cup {"destroy"} -> Seq(Duties)]
        /\ DOMAIN owed = Programs \cup {"destroy"} /\ DOMAIN owed' = Programs \cup {"destroy"}
    BY <1>1
  <1>3. ASSUME Due(s) PROVE Due(s)'
    <2>1. PICK u \in Programs \cup {"destroy"} : \E i \in DOMAIN owed[u] : owed[u][i] = s
      BY <1>2, <1>3 DEF Due
    <2>2. u # t
      BY <2>1
    <2> QED
      BY <1>2, <2>1, <2>2 DEF Due
  <1>4. ASSUME \E i \in DOMAIN q : q[i] = s PROVE Due(s)'
    BY <1>2, <1>4 DEF Due
  <1> QED
    BY <1>2, <1>3, <1>4

\* The first duty of a thread, done.
LEMMA DueDone ==
  ASSUME SyncTypeOK, NEW t \in Programs \cup {"destroy"}, NEW s,
         owed[t] # <<>>, Owe(t, Tail(owed[t]))
  PROVE  /\ Due(s) /\ Head(owed[t]) # s => Due(s)'
         /\ owed' \in [Programs \cup {"destroy"} -> Seq(Duties)]
         /\ \A u \in Programs \cup {"destroy"} : u # t => owed'[u] = owed[u]
  <1>1. owed \in [Programs \cup {"destroy"} -> Seq(Duties)]
    BY DEF SyncTypeOK
  <1> DEFINE q == owed[t]
  <1>2. owed' = [owed EXCEPT ![t] = Tail(q)] /\ q \in Seq(Duties) /\ q # <<>>
    BY <1>1 DEF Owe
  <1>3. Tail(q) \in Seq(Duties)
    BY <1>2
  <1>4. /\ owed'[t] = Tail(q)
        /\ \A u \in Programs \cup {"destroy"} : u # t => owed'[u] = owed[u]
        /\ owed' \in [Programs \cup {"destroy"} -> Seq(Duties)]
        /\ DOMAIN owed = Programs \cup {"destroy"} /\ DOMAIN owed' = Programs \cup {"destroy"}
    BY <1>1, <1>2, <1>3
  <1>5. ASSUME Due(s), Head(q) # s PROVE Due(s)'
    <2>1. PICK u \in Programs \cup {"destroy"} : \E i \in DOMAIN owed[u] : owed[u][i] = s
      BY <1>4, <1>5 DEF Due
    <2>2. PICK i \in DOMAIN owed[u] : owed[u][i] = s
      BY <2>1
    <2>3. CASE u # t
      BY <1>4, <2>1, <2>3 DEF Due
    <2>4. CASE u = t
      <3>1. i \in 1..Len(q) /\ q[i] = s /\ i # 1
        BY <1>2, <1>5, <2>2, <2>4
      <3> HIDE DEF q
      <3>2. i - 1 \in DOMAIN Tail(q) /\ Tail(q)[i - 1] = s
        BY <1>2, <3>1
      <3> QED
        BY <1>4, <3>2 DEF Due
    <2> QED
      BY <2>3, <2>4
  <1> QED
    BY <1>4, <1>5

\* A notification wakes those who sleep for it and nobody else.
LEMMA WokenBy ==
  ASSUME SyncTypeOK, NEW s, waiting' = Woken(s)
  PROVE  /\ waiting' \in [Programs -> {"no", "tested", "asleep"}]
         /\ \A p \in Programs : /\ waiting'[p] \in {waiting[p], "no"}
                                /\ waiting[p] = "asleep" /\ SignalOf(p) = s => waiting'[p] = "no"
  BY DEF SyncTypeOK, Woken

-----------------------------------------------------------------------------
(* Every step leaves every sleeper its wake-up.                            *)

\* Duties and wake-ups: nobody begins to wait, and a notification that is no longer
\* due has woken those who slept for it.
LEMMA DutiesMissNothing ==
  ASSUME SyncTypeOK, MissesNothing, UNCHANGED <<vars, options>>,
         caller'["flush"] \in {"none", "put"},
         waiting["flush"] # "no" => caller'["flush"] = caller["flush"]
                                    /\ owed'["flush"] = owed["flush"],
         owed'["put"] # <<>> => owed["put"] # <<>>,
         \A p \in Programs : waiting'[p] \in {waiting[p], "no"},
         \A s \in Signals : Due(s) => \/ Due(s)'
                                      \/ \A p \in Programs :
                                            waiting[p] = "asleep" /\ SignalOf(p) = s
                                            => waiting'[p] = "no"
  PROVE  MissesNothing'
  <1> USE DEF Programs, Signals
  <1>1. UNCHANGED <<put_pc, flush_pc, gc_pc, mslab_free, mslab_full, nr_free_dslab,
                    nr_full_dslab>>
    BY DEF vars, cacheVars, mslabVars, dslabVars, clientVars, putVars, flushVars, gcVars
  <1>2. WaitPlaces /\ PutMissesNothing /\ FlushMissesNothing /\ GcMissesNothing
    BY DEF MissesNothing
  <1>3. WaitPlaces'
    BY <1>1, <1>2 DEF WaitPlaces
  <1>4. PutMissesNothing'
    <2> SUFFICES ASSUME waiting'["put"] # "no", put_pc = "wait_flush", mslab_free # {}
                 PROVE  waiting'["put"] = "asleep" /\ (flush_pc = "publish" \/ Due("flush_finished")')
      BY <1>1 DEF PutMissesNothing
    <2>1. waiting'["put"] = waiting["put"] /\ waiting["put"] # "no"
      OBVIOUS
    <2>2. waiting["put"] = "asleep" /\ (flush_pc = "publish" \/ Due("flush_finished"))
      BY <1>2, <2>1 DEF PutMissesNothing
    <2>3. SignalOf("put") = "flush_finished"
      BY WaitSignals
    <2> QED
      BY <2>1, <2>2, <2>3
  <1>5. FlushMissesNothing'
    <2>1. ASSUME waiting'["flush"] # "no", flush_pc = "wait" PROVE mslab_full = {}
      BY <1>2, <2>1 DEF FlushMissesNothing
    <2>2. ASSUME waiting'["flush"] # "no", flush_pc = "wait_gc", nr_free_dslab > 0
          PROVE  waiting'["flush"] = "asleep" /\ Due("gc_finished")'
      <3>1. waiting'["flush"] = waiting["flush"] /\ waiting["flush"] # "no"
        BY <2>2
      <3>2. waiting["flush"] = "asleep" /\ Due("gc_finished")
        BY <1>2, <2>2, <3>1 DEF FlushMissesNothing
      <3>3. SignalOf("flush") = "gc_finished"
        BY <2>2, WaitSignals
      <3> QED
        BY <2>2, <3>1, <3>2, <3>3
    <2> QED
      BY <1>1, <2>1, <2>2 DEF FlushMissesNothing
  <1>6. GcMissesNothing'
    <2> SUFFICES ASSUME waiting'["gc"] # "no", nr_full_dslab > 0
                 PROVE  waiting'["gc"] = "asleep" /\ Due("gc")'
      BY <1>1 DEF GcMissesNothing
    <2>1. waiting'["gc"] = waiting["gc"] /\ waiting["gc"] # "no"
      OBVIOUS
    <2>2. waiting["gc"] = "asleep" /\ Due("gc")
      BY <1>2, <2>1 DEF GcMissesNothing
    <2>3. SignalOf("gc") = "gc"
      BY WaitSignals
    <2> QED
      BY <2>1, <2>2, <2>3
  <1> QED
    BY <1>3, <1>4, <1>5, <1>6 DEF MissesNothing

\* The steps of a duty, and a spurious wake-up.
LEMMA DutySteps ==
  ASSUME SyncTypeOK, MissesNothing,
         \/ RetryGc \/ (\E t \in {"flush", "gc", "destroy"} : Notify(t)) \/ CallSlabFlush
         \/ (\E p \in {"put", "flush"} : CallSlabGc(p)) \/ (\E p \in {"flush", "gc"} : Return(p))
         \/ (\E p \in Programs : SpuriousWake(p))
  PROVE  MissesNothing' /\ SyncTypeOK'
  <1> USE DEF Programs
  <1>1. /\ options \in [flush : BOOLEAN, gc : BOOLEAN]
        /\ waiting \in [Programs -> {"no", "tested", "asleep"}]
        /\ owed \in [Programs \cup {"destroy"} -> Seq(Duties)]
        /\ caller \in [{"flush", "gc"} -> {"none", "put", "flush"}]
    BY DEF SyncTypeOK
  <1>2. WaitPlaces
    BY DEF MissesNothing
  <1>3. CASE RetryGc
    <2>1. /\ owed["flush"] = <<>> /\ waiting["flush"] = "no" /\ Owe("flush", <<"slab_gc">>)
          /\ UNCHANGED <<options, started, waiting, caller, vars>>
      BY <1>3 DEF RetryGc, Ready
    <2>2. <<"slab_gc">> \in Seq(Duties)
      BY DEF Duties
    <2>3. /\ \A s \in Signals : Due(s) => Due(s)'
          /\ owed' \in [Programs \cup {"destroy"} -> Seq(Duties)]
          /\ owed'["put"] = owed["put"]
      BY <2>1, <2>2, DueOwed
    <2>4. SyncTypeOK'
      BY <1>1, <2>1, <2>3 DEF SyncTypeOK
    <2>5. caller["flush"] \in {"none", "put"}
      BY <1>2 DEF WaitPlaces
    <2> QED
      BY <2>1, <2>3, <2>4, <2>5, DutiesMissNothing
  <1>4. ASSUME NEW t \in {"flush", "gc", "destroy"}, Notify(t) PROVE MissesNothing' /\ SyncTypeOK'
    <2> DEFINE h == Head(owed[t])
    <2>1. /\ owed[t] # <<>> /\ h \in Signals /\ waiting' = Woken(h) /\ Owe(t, Tail(owed[t]))
          /\ UNCHANGED <<options, started, caller, vars>>
      BY <1>4 DEF Notify
    <2>2. /\ \A s \in Signals : Due(s) /\ h # s => Due(s)'
          /\ owed' \in [Programs \cup {"destroy"} -> Seq(Duties)]
          /\ \A u \in Programs \cup {"destroy"} : u # t => owed'[u] = owed[u]
      BY <2>1, DueDone
    <2>3. /\ waiting' \in [Programs -> {"no", "tested", "asleep"}]
          /\ \A p \in Programs : /\ waiting'[p] \in {waiting[p], "no"}
                                 /\ waiting[p] = "asleep" /\ SignalOf(p) = h => waiting'[p] = "no"
      BY <2>1, WokenBy
    <2>4. SyncTypeOK'
      BY <1>1, <2>1, <2>2, <2>3 DEF SyncTypeOK
    <2>5. /\ caller["flush"] \in {"none", "put"}
          /\ waiting["flush"] # "no" => owed["flush"] = <<>>
      BY <1>2 DEF WaitPlaces
    <2>6. waiting["flush"] # "no" => owed'["flush"] = owed["flush"]
      BY <2>1, <2>2, <2>5
    <2>7. owed'["put"] = owed["put"]
      BY <2>2
    <2> HIDE DEF h
    <2> QED
      BY <2>1, <2>2, <2>3, <2>4, <2>5, <2>6, <2>7, DutiesMissNothing
  <1>5. CASE CallSlabFlush
    <2>1. /\ owed["put"] # <<>> /\ Head(owed["put"]) = "slab_flush"
          /\ Owe("put", Tail(owed["put"])) /\ UNCHANGED <<options, vars>>
      BY <1>5 DEF CallSlabFlush
    <2>2. /\ \A s \in Signals : Due(s) => Due(s)'
          /\ owed' \in [Programs \cup {"destroy"} -> Seq(Duties)]
          /\ owed'["flush"] = owed["flush"]
      <3>1. \A s \in Signals : s # "slab_flush"
        BY DEF Signals
      <3> QED
        BY <2>1, <3>1, DueDone
    <2>3. /\ waiting' \in [Programs -> {"no", "tested", "asleep"}]
          /\ \A p \in Programs : waiting'[p] \in {waiting[p], "no"}
      <3>1. waiting' = Woken("flush") \/ waiting' = waiting
        BY <1>5 DEF CallSlabFlush, slab_flush
      <3> QED
        BY <1>1, <3>1, WokenBy
    <2>4. /\ caller' \in [{"flush", "gc"} -> {"none", "put", "flush"}]
          /\ caller'["flush"] \in {"none", "put"}
          /\ waiting["flush"] # "no" => caller'["flush"] = caller["flush"]
      <3>1. \/ caller' = caller
            \/ ~options.flush /\ caller' = [caller EXCEPT !["flush"] = "put"]
        BY <1>5 DEF CallSlabFlush
      <3> QED
        BY <1>1, <1>2, <3>1 DEF WaitPlaces
    <2>5. SyncTypeOK'
      BY <1>1, <2>1, <2>2, <2>3, <2>4 DEF SyncTypeOK
    <2> QED
      BY <2>1, <2>2, <2>3, <2>4, <2>5, DutiesMissNothing
  <1>6. ASSUME NEW p \in {"put", "flush"}, CallSlabGc(p) PROVE MissesNothing' /\ SyncTypeOK'
    <2>1. /\ owed[p] # <<>> /\ Head(owed[p]) = "slab_gc"
          /\ Owe(p, Tail(owed[p])) /\ UNCHANGED <<options, started, waiting, vars>>
          /\ caller' = IF options.gc THEN caller ELSE [caller EXCEPT !["gc"] = p]
      BY <1>6 DEF CallSlabGc
    <2>2. /\ \A s \in Signals : Due(s) => Due(s)'
          /\ owed' \in [Programs \cup {"destroy"} -> Seq(Duties)]
          /\ \A u \in Programs \cup {"destroy"} : u # p => owed'[u] = owed[u]
      <3>1. \A s \in Signals : s # "slab_gc"
        BY DEF Signals
      <3> QED
        BY <2>1, <3>1, DueDone
    <2>3. /\ caller' \in [{"flush", "gc"} -> {"none", "put", "flush"}]
          /\ caller'["flush"] = caller["flush"] /\ caller["flush"] \in {"none", "put"}
      BY <1>1, <1>2, <2>1 DEF WaitPlaces
    <2>4. SyncTypeOK'
      BY <1>1, <2>1, <2>2, <2>3 DEF SyncTypeOK
    <2>5. waiting["flush"] # "no" => owed'["flush"] = owed["flush"]
      BY <1>2, <2>1, <2>2 DEF WaitPlaces
    <2>6. owed'["put"] # <<>> => owed["put"] # <<>>
      BY <2>1, <2>2
    <2> QED
      BY <2>1, <2>2, <2>3, <2>4, <2>5, <2>6, DutiesMissNothing
  <1>7. ASSUME NEW p \in {"flush", "gc"}, Return(p) PROVE MissesNothing' /\ SyncTypeOK'
    <2>1. /\ owed[p] # <<>> /\ Head(owed[p]) = "return"
          /\ Owe(p, Tail(owed[p])) /\ UNCHANGED <<options, started, waiting, vars>>
          /\ caller' = [caller EXCEPT ![p] = "none"]
      BY <1>7 DEF Return
    <2>2. /\ \A s \in Signals : Due(s) => Due(s)'
          /\ owed' \in [Programs \cup {"destroy"} -> Seq(Duties)]
          /\ \A u \in Programs \cup {"destroy"} : u # p => owed'[u] = owed[u]
      <3>1. \A s \in Signals : s # "return"
        BY DEF Signals
      <3> QED
        BY <2>1, <3>1, DueDone
    <2>3. /\ caller' \in [{"flush", "gc"} -> {"none", "put", "flush"}]
          /\ caller'["flush"] \in {"none", "put"}
          /\ waiting["flush"] # "no" => caller'["flush"] = caller["flush"]
      BY <1>1, <1>2, <2>1 DEF WaitPlaces
    <2>4. SyncTypeOK'
      BY <1>1, <2>1, <2>2, <2>3 DEF SyncTypeOK
    <2>5. waiting["flush"] # "no" => owed'["flush"] = owed["flush"]
      BY <1>2, <2>1, <2>2 DEF WaitPlaces
    <2>6. owed'["put"] = owed["put"]
      BY <2>2
    <2> QED
      BY <2>1, <2>2, <2>3, <2>4, <2>5, <2>6, DutiesMissNothing
  <1>8. ASSUME NEW p \in Programs, SpuriousWake(p) PROVE MissesNothing' /\ SyncTypeOK'
    <2>1. /\ waiting' = [waiting EXCEPT ![p] = "no"]
          /\ UNCHANGED <<options, started, owed, caller, vars>>
      BY <1>8 DEF SpuriousWake
    <2>2. /\ waiting' \in [Programs -> {"no", "tested", "asleep"}]
          /\ \A q \in Programs : waiting'[q] \in {waiting[q], "no"}
      BY <1>1, <2>1
    <2>3. SyncTypeOK'
      BY <1>1, <2>1, <2>2 DEF SyncTypeOK
    <2>4. \A s \in Signals : Due(s) => Due(s)'
      BY <2>1 DEF Due
    <2>5. caller["flush"] \in {"none", "put"}
      BY <1>2 DEF WaitPlaces
    <2> QED
      BY <2>1, <2>2, <2>3, <2>4, <2>5, DutiesMissNothing
  <1> QED
    BY <1>3, <1>4, <1>5, <1>6, <1>7, <1>8

\* Testing a predicate and going to sleep on it.
LEMMA WaitSteps ==
  ASSUME SyncTypeOK, MissesNothing, ~shutdown,
         TestIndexEntries \/ \E p \in Programs : Test(p) \/ Sleep(p)
  PROVE  MissesNothing' /\ SyncTypeOK'
  <1> USE DEF Programs
  <1>1. /\ options \in [flush : BOOLEAN, gc : BOOLEAN]
        /\ waiting \in [Programs -> {"no", "tested", "asleep"}]
        /\ owed \in [Programs \cup {"destroy"} -> Seq(Duties)]
        /\ caller \in [{"flush", "gc"} -> {"none", "put", "flush"}]
    BY DEF SyncTypeOK
  <1>2. WaitPlaces /\ PutMissesNothing /\ FlushMissesNothing /\ GcMissesNothing
    BY DEF MissesNothing
  <1>3. CASE TestIndexEntries
    <2>1. /\ owed["put"] # <<>> /\ Head(owed["put"]) = "test"
          /\ waiting' = [waiting EXCEPT !["put"] = IF Pred("put") THEN "no" ELSE "tested"]
          /\ Owe("put", Tail(owed["put"])) /\ UNCHANGED <<options, started, caller, vars>>
      BY <1>3 DEF TestIndexEntries
    <2>2. /\ \A s \in Signals : Due(s) => Due(s)'
          /\ owed' \in [Programs \cup {"destroy"} -> Seq(Duties)]
          /\ owed'["flush"] = owed["flush"]
      <3>1. \A s \in Signals : s # "test"
        BY DEF Signals
      <3> QED
        BY <2>1, <3>1, DueDone
    <2>3. UNCHANGED <<put_pc, flush_pc, gc_pc, mslab_free, mslab_full, nr_free_dslab,
                      nr_full_dslab>>
      BY <2>1 DEF vars, cacheVars, mslabVars, dslabVars, clientVars, putVars, flushVars, gcVars
    <2>4. /\ waiting' \in [Programs -> {"no", "tested", "asleep"}]
          /\ waiting'["flush"] = waiting["flush"] /\ waiting'["gc"] = waiting["gc"]
          /\ Pred("put") => waiting'["put"] = "no"
      BY <1>1, <2>1
    <2>5. WaitPlaces'
      BY <1>2, <2>1, <2>2, <2>3, <2>4 DEF WaitPlaces
    <2>6. PutMissesNothing'
      BY <2>3, <2>4, WaitSignals DEF PutMissesNothing
    <2>7. FlushMissesNothing' /\ GcMissesNothing'
      BY <1>2, <2>2, <2>3, <2>4 DEF FlushMissesNothing, GcMissesNothing, Signals
    <2> QED
      BY <1>1, <2>1, <2>2, <2>4, <2>5, <2>6, <2>7 DEF MissesNothing, SyncTypeOK
  <1>4. ASSUME NEW p \in Programs, Test(p) \/ Sleep(p)
        PROVE  MissesNothing' /\ SyncTypeOK'
    <2>1. UNCHANGED <<options, started, owed, caller, vars>>
      BY <1>4 DEF Test, Sleep
    <2>2. /\ UNCHANGED <<put_pc, flush_pc, gc_pc, mslab_free, mslab_full, nr_free_dslab,
                         nr_full_dslab>>
          /\ \A s \in Signals : Due(s)' <=> Due(s)
      BY <2>1 DEF vars, cacheVars, mslabVars, dslabVars, clientVars, putVars, flushVars, gcVars,
                  Due
    <2>3. /\ waiting' \in [Programs -> {"no", "tested", "asleep"}]
          /\ \A q \in Programs : q # p => waiting'[q] = waiting[q]
          /\ waiting'[p] # "no"
      BY <1>1, <1>4 DEF Test, Sleep
    <2>4. SyncTypeOK'
      BY <1>1, <2>1, <2>3 DEF SyncTypeOK
    <2>5. \/ Ready(p) /\ AtWait(p) /\ ~Pred(p)
          \/ waiting[p] = "tested"
      BY <1>4 DEF Test, Sleep
    <2>6. CASE p = "put"
      <3>1. put_pc \in {"wait_flush", "wait_index"}
        BY <1>2, <2>5, <2>6 DEF WaitPlaces, AtWait
      <3>2. WaitPlaces'
        BY <1>2, <2>1, <2>2, <2>3, <2>6, <3>1 DEF WaitPlaces
      <3>3. put_pc = "wait_flush" => mslab_free = {}
        BY <1>2, <2>5, <2>6, WaitSignals DEF PutMissesNothing
      <3>4. PutMissesNothing' /\ FlushMissesNothing' /\ GcMissesNothing'
        BY <1>2, <2>2, <2>3, <2>6, <3>3
        DEF PutMissesNothing, FlushMissesNothing, GcMissesNothing, Signals
      <3> QED
        BY <2>4, <3>2, <3>4 DEF MissesNothing
    <2>7. CASE p = "flush"
      <3>1. /\ flush_pc \in {"wait", "wait_gc"} /\ owed["flush"] = <<>>
            /\ options.flush \/ caller["flush"] = "put"
        <4>1. CASE waiting[p] = "tested"
          BY <1>2, <2>7, <4>1 DEF WaitPlaces
        <4>2. CASE Ready(p) /\ AtWait(p)
          <5>1. flush_pc \in {"wait", "wait_gc"} /\ owed["flush"] = <<>> /\ Active("flush")
            BY <2>7, <4>2 DEF Ready, AtWait
          <5>2. options.flush \/ caller["flush"] # "none"
            BY <5>1 DEF Active, Inline
          <5> QED
            BY <1>2, <5>1, <5>2 DEF WaitPlaces
        <4> QED
          BY <2>5, <4>1, <4>2
      <3>2. WaitPlaces'
        BY <1>2, <2>1, <2>2, <2>3, <2>7, <3>1 DEF WaitPlaces
      <3>3. /\ flush_pc = "wait" => mslab_full = {}
            /\ flush_pc = "wait_gc" => ~(nr_free_dslab > 0)
        BY <1>2, <2>5, <2>7, WaitSignals DEF FlushMissesNothing
      <3>4. PutMissesNothing' /\ FlushMissesNothing' /\ GcMissesNothing'
        BY <1>2, <2>2, <2>3, <2>7, <3>3
        DEF PutMissesNothing, FlushMissesNothing, GcMissesNothing, Signals
      <3> QED
        BY <2>4, <3>2, <3>4 DEF MissesNothing
    <2>8. CASE p = "gc"
      <3>1. gc_pc = "wait"
        BY <1>2, <2>5, <2>8 DEF WaitPlaces, AtWait
      <3>2. WaitPlaces'
        BY <1>2, <2>1, <2>2, <2>3, <2>8, <3>1 DEF WaitPlaces
      <3>3. ~(nr_full_dslab > 0)
        BY <1>2, <2>5, <2>8, WaitSignals DEF GcMissesNothing
      <3>4. PutMissesNothing' /\ FlushMissesNothing' /\ GcMissesNothing'
        BY <1>2, <2>2, <2>3, <2>8, <3>3
        DEF PutMissesNothing, FlushMissesNothing, GcMissesNothing, Signals
      <3> QED
        BY <2>4, <3>2, <3>4 DEF MissesNothing
    <2> QED
      BY <2>6, <2>7, <2>8
  <1> QED
    BY <1>3, <1>4

\* A step of Put.  One that fills mslab_full_ notifies the flush thread in the same
\* step, and cannot happen while the flush thread is between its test and its sleep.
LEMMA PutMissNothing ==
  ASSUME SyncTypeOK, MissesNothing, PutProgram
  PROVE  MissesNothing' /\ SyncTypeOK'
  <1> USE DEF Programs
  <1>1. /\ options \in [flush : BOOLEAN, gc : BOOLEAN]
        /\ waiting \in [Programs -> {"no", "tested", "asleep"}]
        /\ owed \in [Programs \cup {"destroy"} -> Seq(Duties)]
        /\ caller \in [{"flush", "gc"} -> {"none", "put", "flush"}]
    BY DEF SyncTypeOK
  <1>2. WaitPlaces /\ FlushMissesNothing /\ GcMissesNothing
    BY DEF MissesNothing
  <1>3. /\ owed["put"] = <<>> /\ waiting["put"] = "no" /\ caller["flush"] # "put"
        /\ ~Locked(Mutex("put")) /\ PutStep /\ PutOwes
        /\ UNCHANGED <<options, caller, flushVars, gcVars>>
    BY DEF PutProgram, Ready
  <1>4. UNCHANGED <<flush_pc, gc_pc, nr_free_dslab, nr_full_dslab>>
    BY <1>3, PutTouches DEF flushVars, gcVars, dslabVars
  <1>5. \/ UNCHANGED <<owed, waiting>> /\ ~(mslab_full' # mslab_full /\ options.flush)
        \/ UNCHANGED owed /\ waiting' = Woken("flush")
        \/ /\ put_pc' \in {"wait_flush", "wait_index"} /\ waiting' = waiting
           /\ mslab_full' = mslab_full
           /\ \/ Owe("put", <<"slab_flush">>)
              \/ Owe("put", <<"slab_flush", "slab_gc", "test">>)
    BY <1>3, PutTouches DEF PutOwes, slab_flush
  <1>6. /\ \A s \in Signals : Due(s) => Due(s)'
        /\ owed' \in [Programs \cup {"destroy"} -> Seq(Duties)]
        /\ owed'["flush"] = owed["flush"]
        /\ owed'["put"] # <<>> => put_pc' \in {"wait_flush", "wait_index"}
    <2>1. CASE UNCHANGED owed
      BY <1>1, <1>3, <2>1 DEF Due
    <2>2. CASE put_pc' \in {"wait_flush", "wait_index"} /\ Owe("put", <<"slab_flush">>)
      <3>1. <<"slab_flush">> \in Seq(Duties)
        BY DEF Duties
      <3> QED
        BY <1>3, <2>2, <3>1, DueOwed
    <2>3. CASE put_pc' \in {"wait_flush", "wait_index"}
               /\ Owe("put", <<"slab_flush", "slab_gc", "test">>)
      <3>1. <<"slab_flush", "slab_gc", "test">> \in Seq(Duties)
        BY DEF Duties
      <3> QED
        BY <1>3, <2>3, <3>1, DueOwed
    <2> QED
      BY <1>5, <2>1, <2>2, <2>3
  <1>7. /\ waiting' \in [Programs -> {"no", "tested", "asleep"}]
        /\ \A p \in Programs : waiting'[p] \in {waiting[p], "no"}
    BY <1>1, <1>5, WokenBy
  <1>8. SyncTypeOK'
    BY <1>1, <1>3, <1>6, <1>7 DEF SyncTypeOK
  <1>9. WaitPlaces' /\ PutMissesNothing'
    BY <1>2, <1>3, <1>4, <1>6, <1>7 DEF WaitPlaces, PutMissesNothing
  <1>10. FlushMissesNothing' /\ GcMissesNothing'
    <2>1. ASSUME waiting'["flush"] # "no", flush_pc = "wait" PROVE mslab_full' = {}
      <3>1. waiting["flush"] # "no" /\ waiting'["flush"] = waiting["flush"]
        BY <1>7, <2>1
      <3>2. options.flush /\ mslab_full = {}
        BY <1>2, <1>3, <2>1, <3>1 DEF WaitPlaces, FlushMissesNothing
      <3>3. CASE mslab_full' # mslab_full
        <4>1. Mutex("put") = "mslab_full" /\ Mutex("flush") = "mslab_full"
          BY <1>3, <2>1, <3>3, PutTouches, WaitMutexes
        <4>2. waiting["flush"] = "asleep"
          BY <1>1, <1>3, <3>1, <4>1 DEF Locked, Holds
        <4>3. waiting' = Woken("flush")
          BY <1>5, <3>2, <3>3
        <4>4. SignalOf("flush") = "flush"
          BY <2>1, WaitSignals
        <4> QED
          BY <3>1, <4>2, <4>3, <4>4, WokenBy
      <3> QED
        BY <3>2, <3>3
    <2>2. ASSUME waiting'["flush"] # "no", flush_pc = "wait_gc", nr_free_dslab > 0
          PROVE  waiting'["flush"] = "asleep" /\ Due("gc_finished")'
      BY <1>2, <1>6, <1>7, <2>2 DEF FlushMissesNothing, Signals
    <2>3. ASSUME waiting'["gc"] # "no", nr_full_dslab > 0
          PROVE  waiting'["gc"] = "asleep" /\ Due("gc")'
      BY <1>2, <1>6, <1>7, <2>3 DEF GcMissesNothing, Signals
    <2> QED
      BY <1>4, <2>1, <2>2, <2>3 DEF FlushMissesNothing, GcMissesNothing
  <1> QED
    BY <1>8, <1>9, <1>10 DEF MissesNothing

\* A step of do_slab_flush.  It owes its notifications from the step that publishes
\* the dslab on.
LEMMA FlushMissNothing ==
  ASSUME TypeOK, SyncTypeOK, MissesNothing, FlushProgram
  PROVE  MissesNothing' /\ SyncTypeOK'
  <1> USE DEF Programs
  <1>1. /\ options \in [flush : BOOLEAN, gc : BOOLEAN]
        /\ waiting \in [Programs -> {"no", "tested", "asleep"}]
        /\ owed \in [Programs \cup {"destroy"} -> Seq(Duties)]
        /\ caller \in [{"flush", "gc"} -> {"none", "put", "flush"}]
    BY DEF SyncTypeOK
  <1>2. WaitPlaces /\ PutMissesNothing /\ GcMissesNothing
    BY DEF MissesNothing
  <1>3. /\ owed["flush"] = <<>> /\ waiting["flush"] = "no" /\ ~Locked(Mutex("flush"))
        /\ FlushNext(DslabFullLocked) /\ FlushOwes
        /\ UNCHANGED <<options, waiting, caller, put_pc, gc_pc>>
    BY DEF FlushProgram, Ready, clientVars, putVars, gcVars
  <1>4. /\ mslab_free' # mslab_free => flush_pc = "recycle" /\ flush_pc' = "publish"
        /\ nr_full_dslab' # nr_full_dslab => flush_pc = "publish"
        /\ flush_pc = "publish" => flush_pc' = "wait"
    BY <1>3, FlushTouches
  <1> DEFINE last == <<"flush_finished", "gc">> \o AndReturn("flush")
  <1>5. /\ last \in Seq(Duties)
        /\ \E i \in DOMAIN last : last[i] = "flush_finished"
        /\ \E i \in DOMAIN last : last[i] = "gc"
    <2> DEFINE told == <<"flush_finished", "gc">>
    <2>1. /\ told \in Seq(Duties) /\ 1 \in DOMAIN told /\ 2 \in DOMAIN told
          /\ told[1] = "flush_finished" /\ told[2] = "gc"
      BY DEF Duties, Signals
    <2> HIDE DEF told
    <2>2. last = told \o AndReturn("flush")
      BY DEF told
    <2> HIDE DEF last
    <2> QED
      BY <2>1, <2>2, DutiesAndReturn
  <1>6. PICK q \in Seq(Duties) : Owe("flush", q) /\ (flush_pc = "publish" => q = last)
    <2>1. <<"slab_gc">> \in Seq(Duties) /\ <<>> \in Seq(Duties)
      BY DEF Duties
    <2>2. CASE flush_pc' = "wait_gc"
      BY <1>3, <1>4, <2>1, <2>2 DEF FlushOwes
    <2>3. CASE flush_pc' # "wait_gc" /\ flush_pc = "publish"
      BY <1>3, <1>5, <2>3 DEF FlushOwes
    <2>4. CASE flush_pc' # "wait_gc" /\ flush_pc # "publish"
      BY <1>3, <2>1, <2>4 DEF FlushOwes
    <2> QED
      BY <2>2, <2>3, <2>4
  <1> HIDE DEF last
  <1>7. /\ \A s \in Signals : Due(s) => Due(s)'
        /\ flush_pc = "publish" => Due("flush_finished")' /\ Due("gc")'
        /\ owed' \in [Programs \cup {"destroy"} -> Seq(Duties)]
        /\ owed'["put"] = owed["put"]
    BY <1>3, <1>5, <1>6, DueOwed
  <1>8. SyncTypeOK'
    BY <1>1, <1>3, <1>7 DEF SyncTypeOK
  <1>9. WaitPlaces' /\ FlushMissesNothing'
    BY <1>2, <1>3, <1>7 DEF WaitPlaces, FlushMissesNothing
  <1>10. PutMissesNothing'
    <2> SUFFICES ASSUME waiting["put"] # "no", put_pc = "wait_flush", mslab_free' # {}
                 PROVE  waiting["put"] = "asleep"
                        /\ (flush_pc' = "publish" \/ Due("flush_finished")')
      BY <1>3 DEF PutMissesNothing
    <2>1. CASE mslab_free' = mslab_free
      BY <1>2, <1>7, <2>1 DEF PutMissesNothing, Signals
    <2>2. CASE mslab_free' # mslab_free
      <3>1. Mutex("flush") = "mslab_free" /\ Mutex("put") = "mslab_free"
        BY <1>4, <2>2, WaitMutexes
      <3>2. waiting["put"] # "tested"
        BY <1>3, <3>1 DEF Locked, Holds
      <3> QED
        BY <1>1, <1>4, <2>2, <3>2
    <2> QED
      BY <2>1, <2>2
  <1>11. GcMissesNothing'
    <2> SUFFICES ASSUME waiting["gc"] # "no", nr_full_dslab' > 0
                 PROVE  waiting["gc"] = "asleep" /\ Due("gc")'
      BY <1>3 DEF GcMissesNothing
    <2>1. CASE nr_full_dslab' = nr_full_dslab
      BY <1>2, <1>7, <2>1 DEF GcMissesNothing, Signals
    <2>2. CASE nr_full_dslab' # nr_full_dslab
      <3>1. Mutex("flush") = "dslab_full" /\ Mutex("gc") = "dslab_full"
        BY <1>2, <1>4, <2>2, WaitMutexes DEF WaitPlaces
      <3>2. waiting["gc"] # "tested"
        BY <1>3, <3>1 DEF Locked, Holds
      <3> QED
        BY <1>1, <1>4, <1>7, <2>2, <3>2
    <2> QED
      BY <2>1, <2>2
  <1> QED
    BY <1>8, <1>9, <1>10, <1>11 DEF MissesNothing

\* A step of do_slab_gc.  It owes its notification from the step that frees dslabs on.
LEMMA GcMissNothing ==
  ASSUME SyncTypeOK, MissesNothing, GcProgram
  PROVE  MissesNothing' /\ SyncTypeOK'
  <1> USE DEF Programs
  <1>1. /\ options \in [flush : BOOLEAN, gc : BOOLEAN]
        /\ waiting \in [Programs -> {"no", "tested", "asleep"}]
        /\ owed \in [Programs \cup {"destroy"} -> Seq(Duties)]
        /\ caller \in [{"flush", "gc"} -> {"none", "put", "flush"}]
    BY DEF SyncTypeOK
  <1>2. WaitPlaces /\ PutMissesNothing /\ FlushMissesNothing
    BY DEF MissesNothing
  <1>3. /\ owed["gc"] = <<>> /\ waiting["gc"] = "no" /\ ~Locked(Mutex("gc"))
        /\ GcNext /\ GcOwes
        /\ UNCHANGED <<options, waiting, caller, put_pc, flush_pc>>
    BY DEF GcProgram, Ready, clientVars, putVars, flushVars
  <1>4. /\ UNCHANGED <<mslab_free, mslab_full>>
        /\ nr_free_dslab' # nr_free_dslab => gc_pc = "to_free" /\ gc_pc' = "wait"
    BY <1>3, GcTouches DEF mslabVars
  <1> DEFINE last == <<"gc_finished">> \o AndReturn("gc")
  <1>5. last \in Seq(Duties) /\ \E i \in DOMAIN last : last[i] = "gc_finished"
    <2> DEFINE told == <<"gc_finished">>
    <2>1. told \in Seq(Duties) /\ 1 \in DOMAIN told /\ told[1] = "gc_finished"
      BY DEF Duties, Signals
    <2> HIDE DEF told
    <2>2. last = told \o AndReturn("gc")
      BY DEF told
    <2> HIDE DEF last
    <2> QED
      BY <2>1, <2>2, DutiesAndReturn
  <1>6. PICK q \in Seq(Duties) : Owe("gc", q) /\ (gc_pc' = "wait" => q = last)
    <2>1. CASE gc_pc' = "wait"
      BY <1>3, <1>5, <2>1 DEF GcOwes
    <2>2. CASE gc_pc' # "wait"
      <3>1. Owe("gc", <<>>)
        BY <1>3, <2>2 DEF GcOwes
      <3>2. <<>> \in Seq(Duties)
        OBVIOUS
      <3> QED
        BY <2>2, <3>1, <3>2
    <2> QED
      BY <2>1, <2>2
  <1> HIDE DEF last
  <1>7. /\ \A s \in Signals : Due(s) => Due(s)'
        /\ gc_pc' = "wait" => Due("gc_finished")'
        /\ owed' \in [Programs \cup {"destroy"} -> Seq(Duties)]
        /\ owed'["put"] = owed["put"] /\ owed'["flush"] = owed["flush"]
    BY <1>3, <1>5, <1>6, DueOwed
  <1>8. SyncTypeOK'
    BY <1>1, <1>3, <1>7 DEF SyncTypeOK
  <1>9. WaitPlaces' /\ GcMissesNothing' /\ PutMissesNothing'
    BY <1>2, <1>3, <1>4, <1>7 DEF WaitPlaces, GcMissesNothing, PutMissesNothing, Signals
  <1>10. FlushMissesNothing'
    <2>1. ASSUME waiting["flush"] # "no", flush_pc = "wait" PROVE mslab_full' = {}
      BY <1>2, <1>4, <2>1 DEF FlushMissesNothing
    <2>2. ASSUME waiting["flush"] # "no", flush_pc = "wait_gc", nr_free_dslab' > 0
          PROVE  waiting["flush"] = "asleep" /\ Due("gc_finished")'
      <3>1. CASE nr_free_dslab' = nr_free_dslab
        BY <1>2, <1>7, <2>2, <3>1 DEF FlushMissesNothing, Signals
      <3>2. CASE nr_free_dslab' # nr_free_dslab
        <4>1. Mutex("gc") = "dslab_free" /\ Mutex("flush") = "dslab_free"
          BY <1>4, <2>2, <3>2, WaitMutexes
        <4>2. waiting["flush"] # "tested"
          BY <1>3, <4>1 DEF Locked, Holds
        <4> QED
          BY <1>1, <1>4, <1>7, <2>2, <3>2, <4>2
      <3> QED
        BY <3>1, <3>2
    <2> QED
      BY <1>3, <2>1, <2>2 DEF FlushMissesNothing
  <1> QED
    BY <1>8, <1>9, <1>10 DEF MissesNothing

\* Calls of other clients change nothing that a thread waits for, an index entry aside.
LEMMA ClientMissNothing ==
  ASSUME SyncTypeOK, MissesNothing, ClientCalls
  PROVE  MissesNothing' /\ SyncTypeOK'
  <1>1. UNCHANGED <<syncVars, flush_pc, gc_pc>>
    BY DEF ClientCalls, flushVars, gcVars
  <1>2. UNCHANGED <<mslab_free, mslab_full, nr_free_dslab, nr_full_dslab>>
    BY DEF ClientCalls, Put, Delete, GetSlice, CopySlice, GetReturn,
           cacheVars, mslabVars, dslabVars
  <1>3. put_pc' = put_pc \/ put_pc = "idle"
    BY DEF ClientCalls, Put, Delete, GetSlice, CopySlice, GetReturn, clientVars, putVars
  <1>4. SyncTypeOK' /\ \A s \in Signals : Due(s)' <=> Due(s)
    BY <1>1 DEF SyncTypeOK, Due, syncVars
  <1>5. WaitPlaces'
    BY <1>1, <1>3 DEF MissesNothing, WaitPlaces, syncVars
  <1>6. PutMissesNothing'
    BY <1>1, <1>2, <1>3, <1>4 DEF MissesNothing, WaitPlaces, PutMissesNothing, syncVars, Signals
  <1>7. FlushMissesNothing' /\ GcMissesNothing'
    BY <1>1, <1>2, <1>4
    DEF MissesNothing, FlushMissesNothing, GcMissesNothing, syncVars, Signals
  <1> QED
    BY <1>4, <1>5, <1>6, <1>7 DEF MissesNothing

\* It holds at the start, when nobody waits, and every step of every thread keeps it.
LEMMA InitWakeful == SyncInit => Wakeful
  <1> SUFFICES ASSUME SyncInit PROVE Wakeful
    OBVIOUS
  <1>1. /\ options \in [flush : BOOLEAN, gc : BOOLEAN]
        /\ waiting = [p \in Programs |-> "no"]
        /\ owed = [t \in Programs \cup {"destroy"} |-> <<>>]
        /\ caller = [q \in {"flush", "gc"} |-> "none"]
    BY OptionsAssumption DEF SyncInit
  <1>2. SyncTypeOK
    BY <1>1 DEF SyncTypeOK
  <1>3. /\ waiting["put"] = "no" /\ waiting["flush"] = "no" /\ waiting["gc"] = "no"
        /\ owed["put"] = <<>> /\ caller["flush"] = "none"
    BY <1>1 DEF Programs
  <1> QED
    BY <1>2, <1>3 DEF Wakeful, MissesNothing, WaitPlaces, PutMissesNothing,
                      FlushMissesNothing, GcMissesNothing

\* Every step of every thread keeps Wakeful.
LEMMA NextWakeful == TypeOK /\ Wakeful /\ [SyncNext]_allVars => Wakeful'
  <1> SUFFICES ASSUME TypeOK, Wakeful, [SyncNext]_allVars, ~shutdown'
               PROVE  SyncTypeOK' /\ MissesNothing'
    BY DEF Wakeful
  <1>1. ~shutdown
    BY ShutdownStays DEF allVars, vars, cacheVars, shutdown
  <1>2. SyncTypeOK /\ MissesNothing
    BY <1>1 DEF Wakeful
  <1>3. CASE ClientCalls
    BY <1>2, <1>3, ClientMissNothing
  <1>4. CASE PutThread
    BY <1>1, <1>2, <1>4, PutMissNothing, DutySteps, WaitSteps DEF PutThread, Programs
  <1>5. CASE FlushThread
    BY <1>1, <1>2, <1>5, FlushMissNothing, DutySteps, WaitSteps DEF FlushThread, Programs
  <1>6. CASE GcThread
    BY <1>1, <1>2, <1>6, GcMissNothing, DutySteps, WaitSteps DEF GcThread, Programs
  <1>7. CASE SetShutdown \/ SkipFlushThread \/ Join
    BY <1>1, <1>7 DEF SetShutdown, SkipFlushThread, Join, BeginShutdown, JoinThreads, shutdown
  <1>8. CASE Notify("destroy") \/ \E p \in Programs : SpuriousWake(p)
    BY <1>2, <1>8, DutySteps
  <1>9. CASE UNCHANGED allVars
    <2>1. UNCHANGED <<syncVars, put_pc, flush_pc, gc_pc, mslab_free, mslab_full, nr_free_dslab,
                      nr_full_dslab>>
      BY <1>9 DEF allVars, vars, cacheVars, mslabVars, dslabVars, clientVars, putVars,
                  flushVars, gcVars
    <2>2. SyncTypeOK' /\ \A s : Due(s)' <=> Due(s)
      BY <1>2, <2>1 DEF SyncTypeOK, Due, syncVars
    <2> QED
      BY <1>2, <2>1, <2>2 DEF MissesNothing, WaitPlaces, PutMissesNothing, FlushMissesNothing,
                              GcMissesNothing, syncVars
  <1> QED
    BY <1>3, <1>4, <1>5, <1>6, <1>7, <1>8, <1>9 DEF SyncNext, DestroyThread

(***************************************************************************)
(* No wake-up is lost, in any mode, until the destructor begins: a thread  *)
(* that sleeps on a condition variable although it has something to do is  *)
(* about to be notified.  The mutex that each wait holds from its test to  *)
(* its sleep, and the notification that each change of a predicate owes,   *)
(* are what this rests on.                                                 *)
(***************************************************************************)
THEOREM NoLostWakeupInvariant == SyncSpec => []NoLostWakeup
  <1>1. SyncInit => Wakeful
    BY InitWakeful
  <1>2. TypeOK /\ Wakeful /\ [SyncNext]_allVars => Wakeful'
    BY NextWakeful
  <1>3. Wakeful => NoLostWakeup
    <2> SUFFICES ASSUME Wakeful, NEW p \in Programs, waiting[p] = "asleep", Pred(p), ~shutdown,
                        ~(p = "put" /\ put_pc = "wait_index")
                 PROVE  Due(SignalOf(p)) \/ (p = "put" /\ flush_pc = "publish")
      BY DEF NoLostWakeup
    <2>1. WaitPlaces /\ PutMissesNothing /\ FlushMissesNothing /\ GcMissesNothing
      BY DEF Wakeful, MissesNothing
    <2>2. CASE p = "put"
      <3>1. put_pc = "wait_flush"
        BY <2>1, <2>2 DEF WaitPlaces
      <3>2. SignalOf("put") = "flush_finished" /\ mslab_free # {}
        BY <2>2, <3>1, WaitSignals
      <3>3. flush_pc = "publish" \/ Due("flush_finished")
        BY <2>1, <2>2, <3>1, <3>2 DEF PutMissesNothing
      <3> QED
        BY <2>2, <3>2, <3>3
    <2>3. CASE p = "flush"
      <3>1. CASE flush_pc = "wait"
        <4>1. mslab_full # {}
          BY <2>3, <3>1, WaitSignals
        <4> QED
          BY <2>1, <2>3, <3>1, <4>1 DEF FlushMissesNothing
      <3>2. CASE flush_pc = "wait_gc"
        <4>1. SignalOf("flush") = "gc_finished" /\ nr_free_dslab > 0
          BY <2>3, <3>2, WaitSignals
        <4>2. Due("gc_finished")
          BY <2>1, <2>3, <3>2, <4>1 DEF FlushMissesNothing
        <4> QED
          BY <2>3, <4>1, <4>2
      <3> QED
        BY <2>1, <2>3, <3>1, <3>2 DEF WaitPlaces
    <2>4. CASE p = "gc"
      <3>1. SignalOf("gc") = "gc" /\ nr_full_dslab > 0
        BY <2>4, WaitSignals
      <3>2. Due("gc")
        BY <2>1, <2>4, <3>1 DEF GcMissesNothing
      <3> QED
        BY <2>4, <3>1, <3>2
    <2> QED
      BY <2>2, <2>3, <2>4 DEF Programs
  <1>4. SyncSpec => []TypeOK
    BY SyncImplementsKVCache, TypeCorrect, PTL DEF ImplementsKVCache
  <1> QED
    BY <1>1, <1>2, <1>3, <1>4, PTL DEF SyncSpec

=============================================================================
