----------------------------- MODULE ThreadSync -----------------------------
(***************************************************************************)
(* KVCache with its condition variables, the start of its threads and the  *)
(* foreground modes.  In KVCache a wait ends when its predicate holds;     *)
(* here a thread that has found its predicate false goes to sleep and      *)
(* stays asleep until somebody notifies it.                                *)
(*                                                                         *)
(* cv.wait(lock, pred) is: test pred with the mutex held ("tested"),       *)
(* release the mutex and sleep in one step ("asleep"), be woken and take   *)
(* the mutex again to test pred anew ("no").  Between the test and the     *)
(* sleep the mutex keeps out everybody who changes what pred reads, except *)
(* for shutdown_, which the destructor sets without a mutex.               *)
(*                                                                         *)
(* owed[t] lists what thread t does before its next step in KVCache:       *)
(*   "flush", "flush_finished", "gc", "gc_finished"  notify that signal    *)
(*   "slab_flush", "slab_gc"  call that function: start or notify the      *)
(*             background thread, or run do_slab_flush / do_slab_gc inline *)
(*   "test"    enter the wait for an index entry, index_mutex_ still held  *)
(*   "return"  return from do_slab_flush or do_slab_gc to its caller       *)
(***************************************************************************)
EXTENDS KVCache, Sequences

CONSTANT Options  \* the values of enable_background_flush and _gc considered

\* Background flush with foreground GC is left out: there Put and the flush thread
\* may both run do_slab_gc, and gc_mutex_, which would keep them apart, is unused.
ASSUME OptionsAssumption ==
    Options \subseteq [flush : BOOLEAN, gc : BOOLEAN] \ {[flush |-> TRUE, gc |-> FALSE]}

VARIABLES
    options,    \* which of flush and GC have a thread of their own
    started,    \* slab_flush_thread_started_ and slab_gc_thread_started_
    waiting,    \* [Programs -> {"no", "tested", "asleep"}]
    owed,       \* [Programs \cup {"destroy"} -> sequences of duties, above]
    caller      \* who runs do_slab_flush and do_slab_gc inline, if anybody

syncVars == <<options, started, waiting, owed, caller>>
allVars == <<vars, syncVars>>

Programs == {"put", "flush", "gc"}
Signals == {"flush", "flush_finished", "gc", "gc_finished"}

\* The constructor starts the GC thread; the flush thread starts when needed.
SyncInit ==
    /\ Init
    /\ options \in Options
    /\ started = IF options.gc THEN {"gc"} ELSE {}
    /\ waiting = [p \in Programs |-> "no"]
    /\ owed = [t \in Programs \cup {"destroy"} |-> <<>>]
    /\ caller = [q \in {"flush", "gc"} |-> "none"]

-----------------------------------------------------------------------------
\* The mutex that the step of each program at its present place takes.
Mutex(p) ==
    CASE p = "put" ->
           [idle |-> "none", alloc |-> "mslab_free", wait_flush |-> "mslab_free",
            index |-> "index", wait_index |-> "index", finish |-> "mslab_full"][put_pc]
      [] p = "flush" ->
           [wait |-> "mslab_full", pick |-> "dslab_free", wait_gc |-> "dslab_free",
            write |-> "none", index |-> "index", recycle |-> "mslab_free",
            publish |-> "dslab_full", exit |-> "none"][flush_pc]
      [] p = "gc" ->
           [wait |-> "dslab_full", choose |-> "none", tune |-> "dslab_free",
            select |-> "dslab_full", evict |-> "index", collect |-> "dslab_full",
            batch |-> "dslab_free", take |-> "dslab_full", move |-> "index",
            index |-> "index", refill |-> "none", to_free |-> "dslab_free",
            exit |-> "none"][gc_pc]

\* A mutex outlives a step in two cases: from the test of a wait to the sleep,
\* and in Put from the failure to get an index entry to the sleep.
Holds(p, m) ==
    /\ m # "none" /\ m = Mutex(p)
    /\ \/ waiting[p] = "tested"
       \/ p = "put" /\ put_pc = "wait_index" /\ owed["put"] # <<>>

Locked(m) == \E p \in Programs : Holds(p, m)

Inline(p) == caller[p] # "none"

Active(p) ==
    CASE p = "put" -> TRUE
      [] p = "flush" -> IF options.flush THEN "flush" \in started ELSE Inline("flush")
      [] p = "gc" -> IF options.gc THEN "gc" \in started ELSE Inline("gc")

Ready(p) ==
    /\ Active(p) /\ owed[p] = <<>> /\ waiting[p] = "no"
    /\ \A q \in {"flush", "gc"} : caller[q] # p
    /\ ~Locked(Mutex(p))

\* The waits, their predicates and their condition variables.
AtWait(p) ==
    CASE p = "put" -> put_pc = "wait_index" \/ (put_pc = "wait_flush" /\ options.flush)
      [] p = "flush" -> flush_pc = "wait" \/ (flush_pc = "wait_gc" /\ options.gc)
      [] p = "gc" -> gc_pc = "wait"

Pred(p) ==
    CASE p = "put" -> IF put_pc = "wait_index" THEN nr_free_index_entry > 0
                      ELSE mslab_free # {} \/ shutdown
      [] p = "flush" -> IF flush_pc = "wait_gc" THEN nr_free_dslab > 0 \/ shutdown
                        ELSE mslab_full # {} \/ shutdown
      [] p = "gc" -> nr_full_dslab > 0 \/ shutdown

SignalOf(p) ==
    CASE p = "put" -> IF put_pc = "wait_index" THEN "gc_finished" ELSE "flush_finished"
      [] p = "flush" -> IF flush_pc = "wait_gc" THEN "gc_finished" ELSE "flush"
      [] p = "gc" -> "gc"

\* notify_one and notify_all are the same here: gc_finished_signal_ alone has
\* two kinds of waiters, and it is always notified with notify_all.
Woken(s) == [p \in Programs |->
                IF waiting[p] = "asleep" /\ SignalOf(p) = s THEN "no" ELSE waiting[p]]

Owe(t, duties) == owed' = [owed EXCEPT ![t] = duties]

\* An inline run returns to its caller where a thread would begin its next one.
AndReturn(p) == IF Inline(p) THEN <<"return">> ELSE <<>>

-----------------------------------------------------------------------------
(* The steps of KVCache, with what they owe. *)

\* Mutant: slab_flush notifies only when it starts the thread, as slab_gc does.
slab_flush_start_only ==
    /\ started' = started \cup {"flush"}
    /\ waiting' = IF "flush" \in started THEN waiting ELSE Woken("flush")

\* slab_flush with a background thread.
slab_flush == started' = started \cup {"flush"} /\ waiting' = Woken("flush")

\* What a step of Put owes.  FinishPut calls slab_flush, if flush is a thread,
\* before it releases mslab_full_mutex_.
PutOwes ==
    CASE put_pc = "alloc" /\ put_pc' = "wait_flush" ->
            Owe("put", <<"slab_flush">>) /\ UNCHANGED <<started, waiting>>
      [] put_pc = "index" /\ put_pc' = "wait_index" ->
            Owe("put", <<"slab_flush", "slab_gc", "test">>) /\ UNCHANGED <<started, waiting>>
      [] put_pc = "finish" /\ mslab_full' # mslab_full /\ options.flush ->
            slab_flush /\ UNCHANGED owed
      [] OTHER -> UNCHANGED <<started, waiting, owed>>

PutProgram ==
    /\ Ready("put")
    /\ PutStep /\ PutOwes
    /\ UNCHANGED <<options, caller, flushVars, gcVars>>

FlushOwes ==
    Owe("flush", CASE flush_pc' = "wait_gc" -> <<"slab_gc">>
                   [] flush_pc = "publish" -> <<"flush_finished", "gc">> \o AndReturn("flush")
                   [] OTHER -> <<>>)

FlushProgram ==
    /\ Ready("flush")
    /\ FlushNext(DslabFullLocked) /\ FlushOwes
    /\ UNCHANGED <<options, started, waiting, caller, clientVars, gcVars>>

\* A foreground do_slab_gc that has freed nothing: do_slab_flush scans the
\* channels in vain and calls slab_gc again.  Mutant: it gives up, its mslab
\* forgotten.
RetryFromStart ==
    /\ Ready("flush") /\ ~options.gc
    /\ flush_pc = "wait_gc" /\ nr_free_dslab <= 0
    /\ Owe("flush", <<"return">>)
    /\ flush_pc' = "wait" /\ flush_mslab' = None
    /\ UNCHANGED <<options, started, waiting, caller, clientVars, gcVars, cacheVars,
                   flush_dslab, next_mslab_flush_channel>>

RetryGc ==
    /\ Ready("flush") /\ ~options.gc
    /\ flush_pc = "wait_gc" /\ nr_free_dslab <= 0
    /\ Owe("flush", <<"slab_gc">>)
    /\ UNCHANGED <<options, started, waiting, caller, vars>>

\* Mutant: only a round that has freed a dslab is announced.
GcOwesIfFreed ==
    Owe("gc", IF gc_pc' = "wait" /\ free_list # {}
              THEN <<"gc_finished">> \o AndReturn("gc") ELSE AndReturn("gc"))

\* do_slab_gc ends with notify_all, whatever kind of round it was.
GcOwes ==
    Owe("gc", IF gc_pc' = "wait" THEN <<"gc_finished">> \o AndReturn("gc") ELSE <<>>)

GcProgram ==
    /\ Ready("gc")
    /\ GcNext /\ GcOwes
    /\ UNCHANGED <<options, started, waiting, caller, clientVars, flushVars>>

\* Calls of other clients; Delete and Get take index_mutex_.
ClientCalls ==
    /\ \/ \E kv \in Slot : Put(kv)
       \/ ~Locked("index") /\ \E k \in Keys : Delete(k)
       \/ ~Locked("index") /\ \E r \in Readers, k \in Keys : GetSlice(r, k)
       \/ \E r \in Readers : CopySlice(r) \/ GetReturn(r)
    /\ UNCHANGED <<syncVars, flushVars, gcVars>>

-----------------------------------------------------------------------------
(* The duties. *)

Notify(t) ==
    /\ owed[t] # <<>> /\ Head(owed[t]) \in Signals
    /\ waiting' = Woken(Head(owed[t]))
    /\ Owe(t, Tail(owed[t]))
    /\ UNCHANGED <<options, started, caller, vars>>

CallSlabFlush ==
    /\ owed["put"] # <<>> /\ Head(owed["put"]) = "slab_flush"
    /\ IF options.flush
       THEN slab_flush /\ UNCHANGED caller
       ELSE caller' = [caller EXCEPT !["flush"] = "put"] /\ UNCHANGED <<started, waiting>>
    /\ Owe("put", Tail(owed["put"]))
    /\ UNCHANGED <<options, vars>>

\* The GC thread, if there is one, has been started by the constructor:
\* slab_gc then does nothing, not even notify it.
CallSlabGc(p) ==
    /\ caller["flush"] # p
    /\ owed[p] # <<>> /\ Head(owed[p]) = "slab_gc"
    /\ caller' = IF options.gc THEN caller ELSE [caller EXCEPT !["gc"] = p]
    /\ Owe(p, Tail(owed[p]))
    /\ UNCHANGED <<options, started, waiting, vars>>

TestIndexEntries ==
    /\ \A q \in {"flush", "gc"} : caller[q] # "put"
    /\ owed["put"] # <<>> /\ Head(owed["put"]) = "test"
    /\ waiting' = [waiting EXCEPT !["put"] = IF Pred("put") THEN "no" ELSE "tested"]
    /\ Owe("put", Tail(owed["put"]))
    /\ UNCHANGED <<options, started, caller, vars>>

Return(p) ==
    /\ owed[p] # <<>> /\ Head(owed[p]) = "return"
    /\ caller' = [caller EXCEPT ![p] = "none"]
    /\ Owe(p, Tail(owed[p]))
    /\ UNCHANGED <<options, started, waiting, vars>>

-----------------------------------------------------------------------------
(* The waits. *)

Test(p) ==
    /\ Ready(p) /\ AtWait(p) /\ ~Pred(p)
    /\ waiting' = [waiting EXCEPT ![p] = "tested"]
    /\ UNCHANGED <<options, started, owed, caller, vars>>

Sleep(p) ==
    /\ waiting[p] = "tested"
    /\ waiting' = [waiting EXCEPT ![p] = "asleep"]
    /\ UNCHANGED <<options, started, owed, caller, vars>>

\* A thread that wakes for no reason and finds its predicate false goes back to
\* sleep, which nobody sees; one that finds it true goes on.
SpuriousWake(p) ==
    /\ waiting[p] = "asleep" /\ Pred(p)
    /\ waiting' = [waiting EXCEPT ![p] = "no"]
    /\ UNCHANGED <<options, started, owed, caller, vars>>

-----------------------------------------------------------------------------
(***************************************************************************)
(* ~KVCache, of a cache with both threads in the background.  It sets      *)
(* shutdown_, notifies the four condition variables one after the other    *)
(* and joins the threads.  A flush thread that was never started is not    *)
(* joinable and is passed over.                                            *)
(***************************************************************************)
\* Mutant: gc_finished_signal_ is forgotten.
SetShutdownThreeSignals ==
    /\ options.flush /\ options.gc
    /\ BeginShutdown
    /\ Owe("destroy", <<"gc", "flush", "flush_finished", "flush_finished">>)
    /\ UNCHANGED <<options, started, waiting, caller, clientVars, flushVars, gcVars>>

SetShutdown ==
    /\ options.flush /\ options.gc
    /\ BeginShutdown
    /\ Owe("destroy", <<"gc", "flush", "gc_finished", "flush_finished">>)
    /\ UNCHANGED <<options, started, waiting, caller, clientVars, flushVars, gcVars>>

SkipFlushThread ==
    /\ destroyer = "joining" /\ owed["destroy"] = <<>>
    /\ "flush" \notin started
    /\ FlushExit
    /\ UNCHANGED <<syncVars, clientVars, gcVars>>

Join ==
    /\ owed["destroy"] = <<>>
    /\ JoinThreads
    /\ UNCHANGED <<syncVars, clientVars, flushVars, gcVars>>

PutThread == PutProgram \/ Test("put") \/ Sleep("put")
             \/ CallSlabFlush \/ CallSlabGc("put") \/ TestIndexEntries
FlushThread == FlushProgram \/ RetryGc \/ Test("flush") \/ Sleep("flush")
               \/ Notify("flush") \/ CallSlabGc("flush") \/ Return("flush")
GcThread == GcProgram \/ Test("gc") \/ Sleep("gc") \/ Notify("gc") \/ Return("gc")
DestroyThread == Notify("destroy") \/ SkipFlushThread \/ Join

SyncNext == \/ ClientCalls \/ PutThread \/ FlushThread \/ GcThread
            \/ SetShutdown \/ DestroyThread
            \/ \E p \in Programs : SpuriousWake(p)

SyncSpec == SyncInit /\ [][SyncNext]_allVars

\* A Put in progress, the flush thread, the GC thread and a destructor that has
\* begun take their next step when it stays possible.  No client is obliged to
\* call anything, and no wake-up to come without a notification.
SyncFairness ==
    /\ WF_allVars(PutThread) /\ WF_allVars(FlushThread)
    /\ WF_allVars(GcThread) /\ WF_allVars(DestroyThread)

SyncFairSpec == SyncSpec /\ SyncFairness

-----------------------------------------------------------------------------
(***************************************************************************)
(* With its condition variables, mutexes and inline calls the cache still  *)
(* behaves as KVCache says: whatever mode it runs in and whoever sleeps,   *)
(* nothing happens that the interleaved programs cannot do.                *)
(***************************************************************************)
ImplementsKVCache == Spec

(***************************************************************************)
(* No wake-up is lost while the cache is in use: if a thread sleeps        *)
(* although its predicate holds, then somebody is about to notify it.  A   *)
(* Put that sleeps for an index entry is left out: Delete frees an entry   *)
(* and notifies nobody (see FreedEntryReachesPut).                         *)
(***************************************************************************)
Due(s) == \E t \in DOMAIN owed : \E i \in DOMAIN owed[t] : owed[t][i] = s

NoLostWakeup ==
    \A p \in Programs :
        (waiting[p] = "asleep" /\ Pred(p) /\ ~shutdown /\ ~(p = "put" /\ put_pc = "wait_index"))
            => Due(SignalOf(p)) \/ (p = "put" /\ flush_pc = "publish")

(***************************************************************************)
(* A Put that sleeps although an index entry is free again wakes up as     *)
(* long as the collector counts a full dslab: it then runs a round and     *)
(* notifies at its end, so that Delete need not.  (Here and below, unless  *)
(* the collector spins in a selection that is short of full dslabs.)       *)
(***************************************************************************)
FreedEntryReachesPut ==
    (put_pc = "wait_index" /\ waiting["put"] = "asleep" /\ options.gc
        /\ nr_free_index_entry > 0 /\ nr_full_dslab > 0)
    ~> (waiting["put"] # "asleep" \/ shutdown \/ SelectionShort)

\* A foreground Put out of index entries: it runs do_slab_flush, and perhaps
\* do_slab_gc, with index_mutex_ in its hands.
InlineUnderIndexMutex == put_pc = "wait_index" /\ caller["flush"] = "put"

(***************************************************************************)
(* do_slab_flush run inline by a Put in need of a free mslab comes back,   *)
(* unless it needs a dslab that the collector does not free.               *)
(***************************************************************************)
ForegroundFlushReturns ==
    (caller["flush"] = "put" /\ put_pc = "wait_flush")
    ~> (caller["flush"] = "none" \/ flush_pc = "wait_gc" \/ SelectionShort)

(***************************************************************************)
(* The destructor reaches both threads wherever they sleep or work, if     *)
(* none of them is between its test and its sleep when shutdown_ is set.   *)
(***************************************************************************)
ShutdownWakesSleepers ==
    (Len(owed["destroy"]) = 4 /\ \A p \in Programs : waiting[p] # "tested")
    ~> (destroyer = "done" \/ SelectionShort)

(***************************************************************************)
(* "Flush full mslabs and GC to release index entries.": a Put that runs   *)
(* out of index entries comes to wait for one, whichever mode it flushes   *)
(* and collects in.                                                        *)
(***************************************************************************)
InlineFlushReleasesEntries == InlineUnderIndexMutex ~> ~InlineUnderIndexMutex
=============================================================================
