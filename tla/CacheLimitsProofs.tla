-------------------------- MODULE CacheLimitsProofs -------------------------
(***************************************************************************)
(* Two limits the cache lives by, for every value of the constants: the    *)
(* water marks keep their distance and their bounds, and a Put that waits  *)
(* for memory never waits for half-full slabs alone.                       *)
(***************************************************************************)
EXTENDS KVCacheProofs

-----------------------------------------------------------------------------
(* The water marks.                                                        *)

\* A quick round raises the marks within their caps.
LEMMA QuickMarks ==
  ASSUME NEW low \in Int, NEW high \in Int, NEW lowMin \in Int, NEW highMax \in Int,
         NEW maxOps \in Int,
         2 <= lowMin, lowMin <= maxOps, 10 * lowMin <= 9 * highMax,
         lowMin <= low, low <= maxOps, (11 * low) \div 10 <= high
  PROVE  LET h == QuickHigh(high, highMax)  l == QuickLow(low, h, maxOps) IN
         /\ h \in Int /\ l \in Int
         /\ lowMin <= l /\ l <= maxOps /\ (11 * l) \div 10 <= h
  <1> DEFINE h == QuickHigh(high, highMax)
             l == QuickLow(low, h, maxOps)
  <1>1. h \in Int /\ (h = (3 * high) \div 2 \/ h = highMax)
    BY DEF QuickHigh, MinOf
  <1>2. lowMin <= (9 * h) \div 10
    <2>1. CASE h = highMax
      BY <2>1
    <2>2. CASE h = (3 * high) \div 2
      BY <2>2
    <2> QED
      BY <1>1, <2>1, <2>2
  <1> HIDE DEF h
  <1>3. l \in Int /\ l <= (9 * h) \div 10 /\ l <= maxOps
    BY <1>1 DEF QuickLow, MinOf
  <1>4. lowMin <= (3 * low) \div 2
    OBVIOUS
  <1>5. lowMin <= l
    BY <1>1, <1>2, <1>4 DEF QuickLow, MinOf
  <1> HIDE DEF l
  <1>6. (11 * l) \div 10 <= h
    BY <1>1, <1>3, <1>5
  <1> QED
    BY <1>1, <1>3, <1>5, <1>6 DEF h, l

\* A normal round lowers them, the low one to its minimum.
LEMMA NormalMarks ==
  ASSUME NEW low \in Int, NEW high \in Int, NEW lowMin \in Int, NEW maxOps \in Int,
         NEW step \in Nat,
         lowMin <= maxOps, lowMin <= low, low <= maxOps
  PROVE  LET l == NormalLow(low, lowMin, step)  h == NormalHigh(high, l, step) IN
         lowMin <= l /\ l <= maxOps /\ (11 * l) \div 10 <= h
  <1> DEFINE l == NormalLow(low, lowMin, step)
             h == NormalHigh(high, l, step)
  <1>1. l \in Int /\ lowMin <= l /\ l <= maxOps
    BY DEF NormalLow, MaxOf
  <1> HIDE DEF l
  <1>2. (11 * l) \div 10 <= h
    BY <1>1 DEF NormalHigh, MaxOf
  <1> QED
    BY <1>1, <1>2 DEF l, h

\* Only quick_gc and the tuning half of normal_gc move the marks.
LEMMA MarksFrame ==
  ASSUME Next
  PROVE  UNCHANGED markVars \/ quick_gc \/ TuneMarks
  <1> USE DEF cacheVars
  <1>1. CASE ClientStep
    BY <1>1 DEF ClientStep, ClientNext, PutStep, Put, slot_alloc, TakeFreeMslab, NoFreeMslab,
                FlushFinished, UpdateIndexEntry, InsertIndexEntry, NoFreeIndexEntry, FinishPut,
                Delete, GetSlice, CopySlice, GetReturn
  <1>2. CASE FlushStep
    BY <1>2 DEF FlushStep, FlushNext, FlushExit, TakeFullMslab, PickFreeDslab, NoFreeDslab,
                GcFinished, WriteDslab, MoveIndexToDslab, RecycleMslab, PublishDslab
  <1>3. CASE GcStep
    BY <1>3 DEF GcStep, GcNext, QuickGcNext, NormalGcNext,
           GcExit, GcWakes, ChooseDropOne, ChooseQuickGc, ChooseNormalGc,
           SelectDslab, SelectionDone, evict_dslab, ReclaimToOps, CollectChannel, DrainQueue,
           AddToBatch, BatchEnds, TakeOpsDslab, MoveObjects, WriteGcBuffer,
           MoveIndexToOpsDslab, RefillOps, RefillDone, ShrinkOps, ReclaimToFree
  <1>4. CASE DestroyStep
    BY <1>4 DEF DestroyStep, BeginShutdown, JoinThreads
  <1> QED
    BY <1>1, <1>2, <1>3, <1>4 DEF Next

\* The water marks stay in order: the low one between its minimum and the largest
\* ops pool, the high one a tenth above it, however rounds alternate.
THEOREM MarksInOrderInvariant == Spec => []MarksInOrder
  <1> USE DEF MarksInOrder
  <1>0. MaxOpsPoolSize \in Int
    BY SlabsAssumption DEF MaxOpsPoolSize
  <1>1. Init => MarksInOrder
    BY MarksAssumption, <1>0 DEF Init, CacheInit, MarksScale
  <1>2. TypeOK /\ MarksInOrder /\ [Next]_vars => MarksInOrder'
    <2> SUFFICES ASSUME TypeOK, MarksInOrder, [Next]_vars, MarksScale
                 PROVE  /\ LowMin <= water_mark_low' /\ water_mark_low' <= MaxOpsPoolSize
                        /\ (11 * water_mark_low') \div 10 <= water_mark_high'
      BY DEF MarksScale
    <2>1. /\ water_mark_low \in Int /\ water_mark_high \in Int
          /\ LowMin <= water_mark_low /\ water_mark_low <= MaxOpsPoolSize
          /\ (11 * water_mark_low) \div 10 <= water_mark_high
      BY DEF TypeOK, CacheTypeOK
    <2>2. /\ LowMin \in Int /\ HighMax \in Int /\ 2 <= LowMin
          /\ LowMin <= MaxOpsPoolSize /\ 10 * LowMin <= 9 * HighMax
      BY MarksAssumption DEF MarksScale
    <2>3. CASE UNCHANGED markVars
      BY <2>1, <2>3 DEF markVars
    <2>4. CASE quick_gc
      BY <1>0, <2>1, <2>2, <2>4, QuickMarks DEF quick_gc
    <2>5. CASE TuneMarks
      <3>1. CASE UNCHANGED markVars
        BY <2>3, <3>1
      <3>2. CASE /\ water_mark_low' = NormalLow(water_mark_low, LowMin, MarkStep)
                 /\ water_mark_high' = NormalHigh(water_mark_high, water_mark_low', MarkStep)
        BY <1>0, <2>1, <2>2, <3>2, NormalMarks, GcAssumption
      <3> QED
        BY <2>5, <3>1, <3>2 DEF TuneMarks
    <2>6. CASE UNCHANGED vars
      BY <2>3, <2>6 DEF vars, cacheVars
    <2> QED
      BY <2>3, <2>4, <2>5, <2>6, MarksFrame
  <1> QED
    BY <1>1, <1>2, TypeCorrect, PTL DEF Spec

-----------------------------------------------------------------------------
(* The wait for a free mslab.                                              *)

\* Each class fills at most one mslab, and the class of a Put that waits for a
\* free mslab fills none.
PartialSlabs ==
    /\ \A c \in Classes : \A m, n \in slab_partial[c] : m = n
    /\ put_pc = "wait_flush" => \E c \in Classes : slab_partial[c] = {}

\* Only Put fills mslabs.
LEMMA PartialFrame ==
  ASSUME Next
  PROVE  \/ UNCHANGED <<slab_partial, put_pc>>
         \/ UNCHANGED slab_partial /\ put_pc' # "wait_flush"
         \/ slot_alloc \/ TakeFreeMslab \/ NoFreeMslab
  <1> USE DEF cacheVars, mslabVars, clientVars, putVars
  <1>1. CASE ClientStep
    BY <1>1 DEF ClientStep, ClientNext, PutStep, Put,
                FlushFinished, UpdateIndexEntry, InsertIndexEntry, NoFreeIndexEntry, FinishPut,
                Delete, GetSlice, CopySlice, GetReturn
  <1>2. CASE FlushStep
    BY <1>2 DEF FlushStep, FlushNext, FlushExit, TakeFullMslab, PickFreeDslab, NoFreeDslab,
                GcFinished, WriteDslab, MoveIndexToDslab, RecycleMslab, PublishDslab
  <1>3. CASE GcStep
    BY <1>3 DEF GcStep, GcNext, QuickGcNext, NormalGcNext, quick_gc, TuneMarks,
           GcExit, GcWakes, ChooseDropOne, ChooseQuickGc, ChooseNormalGc,
           SelectDslab, SelectionDone, evict_dslab, ReclaimToOps, CollectChannel, DrainQueue,
           AddToBatch, BatchEnds, TakeOpsDslab, MoveObjects, WriteGcBuffer,
           MoveIndexToOpsDslab, RefillOps, RefillDone, ShrinkOps, ReclaimToFree
  <1>4. CASE DestroyStep
    BY <1>4 DEF DestroyStep, BeginShutdown, JoinThreads
  <1> QED
    BY <1>1, <1>2, <1>3, <1>4 DEF Next

\* Each class has at most one partial slab, in every reachable state.
LEMMA PartialSlabsInvariant == Spec => []PartialSlabs
  <1> USE DEF PartialSlabs
  <1>1. Init => PartialSlabs
    BY DEF Init, CacheInit, ClientInit
  <1>2. TypeOK /\ PartialSlabs /\ [Next]_vars => PartialSlabs'
    <2> SUFFICES ASSUME TypeOK, PartialSlabs, [Next]_vars PROVE PartialSlabs'
      OBVIOUS
    <2>0. slab_partial \in [Classes -> SUBSET MSlabs]
      BY DEF TypeOK, CacheTypeOK
    <2>1. CASE UNCHANGED <<slab_partial, put_pc>>
      BY <2>1
    <2>2. CASE UNCHANGED slab_partial /\ put_pc' # "wait_flush"
      BY <2>2
    <2>3. CASE slot_alloc
      <3>1. put_pc' # "wait_flush"
        BY <2>3 DEF slot_alloc
      <3>2. PICK c \in Classes, m \in MSlabs :
               slab_partial' \in {slab_partial, [slab_partial EXCEPT ![c] = @ \ {m}]}
        BY <2>0, <2>3 DEF slot_alloc, get_slab_class
      <3> QED
        BY <2>0, <3>1, <3>2
    <2>4. CASE TakeFreeMslab
      <3>1. put_pc' # "wait_flush"
        BY <2>4 DEF TakeFreeMslab, clientVars, putVars
      <3>2. PICK c \in Classes, m \in mslab_free :
               slab_partial' = [slab_partial EXCEPT ![c] = {m}]
        BY <2>4 DEF TakeFreeMslab, get_slab_class
      <3> QED
        BY <2>0, <3>1, <3>2
    <2>5. CASE NoFreeMslab
      BY <2>5 DEF NoFreeMslab, get_slab_class, cacheVars, mslabVars
    <2>6. CASE UNCHANGED vars
      BY <2>1, <2>6 DEF vars, cacheVars, mslabVars, clientVars, putVars
    <2> QED
      BY <2>1, <2>2, <2>3, <2>4, <2>5, <2>6, PartialFrame
  <1> QED
    BY <1>1, <1>2, TypeCorrect, PTL DEF Spec

\* There are as many classes as NrSlabClass says, and one fewer without one.
LEMMA OtherClasses ==
  ASSUME NEW c \in Classes
  PROVE  IsFiniteSet(Classes \ {c}) /\ Cardinality(Classes \ {c}) = NrSlabClass - 1
  <1>1. IsFiniteSet(Classes) /\ Cardinality(Classes) = NrSlabClass
    BY ConstantsAssumption, FS_Interval DEF Classes
  <1> QED
    BY <1>1, FS_RemoveElement

\* With an mslab for every class, a Put that waits for a free mslab has a full
\* one, or the flush thread's, to wait for: were all of them half full, two
\* would be of one class.
THEOREM FlushWaitHasHelperInvariant == Spec => []FlushWaitHasHelper
  <1>1. Ownership /\ PartialSlabs => FlushWaitHasHelper
    <2> SUFFICES ASSUME Ownership, PartialSlabs, put_pc = "wait_flush",
                        mslab_free = {}, mslab_full = {}, flush_mslab = None
                 PROVE  FALSE
      BY DEF FlushWaitHasHelper
    <2>1. PutHolds = {}
      BY DEF PutHolds, PutHasSlot
    <2>2. \A m \in MSlabs : m \in Partial
      <3>1. None \notin MSlabs
        BY NoneAssumption DEF Slabs, MemSlabs
      <3>2. MSlabs \subseteq Partial \cup {None}
        BY <2>1 DEF Ownership, NoMslabLost
      <3> QED
        BY <3>1, <3>2
    <2>3. PICK c \in Classes : slab_partial[c] = {}
      BY DEF PartialSlabs
    <2> DEFINE class == [m \in MSlabs |-> CHOOSE d \in Classes : m \in slab_partial[d]]
    <2>4. \A m \in MSlabs : class[m] \in Classes /\ m \in slab_partial[class[m]]
      BY <2>2 DEF Partial
    <2>5. class \in [MSlabs -> Classes \ {c}]
      BY <2>3, <2>4
    <2> HIDE DEF class
    <2>6. Cardinality(Classes \ {c}) < Cardinality(MSlabs)
      <3>1. Cardinality(Classes \ {c}) = NrSlabClass - 1
        BY OtherClasses
      <3>2. Cardinality(MSlabs) \in Nat /\ Cardinality(MSlabs) >= NrSlabClass
        BY SlabsAssumption, FS_CardinalityType
      <3>3. NrSlabClass \in Nat
        BY ConstantsAssumption
      <3> QED
        BY <3>1, <3>2, <3>3
    <2>7. \E m, n \in MSlabs : m # n /\ class[m] = class[n]
      BY <2>5, <2>6, OtherClasses, SlabsAssumption, FS_PigeonHole
    <2> QED
      BY <2>4, <2>7 DEF PartialSlabs
  <1> QED
    BY <1>1, OwnershipInvariant, PartialSlabsInvariant, PTL
=============================================================================
