--------------------------- MODULE CounterProofs ----------------------------
(***************************************************************************)
(* The counters kept beside the dslab lists, the size of the ops pool, and *)
(* what a quick round asks of the full list, for every value of the        *)
(* constants.                                                              *)
(***************************************************************************)
EXTENDS CacheLimitsProofs

\* Two counters are the lengths of their lists; nr_full_dslab_ never counts more
\* than there are (gc_dslabs leaves out the ops dslab it adds).
ListCounts ==
    /\ nr_free_dslab = Cardinality(dslab_free)
    /\ ops_pool_size = Cardinality(ops_pool)
    /\ nr_full_dslab <= Cardinality(dslab_full)

\* How many ops dslabs there are at each place of a round.  A normal round spends
\* some and refills the pool to its old size before it shrinks it, and leaves at
\* least one; a quick round adds no more than the pool lacks.
OpsCounts ==
    /\ ops_pool_size <= MaxOpsPoolSize
    /\ gc_pc \in {"wait", "choose", "tune", "select", "evict", "collect", "to_free", "exit"} =>
          1 <= ops_pool_size
    /\ gc_pc \in {"select", "evict"} => ops_pool_size + nr_back_to_ops <= MaxOpsPoolSize
    /\ gc_pc \in {"batch", "take", "move", "index", "refill"} =>
          1 <= old_ops_size /\ ops_pool_size <= old_ops_size /\ old_ops_size <= MaxOpsPoolSize
    /\ gc_pc = "refill" => 1 <= new_ops_size
    /\ gc_pc = "evict" => nr_to_drop = 0
    /\ gc_pc = "to_free" => nr_to_drop < ops_pool_size

\* A round begins with a full dslab and with nothing left over from the last one.
RoundBegins ==
    /\ gc_pc = "choose" => dslab_full # {}
    /\ gc_pc \in {"wait", "choose", "tune"} => free_list = {}

Counts == ListCounts /\ OpsCounts /\ RoundBegins /\ SelectionCovered

-----------------------------------------------------------------------------
(* Counting dslabs.                                                        *)

\* There are finitely many dslabs, so that lists of them can be counted.
LEMMA DslabsFinite ==
  ASSUME NEW D \in SUBSET DSlabs
  PROVE  IsFiniteSet(D) /\ Cardinality(D) \in Nat
  BY SlabsAssumption, FS_Subset, FS_CardinalityType

\* One dslab less, one more.
LEMMA DslabCounts ==
  ASSUME NEW D \in SUBSET DSlabs, NEW d
  PROVE  /\ d \in D => Cardinality(D \ {d}) = Cardinality(D) - 1
         /\ d \notin D => Cardinality(D \cup {d}) = Cardinality(D) + 1
  BY DslabsFinite, FS_RemoveElement, FS_AddElement

\* Two sets of dslabs together.
LEMMA DslabUnion ==
  ASSUME NEW A \in SUBSET DSlabs, NEW B \in SUBSET DSlabs
  PROVE  /\ Cardinality(A \cup B) <= Cardinality(A) + Cardinality(B)
         /\ A \cap B = {} => Cardinality(A \cup B) = Cardinality(A) + Cardinality(B)
  <1> DEFINE a == Cardinality(A)
             b == Cardinality(B)
             c == Cardinality(A \cap B)
             u == Cardinality(A \cup B)
  <1>1. IsFiniteSet(A) /\ IsFiniteSet(B) /\ a \in Nat /\ b \in Nat
    BY DslabsFinite
  <1>2. c \in Nat
    <2>1. A \cap B \in SUBSET DSlabs
      OBVIOUS
    <2> QED
      BY <2>1, DslabsFinite
  <1>3. u = a + b - c
    BY <1>1, FS_Union
  <1>4. A \cap B = {} => c = 0
    BY FS_EmptySet
  <1> HIDE DEF a, b, c, u
  <1>5. u <= a + b /\ (c = 0 => u = a + b)
    BY <1>1, <1>2, <1>3
  <1> QED
    BY <1>4, <1>5 DEF a, b, c, u

\* The ops pool holds OpsPerChannel dslabs of each channel at the start: at least
\* one, and no more than MaxOpsPoolSize.
LEMMA InitOpsPool ==
  ASSUME NEW P \in SUBSET DSlabs,
         \A c \in Channels : Cardinality(InChannel(P, c)) = OpsPerChannel
  PROVE  1 <= Cardinality(P) /\ Cardinality(P) <= MaxOpsPoolSize
  <1> DEFINE I == 1..OpsPerChannel
             Numbering(c) == Bijection(I, InChannel(P, c))
             N == [c \in Channels |-> CHOOSE b \in Numbering(c) : TRUE]
             Nr(d) == CHOOSE i \in I : N[ChannelOf[d]][i] = d
             f == [d \in P |-> <<ChannelOf[d], Nr(d)>>]
  <1>1. NrChannels \in Nat /\ NrChannels # 0 /\ OpsPerChannel \in Nat /\ OpsPerChannel # 0
    BY SlabsAssumption
  <1>2. ASSUME NEW c \in Channels PROVE N[c] \in Numbering(c)
    <2>1. InChannel(P, c) \in SUBSET DSlabs
      BY DEF InChannel
    <2>2. ExistsBijection(1..Cardinality(InChannel(P, c)), InChannel(P, c))
      BY <2>1, DslabsFinite, FS_CardinalityType
    <2>3. Numbering(c) # {}
      BY <2>2 DEF ExistsBijection
    <2> QED
      BY <2>3
  <1>3. ASSUME NEW d \in P
        PROVE  /\ ChannelOf[d] \in Channels /\ Nr(d) \in I /\ N[ChannelOf[d]][Nr(d)] = d
    <2>1. ChannelOf[d] \in Channels /\ d \in InChannel(P, ChannelOf[d])
      BY SlabsAssumption DEF InChannel
    <2>2. N[ChannelOf[d]] \in Surjection(I, InChannel(P, ChannelOf[d]))
      BY <1>2, <2>1 DEF Bijection
    <2>3. \E i \in I : N[ChannelOf[d]][i] = d
      BY <2>1, <2>2 DEF Surjection
    <2> QED
      BY <2>1, <2>3
  <1> HIDE DEF N, Nr
  <1>4. f \in Injection(P, Channels \X I)
    <2>1. f \in [P -> Channels \X I]
      BY <1>3
    <2>2. ASSUME NEW d \in P, NEW e \in P, f[d] = f[e] PROVE d = e
      <3>1. ChannelOf[d] = ChannelOf[e] /\ Nr(d) = Nr(e)
        BY <2>2
      <3> QED
        BY <1>3, <3>1
    <2> HIDE DEF f
    <2> QED
      BY <2>1, <2>2 DEF Injection, IsInjective
  <1>5. IsFiniteSet(Channels \X I) /\ Cardinality(Channels \X I) = MaxOpsPoolSize
    <2>1. IsFiniteSet(Channels) /\ Cardinality(Channels) = NrChannels
      BY <1>1, FS_Interval DEF Channels
    <2>2. IsFiniteSet(I) /\ Cardinality(I) = OpsPerChannel
      BY <1>1, FS_Interval
    <2> QED
      BY <2>1, <2>2, FS_Product DEF MaxOpsPoolSize
  <1>6. Cardinality(P) <= MaxOpsPoolSize
    BY <1>4, <1>5, FS_Injection
  <1>7. 1 <= Cardinality(P)
    <2>1. 0 \in Channels /\ InChannel(P, 0) \subseteq P
      BY <1>1 DEF Channels, InChannel
    <2>2. Cardinality(InChannel(P, 0)) <= Cardinality(P) /\ Cardinality(P) \in Nat
      BY <2>1, DslabsFinite, FS_Subset
    <2> QED
      BY <1>1, <2>1, <2>2
  <1> QED
    BY <1>6, <1>7

-----------------------------------------------------------------------------
(* What a quick round asks of the full list.                               *)

\* The dslabs that are in somebody's hands.
Held == dslab_free \cup dslab_full \cup ops_pool \cup GcHolds \cup {flush_dslab}

\* They are the ones that are not lost, and finitely many.
LEMMA HeldCount ==
  /\ DSlabs \ LostDslabs = DSlabs \cap Held
  /\ Cardinality(DSlabs \ LostDslabs) \in Nat
  <1>1. DSlabs \ LostDslabs = DSlabs \cap Held
    BY DEF LostDslabs, Held
  <1>2. DSlabs \cap Held \in SUBSET DSlabs
    OBVIOUS
  <1> QED
    BY <1>1, <1>2, DslabsFinite

\* With enough blocks left, quick_gc asks for no more dslabs than are full.
LEMMA QuickAsk ==
  ASSUME NEW low \in Int, NEW max \in Int, NEW free \in Nat, NEW ops \in Nat, NEW full \in Nat,
         NEW held \in Nat,
         low <= max, held <= free + full + ops + 1, 23 * max + 10 <= 10 * held
  PROVE  BackToFree(low, free) + BackToOps(ops, max) <= full
  <1> DEFINE x == 10 * (low - free) + 3 * low
             t == TruncTenth(x)
  <1>1. x \in Int /\ 10 * t <= x + 9 /\ t \in Int
    BY DEF TruncTenth
  <1>2. BackToFree(low, free) = t
    BY DEF BackToFree
  <1>3. BackToOps(ops, max) \in Int /\ BackToOps(ops, max) <= max - ops
    BY DEF BackToOps, MinOf
  <1>4. x <= 13 * max - 10 * free
    OBVIOUS
  <1> DEFINE b == BackToOps(ops, max)
  <1> HIDE DEF x, t, b
  <1>5. 10 * (t + b) <= 13 * max - 10 * free + 9 + 10 * max - 10 * ops
    BY <1>1, <1>3, <1>4 DEF b
  <1>6. 10 * full >= 23 * max - 10 * free - 10 * ops
    OBVIOUS
  <1>7. t + b <= full
    BY <1>1, <1>3, <1>5, <1>6 DEF b
  <1> QED
    BY <1>2, <1>7 DEF b

\* The selection loop gives what it takes; nobody else takes a held dslab away.
LEMMA StillCovered ==
  ASSUME TypeOK, TypeOK', SelectionCovered, gc_pc = "select", (DSlabs \cap Held)' \subseteq Held,
         \/ UNCHANGED <<nr_to_drop, dslab_full>>
         \/ /\ nr_to_drop' = nr_to_drop - 1
            /\ Cardinality(dslab_full') = Cardinality(dslab_full) - 1
  PROVE  SelectionCovered'
  <1> DEFINE h == Cardinality(DSlabs \ LostDslabs)
             k == Cardinality((DSlabs \ LostDslabs)')
             n == Cardinality(dslab_full)
             m == Cardinality(dslab_full')
  <1> SUFFICES ASSUME MarksScale, 23 * MaxOpsPoolSize + 10 <= 10 * k
               PROVE  nr_to_drop' <= m
    BY DEF SelectionCovered, MarksScale
  <1>1. MaxOpsPoolSize \in Int
    BY SlabsAssumption DEF MaxOpsPoolSize
  <1>2. h \in Nat /\ k \in Nat /\ k <= h
    <2>1. DSlabs \ LostDslabs \in SUBSET DSlabs
      OBVIOUS
    <2>2. (DSlabs \ LostDslabs)' \in SUBSET (DSlabs \ LostDslabs)
      BY DEF LostDslabs, Held
    <2> QED
      BY <2>1, <2>2, DslabsFinite, FS_Subset
  <1>3. n \in Nat /\ m \in Nat /\ nr_to_drop \in Int
    BY DslabsFinite DEF TypeOK, CacheTypeOK, GcTypeOK
  <1>4. 23 * MaxOpsPoolSize + 10 <= 10 * h => nr_to_drop <= n
    BY DEF SelectionCovered
  <1> HIDE DEF h, k
  <1>5. nr_to_drop <= n
    BY <1>1, <1>2, <1>4
  <1>6. (nr_to_drop' = nr_to_drop /\ m = n) \/ (nr_to_drop' = nr_to_drop - 1 /\ m = n - 1)
    OBVIOUS
  <1> HIDE DEF n, m
  <1> QED
    BY <1>3, <1>5, <1>6

\* Steps that touch neither the dslab lists nor what the collector has in hand.
LEMMA CountsFrame ==
  ASSUME TypeOK, TypeOK', Counts, UNCHANGED <<dslabVars, gcVars, flush_dslab>>
  PROVE  Counts'
  <1> USE DEF dslabVars, gcVars, quickVars, tuneVars
  <1>1. ListCounts' /\ OpsCounts' /\ RoundBegins'
    BY DEF Counts, ListCounts, OpsCounts, RoundBegins
  <1>2. SelectionCovered'
    <2>1. CASE gc_pc = "select"
      <3>1. Held' = Held
        BY DEF Held, GcHolds
      <3> QED
        BY <2>1, <3>1, StillCovered DEF Counts
    <2>2. CASE gc_pc # "select"
      BY <2>2 DEF SelectionCovered
    <2> QED
      BY <2>1, <2>2
  <1> QED
    BY <1>1, <1>2 DEF Counts

\* Steps of the flush thread.
LEMMA FlushCounts ==
  ASSUME Ownership, TypeOK', Counts, FlushStep
  PROVE  Counts'
  <1> USE DEF cacheVars, dslabVars
  <1>1. FlushNext(DslabFullLocked) /\ UNCHANGED gcVars
    BY DEF FlushStep
  <1>2. TypeOK /\ CacheTypeOK /\ FlushTypeOK /\ FlushHolding /\ DslabHands /\ ListCounts
    BY DEF Ownership, TypeOK, OneHand, Counts
  <1>3. CASE UNCHANGED <<dslabVars, flush_dslab>>
    BY <1>1, <1>2, <1>3, CountsFrame
  <1>4. CASE PickFreeDslab
    <2>1. PICK d \in dslab_free : /\ dslab_free' = dslab_free \ {d} /\ flush_dslab' = d
                                  /\ nr_free_dslab' = nr_free_dslab - 1
      BY <1>4 DEF PickFreeDslab, FoundFrom
    <2>2. UNCHANGED <<dslab_full, ops_pool, nr_full_dslab, ops_pool_size>>
      BY <1>4 DEF PickFreeDslab
    <2>3. ListCounts'
      <3>1. Cardinality(dslab_free \ {d}) = Cardinality(dslab_free) - 1
        BY <1>2, <2>1, DslabCounts DEF CacheTypeOK
      <3> QED
        BY <1>2, <2>1, <2>2, <3>1 DEF ListCounts
    <2>4. OpsCounts' /\ RoundBegins'
      BY <1>1, <2>2 DEF Counts, OpsCounts, RoundBegins, gcVars, quickVars, tuneVars
    <2>5. SelectionCovered'
      <3>1. CASE gc_pc = "select"
        <4>1. (DSlabs \cap Held)' \subseteq Held
          BY <1>1, <2>1, <2>2 DEF Held, GcHolds, gcVars
        <4>2. UNCHANGED <<nr_to_drop, dslab_full>>
          BY <1>1, <2>2 DEF gcVars, quickVars
        <4> QED
          BY <1>2, <3>1, <4>1, <4>2, StillCovered DEF Counts
      <3>2. CASE gc_pc # "select"
        BY <1>1, <3>2 DEF SelectionCovered, gcVars
      <3> QED
        BY <3>1, <3>2
    <2> QED
      BY <2>3, <2>4, <2>5 DEF Counts
  <1>5. CASE PublishDslab(DslabFullLocked)
    <2>1. /\ gc_pc # "select" /\ flush_pc = "publish"
          /\ dslab_full' = dslab_full \cup {flush_dslab} /\ nr_full_dslab' = nr_full_dslab + 1
          /\ UNCHANGED <<dslab_free, ops_pool, nr_free_dslab, ops_pool_size>>
      BY <1>5 DEF PublishDslab, DslabFullLocked
    <2>2. flush_dslab \notin dslab_full
      BY <1>2, <2>1 DEF FlushHolding, DslabHands, Disjoint
    <2>3. ListCounts'
      <3> DEFINE n == Cardinality(dslab_full)
      <3>1. Cardinality(dslab_full \cup {flush_dslab}) = n + 1
        BY <1>2, <2>2, DslabCounts DEF CacheTypeOK
      <3>2. n \in Nat /\ nr_full_dslab <= n /\ nr_full_dslab \in Int
        BY <1>2, DslabsFinite DEF CacheTypeOK, ListCounts
      <3> HIDE DEF n
      <3>3. nr_full_dslab + 1 <= n + 1
        BY <3>2
      <3> QED
        BY <1>2, <2>1, <3>1, <3>3 DEF ListCounts
    <2>4. OpsCounts' /\ RoundBegins'
      BY <1>1, <2>1 DEF Counts, OpsCounts, RoundBegins, gcVars, quickVars, tuneVars
    <2>5. SelectionCovered'
      BY <1>1, <2>1 DEF SelectionCovered, gcVars
    <2> QED
      BY <2>3, <2>4, <2>5 DEF Counts
  <1> QED
    BY <1>1, <1>3, <1>4, <1>5
    DEF FlushNext, FlushExit, TakeFullMslab, NoFreeDslab, GcFinished, WriteDslab,
        MoveIndexToDslab, RecycleMslab

\* The steps of a quick round.
LEMMA QuickCounts ==
  ASSUME Ownership, TypeOK', Counts, MarksInOrder', QuickGcNext, flush_dslab' = flush_dslab
  PROVE  Counts'
  <1> USE DEF cacheVars, dslabVars, quickVars, batchVars, tuneVars
  <1>1. TypeOK /\ CacheTypeOK /\ GcTypeOK /\ FlushTypeOK /\ GcHolding /\ DslabHands
    BY DEF Ownership, TypeOK, OneHand
  <1>2. ListCounts /\ OpsCounts /\ RoundBegins /\ SelectionCovered
    BY DEF Counts
  <1>3. MaxOpsPoolSize \in Int
    BY SlabsAssumption DEF MaxOpsPoolSize
  <1> DEFINE free == Cardinality(dslab_free)
             full == Cardinality(dslab_full)
             ops == Cardinality(ops_pool)
  <1>4. free \in Nat /\ full \in Nat /\ ops \in Nat
    BY <1>1, DslabsFinite DEF CacheTypeOK
  <1>5. CASE quick_gc
    <2>1. /\ gc_pc = "tune" /\ gc_pc' = "select"
          /\ nr_back_to_ops' = BackToOps(ops_pool_size, MaxOpsPoolSize)
          /\ nr_to_drop' = BackToFree(water_mark_low', nr_free_dslab)
                               + BackToOps(ops_pool_size, MaxOpsPoolSize)
          /\ UNCHANGED <<dslabVars, free_list, to_drop>>
      BY <1>5 DEF quick_gc
    <2>2. ListCounts' /\ RoundBegins'
      BY <1>2, <2>1 DEF ListCounts, RoundBegins
    <2>3. OpsCounts'
      <3>1. ops_pool_size \in Int /\ 1 <= ops_pool_size /\ ops_pool_size <= MaxOpsPoolSize
        BY <1>1, <1>2, <2>1 DEF CacheTypeOK, OpsCounts
      <3>2. ops_pool_size + BackToOps(ops_pool_size, MaxOpsPoolSize) <= MaxOpsPoolSize
        BY <1>3, <3>1 DEF BackToOps, MinOf
      <3> QED
        BY <2>1, <3>1, <3>2 DEF OpsCounts
    <2>4. SelectionCovered'
      <3> DEFINE held == Cardinality((DSlabs \ LostDslabs)')
      <3> SUFFICES ASSUME MarksScale, 23 * MaxOpsPoolSize + 10 <= 10 * held
                   PROVE  nr_to_drop' <= full
        BY <2>1 DEF SelectionCovered, MarksScale
      <3>1. to_drop = {} /\ free_list = {}
        BY <1>1, <1>2, <2>1 DEF GcHolding, RoundBegins
      <3>2. held \in Nat /\ held <= free + full + ops + 1
        <4> DEFINE F == {flush_dslab} \cap DSlabs
                   A == dslab_free \cup dslab_full
                   B == A \cup ops_pool
        <4>1. (DSlabs \ LostDslabs)' = B \cup F
          BY <1>1, <2>1, <3>1 DEF LostDslabs, GcHolds, CacheTypeOK
        <4>2. /\ dslab_free \in SUBSET DSlabs /\ dslab_full \in SUBSET DSlabs
              /\ ops_pool \in SUBSET DSlabs /\ A \in SUBSET DSlabs /\ B \in SUBSET DSlabs
              /\ F \in SUBSET DSlabs /\ B \cup F \in SUBSET DSlabs
          BY <1>1 DEF CacheTypeOK
        <4>3. Cardinality(A) <= free + full /\ Cardinality(A) \in Nat
          BY <4>2, DslabUnion, DslabsFinite
        <4>4. Cardinality(B) <= Cardinality(A) + ops /\ Cardinality(B) \in Nat
          BY <4>2, DslabUnion, DslabsFinite
        <4>5. Cardinality(F) <= 1 /\ Cardinality(F) \in Nat
          <5>1. F \in SUBSET {flush_dslab}
            OBVIOUS
          <5>2. IsFiniteSet({flush_dslab}) /\ Cardinality({flush_dslab}) = 1
            BY FS_Singleton
          <5>3. Cardinality(F) <= 1
            BY <5>1, <5>2, FS_Subset
          <5> QED
            BY <4>2, <5>3, DslabsFinite
        <4>6. held <= Cardinality(B) + Cardinality(F) /\ held \in Nat
          BY <4>1, <4>2, DslabUnion, DslabsFinite
        <4> DEFINE a == Cardinality(A)
                   b == Cardinality(B)
                   f == Cardinality(F)
        <4> HIDE DEF a, b, f, free, full, ops, held
        <4>7. held <= free + full + ops + 1
          BY <1>4, <4>3, <4>4, <4>5, <4>6 DEF a, b, f
        <4> QED
          BY <4>6, <4>7
      <3>3. water_mark_low' \in Int /\ water_mark_low' <= MaxOpsPoolSize
        BY DEF TypeOK, CacheTypeOK, MarksInOrder, MarksScale
      <3>4. nr_to_drop' = BackToFree(water_mark_low', free) + BackToOps(ops, MaxOpsPoolSize)
        BY <1>2, <2>1 DEF ListCounts
      <3> HIDE DEF held, free, full, ops
      <3> QED
        BY <1>3, <1>4, <3>2, <3>3, <3>4, QuickAsk
    <2> QED
      BY <2>2, <2>3, <2>4 DEF Counts
  <1>6. CASE SelectDslab
    <2>1. /\ gc_pc = "select" /\ gc_pc' = "select"
          /\ UNCHANGED <<dslab_free, ops_pool, nr_free_dslab, ops_pool_size, nr_back_to_ops,
                         old_ops_size, new_ops_size, free_list>>
      BY <1>6 DEF SelectDslab
    <2>2. OpsCounts' /\ RoundBegins'
      BY <1>2, <2>1 DEF OpsCounts, RoundBegins
    <2>3. CASE UNCHANGED <<dslab_full, nr_full_dslab, to_drop, nr_to_drop>>
      <3>1. ListCounts'
        BY <1>2, <2>1, <2>3 DEF ListCounts
      <3>2. Held' = Held
        BY <2>1, <2>3 DEF Held, GcHolds
      <3> QED
        BY <1>1, <1>2, <2>1, <2>2, <2>3, <3>1, <3>2, StillCovered DEF Counts
    <2>4. CASE \E d \in dslab_full : /\ dslab_full' = dslab_full \ {d}
                                     /\ nr_full_dslab' = nr_full_dslab - 1
                                     /\ to_drop' = to_drop \cup {d}
                                     /\ nr_to_drop' = nr_to_drop - 1
      <3>1. PICK d \in dslab_full : /\ dslab_full' = dslab_full \ {d}
                                    /\ nr_full_dslab' = nr_full_dslab - 1
                                    /\ to_drop' = to_drop \cup {d}
                                    /\ nr_to_drop' = nr_to_drop - 1
        BY <2>4
      <3>2. Cardinality(dslab_full') = full - 1
        BY <1>1, <3>1, DslabCounts DEF CacheTypeOK
      <3>3. ListCounts'
        <4>1. nr_full_dslab <= full /\ nr_full_dslab \in Int
          BY <1>1, <1>2 DEF ListCounts, CacheTypeOK
        <4> HIDE DEF full
        <4>2. nr_full_dslab - 1 <= full - 1
          BY <1>4, <4>1
        <4> QED
          BY <1>2, <2>1, <3>1, <3>2, <4>2 DEF ListCounts
      <3>4. Held' \subseteq Held
        BY <2>1, <3>1 DEF Held, GcHolds
      <3> QED
        BY <1>1, <1>2, <2>1, <2>2, <3>1, <3>2, <3>3, <3>4, StillCovered DEF Counts
    <2> QED
      BY <1>6, <2>3, <2>4 DEF SelectDslab, InChannel
  <1>7. CASE SelectionDone
    <2>1. /\ gc_pc = "select" /\ gc_pc' = "evict" /\ nr_to_drop' = 0
          /\ UNCHANGED <<dslabVars, nr_back_to_ops>>
      BY <1>7 DEF SelectionDone
    <2> QED
      BY <1>2, <2>1 DEF Counts, ListCounts, OpsCounts, RoundBegins, SelectionCovered
  <1>8. CASE evict_dslab
    <2>1. /\ gc_pc = "evict" /\ gc_pc' = "evict" /\ nr_to_drop' = nr_to_drop
          /\ UNCHANGED <<dslabVars, nr_back_to_ops>>
      BY <1>8 DEF evict_dslab
    <2> QED
      BY <1>2, <2>1 DEF Counts, ListCounts, OpsCounts, RoundBegins, SelectionCovered
  <1>9. CASE ReclaimToOps
    <2>1. PICK D \in SUBSET to_drop :
             /\ Cardinality(D) = MinOf(MaxOf(nr_back_to_ops, 0), Cardinality(to_drop))
             /\ AddToOps(D)
      BY <1>9 DEF ReclaimToOps
    <2>2. /\ gc_pc = "evict" /\ gc_pc' = "to_free" /\ nr_to_drop' = nr_to_drop
          /\ UNCHANGED <<dslab_free, dslab_full, nr_free_dslab, nr_full_dslab>>
      BY <1>9 DEF ReclaimToOps
    <2> DEFINE n == Cardinality(D)
    <2>3. n \in Nat /\ (n <= nr_back_to_ops \/ n = 0)
      <3>1. Cardinality(to_drop) \in Nat /\ n \in Nat /\ nr_back_to_ops \in Int
        BY <1>1, DslabsFinite DEF GcTypeOK
      <3> DEFINE c == Cardinality(to_drop)
      <3>2. n = MinOf(MaxOf(nr_back_to_ops, 0), c)
        BY <2>1
      <3> HIDE DEF n, c
      <3> QED
        BY <3>1, <3>2 DEF MinOf, MaxOf, c
    <2>4. ops_pool_size' = ops_pool_size + n /\ ops_pool' = ops_pool \cup D
      BY <2>1 DEF AddToOps
    <2>5. Cardinality(ops_pool') = ops + n
      <3>1. D \in SUBSET DSlabs /\ ops_pool \in SUBSET DSlabs /\ ops_pool \cap D = {}
        BY <1>1, <2>2 DEF GcTypeOK, CacheTypeOK, DslabHands, Disjoint, GcHolds
      <3> QED
        BY <2>4, <3>1, DslabUnion
    <2>6. ops_pool_size = ops /\ nr_to_drop = 0 /\ nr_back_to_ops \in Int
          /\ 1 <= ops /\ ops + nr_back_to_ops <= MaxOpsPoolSize /\ ops <= MaxOpsPoolSize
      BY <1>1, <1>2, <2>2 DEF ListCounts, OpsCounts, GcTypeOK
    <2>7. ListCounts'
      BY <1>2, <2>2, <2>4, <2>5 DEF ListCounts
    <2> HIDE DEF n, ops
    <2>8. 1 <= ops + n /\ ops + n <= MaxOpsPoolSize /\ 0 < ops + n
      BY <1>3, <1>4, <2>3, <2>6
    <2>9. OpsCounts' /\ RoundBegins' /\ SelectionCovered'
      BY <2>2, <2>4, <2>6, <2>8 DEF OpsCounts, RoundBegins, SelectionCovered
    <2> QED
      BY <2>7, <2>9 DEF Counts
  <1> QED
    BY <1>5, <1>6, <1>7, <1>8, <1>9 DEF QuickGcNext

\* The choice of a round.  The collector is woken by its count of full dslabs, which
\* is never too high: there is one to drop.
LEMMA ChoiceCounts ==
  ASSUME Ownership, TypeOK', Counts,
         GcExit \/ GcWakes \/ ChooseDropOne \/ ChooseQuickGc \/ ChooseNormalGc
  PROVE  Counts'
  <1> USE DEF cacheVars, dslabVars, quickVars, tuneVars
  <1>1. CacheTypeOK /\ ListCounts /\ OpsCounts /\ RoundBegins
    BY DEF Ownership, TypeOK, Counts
  <1>2. UNCHANGED <<dslabVars, tuneVars, free_list>>
    BY DEF GcExit, GcWakes, ChooseDropOne, ChooseQuickGc, ChooseNormalGc
  <1>3. ListCounts'
    BY <1>1, <1>2 DEF ListCounts
  <1> DEFINE full == Cardinality(dslab_full)
  <1>4. full \in Nat /\ nr_full_dslab \in Int /\ nr_full_dslab <= full
    BY <1>1, DslabsFinite DEF CacheTypeOK, ListCounts
  <1>5. full = 0 <=> dslab_full = {}
    BY <1>1, DslabsFinite, FS_EmptySet DEF CacheTypeOK
  <1> HIDE DEF full
  <1>6. CASE GcExit \/ ChooseQuickGc \/ ChooseNormalGc
    BY <1>1, <1>2, <1>3, <1>6
    DEF GcExit, ChooseQuickGc, ChooseNormalGc, Counts, OpsCounts, RoundBegins, SelectionCovered
  <1>7. CASE GcWakes
    <2>1. gc_pc = "wait" /\ gc_pc' = "choose" /\ nr_full_dslab > 0
      BY <1>7 DEF GcWakes
    <2>2. dslab_full # {}
      BY <1>4, <1>5, <2>1
    <2> QED
      BY <1>1, <1>2, <1>3, <2>1, <2>2 DEF Counts, OpsCounts, RoundBegins, SelectionCovered
  <1>8. CASE ChooseDropOne
    <2>1. /\ gc_pc = "choose" /\ gc_pc' = "select"
          /\ nr_to_drop' = 1 /\ nr_back_to_ops' = 0
      BY <1>8 DEF ChooseDropOne
    <2>2. 1 <= full
      BY <1>1, <1>4, <1>5, <2>1 DEF RoundBegins
    <2>3. OpsCounts'
      <3>1. ops_pool_size \in Int /\ 1 <= ops_pool_size /\ ops_pool_size <= MaxOpsPoolSize
        BY <1>1, <2>1 DEF CacheTypeOK, OpsCounts
      <3>2. ops_pool_size + 0 <= MaxOpsPoolSize
        BY <3>1
      <3> QED
        BY <1>2, <2>1, <3>1, <3>2 DEF OpsCounts
    <2>4. RoundBegins' /\ SelectionCovered'
      BY <1>2, <2>1, <2>2 DEF RoundBegins, SelectionCovered, full
    <2> QED
      BY <1>3, <2>3, <2>4 DEF Counts
  <1> QED
    BY <1>6, <1>7, <1>8

\* The steps of a normal round that leave the dslab lists alone.
LEMMA NormalFrame ==
  ASSUME TypeOK, Counts, UNCHANGED <<dslabVars, free_list>>,
         \/ CollectChannel \/ DrainQueue \/ AddToBatch \/ BatchEnds \/ MoveObjects
         \/ WriteGcBuffer \/ MoveIndexToOpsDslab \/ TuneMarks \/ RefillDone
  PROVE  Counts'
  <1> USE DEF dslabVars, quickVars, tuneVars
  <1>1. ListCounts /\ OpsCounts /\ RoundBegins
    BY DEF Counts
  <1>2. ListCounts'
    BY <1>1 DEF ListCounts
  <1>3. ops_pool_size \in Int /\ old_ops_size \in Int /\ new_ops_size \in Int
    BY DEF TypeOK, CacheTypeOK, GcTypeOK
  <1>4. CASE CollectChannel
    BY <1>1, <1>2, <1>4 DEF CollectChannel, Counts, OpsCounts, RoundBegins, SelectionCovered
  <1>5. CASE DrainQueue
    <2>1. gc_pc = "collect" /\ gc_pc' = "batch" /\ old_ops_size' = ops_pool_size
      BY <1>5 DEF DrainQueue
    <2> QED
      BY <1>1, <1>2, <1>3, <2>1 DEF Counts, OpsCounts, RoundBegins, SelectionCovered
  <1>6. CASE AddToBatch \/ BatchEnds \/ MoveObjects \/ WriteGcBuffer \/ MoveIndexToOpsDslab
    <2>1. /\ gc_pc \in {"batch", "move", "index"} /\ gc_pc' \in {"batch", "take", "move", "index"}
          /\ UNCHANGED <<old_ops_size, new_ops_size>>
      BY <1>6 DEF AddToBatch, BatchEnds, MoveObjects, WriteGcBuffer, MoveIndexToOpsDslab
    <2> QED
      BY <1>1, <1>2, <2>1 DEF Counts, OpsCounts, RoundBegins, SelectionCovered
  <1>7. CASE TuneMarks
    <2>1. gc_pc = "batch" /\ gc_pc' = "refill" /\ old_ops_size' = old_ops_size
      BY <1>7 DEF TuneMarks
    <2>2. new_ops_size' = MaxOf(OpsFloor, old_ops_size - 1) \/ new_ops_size' = old_ops_size
      BY <1>7 DEF TuneMarks
    <2>3. 1 <= old_ops_size
      BY <1>1, <2>1 DEF OpsCounts
    <2>4. 1 <= new_ops_size'
      BY <1>3, <2>2, <2>3, GcAssumption DEF MaxOf
    <2> QED
      BY <1>1, <1>2, <2>1, <2>4 DEF Counts, OpsCounts, RoundBegins, SelectionCovered
  <1>8. CASE RefillDone
    <2>1. /\ gc_pc = "refill" /\ gc_pc' = "to_free" /\ ops_pool_size >= old_ops_size
          /\ nr_to_drop' = ops_pool_size - new_ops_size
      BY <1>8 DEF RefillDone
    <2>2. 1 <= old_ops_size /\ 1 <= new_ops_size
      BY <1>1, <2>1 DEF OpsCounts
    <2>3. 1 <= ops_pool_size /\ nr_to_drop' < ops_pool_size
      BY <1>3, <2>1, <2>2
    <2> QED
      BY <1>1, <1>2, <2>1, <2>3 DEF Counts, OpsCounts, RoundBegins, SelectionCovered
  <1> QED
    BY <1>4, <1>5, <1>6, <1>7, <1>8

\* An ops dslab into a batch: gc_dslabs does not count it as full.
LEMMA TakeCounts ==
  ASSUME Ownership, TypeOK', Counts, TakeOpsDslab
  PROVE  Counts'
  <1>1. TypeOK /\ CacheTypeOK /\ GcTypeOK /\ GcHolding /\ DslabHands
    BY DEF Ownership, TypeOK, OneHand
  <1>2. ListCounts /\ OpsCounts
    BY DEF Counts
  <1>3. PICK d \in ops_pool : /\ ops_pool' = ops_pool \ {d}
                              /\ ops_pool_size' = ops_pool_size - 1
                              /\ dslab_full' = (dslab_full \cup {d}) \ to_drop
    BY DEF TakeOpsDslab, FoundFrom, RemoveFromOps
  <1>4. /\ gc_pc = "take" /\ gc_pc' = "move"
        /\ nr_full_dslab' = nr_full_dslab - Cardinality(to_drop)
        /\ UNCHANGED <<dslab_free, nr_free_dslab, old_ops_size>>
    BY DEF TakeOpsDslab, tuneVars
  <1> DEFINE ops == Cardinality(ops_pool)
             full == Cardinality(dslab_full)
             drop == Cardinality(to_drop)
  <1>5. ops \in Nat /\ full \in Nat /\ drop \in Nat /\ nr_full_dslab \in Int
    BY <1>1, DslabsFinite DEF CacheTypeOK, GcTypeOK
  <1>6. Cardinality(ops_pool') = ops - 1
    BY <1>1, <1>3, DslabCounts DEF CacheTypeOK
  <1>7. nr_full_dslab' <= Cardinality(dslab_full')
    <2>1. to_drop \subseteq dslab_full
      BY <1>1, <1>4 DEF GcHolding
    <2> DEFINE R == dslab_full'
               r == Cardinality(R)
    <2>2. dslab_full \subseteq R \cup to_drop
      BY <1>3
    <2>3. R \in SUBSET DSlabs /\ to_drop \in SUBSET DSlabs
      BY <1>1, <1>3 DEF CacheTypeOK, GcTypeOK
    <2>4. r \in Nat /\ Cardinality(R \cup to_drop) <= r + drop
      BY <2>3, DslabUnion, DslabsFinite
    <2>5. full <= Cardinality(R \cup to_drop) /\ Cardinality(R \cup to_drop) \in Nat
      <3>1. R \cup to_drop \in SUBSET DSlabs
        BY <2>3
      <3> QED
        BY <2>2, <3>1, DslabsFinite, FS_Subset
    <2>6. nr_full_dslab <= full
      BY <1>2 DEF ListCounts
    <2> DEFINE u == Cardinality(R \cup to_drop)
    <2> HIDE DEF r, u, full, drop
    <2>7. nr_full_dslab - drop <= r
      BY <1>5, <2>4, <2>5, <2>6 DEF u
    <2> QED
      BY <1>4, <2>7 DEF drop, r
  <1>8. ListCounts'
    BY <1>2, <1>3, <1>4, <1>6, <1>7 DEF ListCounts
  <1>9. OpsCounts'
    <2>1. /\ ops_pool_size = ops /\ ops <= MaxOpsPoolSize /\ 1 <= old_ops_size
          /\ ops <= old_ops_size /\ old_ops_size <= MaxOpsPoolSize
      BY <1>2, <1>4 DEF ListCounts, OpsCounts
    <2>2. MaxOpsPoolSize \in Int /\ old_ops_size \in Int
      BY <1>1, SlabsAssumption DEF MaxOpsPoolSize, GcTypeOK
    <2> HIDE DEF ops
    <2>3. ops - 1 <= MaxOpsPoolSize /\ ops - 1 <= old_ops_size
      BY <1>5, <2>1, <2>2
    <2> QED
      BY <1>3, <1>4, <2>1, <2>3 DEF OpsCounts
  <1> QED
    BY <1>4, <1>8, <1>9 DEF Counts, RoundBegins, SelectionCovered

\* Refilling the ops pool after a normal round, up to its old size.
LEMMA RefillCounts ==
  ASSUME Ownership, TypeOK', Counts, RefillOps
  PROVE  Counts'
  <1>1. CacheTypeOK /\ GcTypeOK /\ DslabHands
    BY DEF Ownership, TypeOK, OneHand
  <1>2. ListCounts /\ OpsCounts
    BY DEF Counts
  <1>3. /\ gc_pc = "refill" /\ gc_pc' = "refill" /\ ops_pool_size < old_ops_size
        /\ UNCHANGED <<dslab_free, dslab_full, nr_free_dslab, nr_full_dslab,
                       old_ops_size, new_ops_size>>
    BY DEF RefillOps, tuneVars
  <1>4. CASE UNCHANGED <<ops_pool, ops_pool_size>>
    BY <1>2, <1>3, <1>4
    DEF Counts, ListCounts, OpsCounts, RoundBegins, SelectionCovered
  <1>5. CASE \E d \in InChannel(free_list, gc_channel) : AddToOps({d})
    <2>1. PICK d \in free_list : AddToOps({d})
      BY <1>5 DEF InChannel
    <2>2. ops_pool' = ops_pool \cup {d} /\ ops_pool_size' = ops_pool_size + 1
      BY <2>1, FS_Singleton DEF AddToOps
    <2>3. Cardinality(ops_pool') = Cardinality(ops_pool) + 1
      <3>1. d \notin ops_pool
        BY <1>1 DEF DslabHands, Disjoint, GcHolds
      <3> QED
        BY <1>1, <2>2, <3>1, DslabCounts DEF CacheTypeOK
    <2>4. ListCounts'
      BY <1>2, <1>3, <2>2, <2>3 DEF ListCounts
    <2>5. OpsCounts'
      <3>1. /\ ops_pool_size \in Int /\ old_ops_size \in Int /\ MaxOpsPoolSize \in Int
            /\ 1 <= old_ops_size /\ old_ops_size <= MaxOpsPoolSize /\ 1 <= new_ops_size
        BY <1>1, <1>2, <1>3, SlabsAssumption
        DEF CacheTypeOK, GcTypeOK, OpsCounts, MaxOpsPoolSize
      <3>2. ops_pool_size + 1 <= old_ops_size /\ ops_pool_size + 1 <= MaxOpsPoolSize
        BY <1>3, <3>1
      <3> QED
        BY <1>3, <2>2, <3>1, <3>2 DEF OpsCounts
    <2> QED
      BY <1>3, <2>4, <2>5 DEF Counts, RoundBegins, SelectionCovered
  <1> QED
    BY <1>4, <1>5 DEF RefillOps

\* Shrinking the ops pool, never to nothing.
LEMMA ShrinkCounts ==
  ASSUME Ownership, TypeOK', Counts, ShrinkOps
  PROVE  Counts'
  <1>1. CacheTypeOK /\ GcTypeOK /\ DslabHands
    BY DEF Ownership, TypeOK, OneHand
  <1>2. ListCounts /\ OpsCounts
    BY DEF Counts
  <1>3. /\ gc_pc = "to_free" /\ gc_pc' = "to_free" /\ nr_to_drop > 0
        /\ nr_to_drop' = nr_to_drop - 1
        /\ UNCHANGED <<dslab_free, dslab_full, nr_free_dslab, nr_full_dslab>>
    BY DEF ShrinkOps
  <1>4. /\ ops_pool_size \in Int /\ nr_to_drop \in Int /\ MaxOpsPoolSize \in Int
        /\ nr_to_drop < ops_pool_size /\ ops_pool_size <= MaxOpsPoolSize
    BY <1>1, <1>2, <1>3, SlabsAssumption DEF CacheTypeOK, GcTypeOK, OpsCounts, MaxOpsPoolSize
  <1>5. CASE UNCHANGED <<ops_pool, ops_pool_size>>
    <2>1. 1 <= ops_pool_size /\ nr_to_drop' < ops_pool_size
      BY <1>3, <1>4
    <2> QED
      BY <1>2, <1>3, <1>4, <1>5, <2>1
      DEF Counts, ListCounts, OpsCounts, RoundBegins, SelectionCovered
  <1>6. CASE \E d \in ops_pool : RemoveFromOps(d)
    <2>1. PICK d \in ops_pool : RemoveFromOps(d)
      BY <1>6
    <2>2. ops_pool' = ops_pool \ {d} /\ ops_pool_size' = ops_pool_size - 1
      BY <2>1 DEF RemoveFromOps
    <2>3. Cardinality(ops_pool') = Cardinality(ops_pool) - 1
      BY <1>1, <2>2, DslabCounts DEF CacheTypeOK
    <2>4. ListCounts'
      BY <1>2, <1>3, <2>2, <2>3 DEF ListCounts
    <2>5. /\ 1 <= ops_pool_size - 1 /\ nr_to_drop' < ops_pool_size - 1
          /\ ops_pool_size - 1 <= MaxOpsPoolSize
      BY <1>3, <1>4
    <2> QED
      BY <1>3, <2>2, <2>4, <2>5 DEF Counts, OpsCounts, RoundBegins, SelectionCovered
  <1> QED
    BY <1>5, <1>6 DEF ShrinkOps, InChannel

\* The end of a round: what it has reclaimed is free, and counted.
LEMMA ReclaimCounts ==
  ASSUME Ownership, TypeOK', Counts, ReclaimToFree
  PROVE  Counts'
  <1>1. CacheTypeOK /\ GcTypeOK /\ DslabHands
    BY DEF Ownership, TypeOK, OneHand
  <1>2. ListCounts /\ OpsCounts
    BY DEF Counts
  <1>3. /\ gc_pc = "to_free" /\ gc_pc' = "wait" /\ free_list' = {}
        /\ dslab_free' = dslab_free \cup free_list
        /\ nr_free_dslab' = nr_free_dslab + Cardinality(free_list)
        /\ UNCHANGED <<dslab_full, ops_pool, nr_full_dslab, ops_pool_size>>
    BY DEF ReclaimToFree
  <1>4. Cardinality(dslab_free \cup free_list)
           = Cardinality(dslab_free) + Cardinality(free_list)
    <2>1. dslab_free \cap free_list = {}
      BY <1>1 DEF DslabHands, Disjoint, GcHolds
    <2> QED
      BY <1>1, <2>1, DslabUnion DEF CacheTypeOK, GcTypeOK
  <1>5. ListCounts'
    BY <1>2, <1>3, <1>4 DEF ListCounts
  <1>6. OpsCounts' /\ RoundBegins' /\ SelectionCovered'
    BY <1>2, <1>3 DEF OpsCounts, RoundBegins, SelectionCovered
  <1> QED
    BY <1>5, <1>6 DEF Counts

-----------------------------------------------------------------------------
(* The counts hold from the first state on.                                *)

\* What slab_init leaves.
LEMMA InitCounts == Init => Counts
  <1> SUFFICES ASSUME Init PROVE Counts
    OBVIOUS
  <1>1. /\ ops_pool \in SUBSET DSlabs
        /\ \A c \in Channels : Cardinality(InChannel(ops_pool, c)) = OpsPerChannel
        /\ dslab_full = {} /\ nr_full_dslab = 0 /\ ops_pool_size = Cardinality(ops_pool)
        /\ nr_free_dslab = Cardinality(dslab_free) /\ gc_pc = "wait" /\ free_list = {}
    BY DEF Init, CacheInit, GcInit
  <1>2. 1 <= ops_pool_size /\ ops_pool_size <= MaxOpsPoolSize
    BY <1>1, InitOpsPool
  <1>3. Cardinality(dslab_full) = 0
    BY <1>1, FS_EmptySet
  <1> QED
    BY <1>1, <1>2, <1>3 DEF Counts, ListCounts, OpsCounts, RoundBegins, SelectionCovered

\* Every step of every thread keeps the counts.
LEMMA NextCounts == Ownership /\ Counts /\ MarksInOrder' /\ [Next]_vars => Counts'
  <1> SUFFICES ASSUME Ownership, Counts, MarksInOrder', [Next]_vars PROVE Counts'
    OBVIOUS
  <1>1. TypeOK /\ TypeOK'
    BY NextOwnership DEF Ownership
  <1>2. CASE ClientStep \/ DestroyStep \/ UNCHANGED vars
    <2>1. UNCHANGED <<gcVars, flush_dslab>>
      BY <1>2 DEF ClientStep, DestroyStep, vars, flushVars
    <2>2. UNCHANGED dslabVars
      <3> USE DEF cacheVars
      <3>1. CASE ClientStep
        BY <3>1 DEF ClientStep, ClientNext, PutStep, Put, slot_alloc, TakeFreeMslab,
                    NoFreeMslab, FlushFinished, UpdateIndexEntry, InsertIndexEntry,
                    NoFreeIndexEntry, FinishPut, Delete, GetSlice, CopySlice, GetReturn
      <3>2. CASE DestroyStep \/ UNCHANGED vars
        BY <3>2 DEF DestroyStep, BeginShutdown, JoinThreads, vars
      <3> QED
        BY <1>2, <3>1, <3>2
    <2> QED
      BY <1>1, <2>1, <2>2, CountsFrame
  <1>3. CASE FlushStep
    BY <1>1, <1>3, FlushCounts
  <1>4. CASE GcStep
    <2>1. GcNext /\ flush_dslab' = flush_dslab
      BY <1>4 DEF GcStep, flushVars
    <2>2. CASE QuickGcNext
      BY <1>1, <2>1, <2>2, QuickCounts
    <2>3. CASE GcExit \/ GcWakes \/ ChooseDropOne \/ ChooseQuickGc \/ ChooseNormalGc
      BY <1>1, <2>3, ChoiceCounts
    <2>4. CASE TakeOpsDslab \/ RefillOps \/ ShrinkOps \/ ReclaimToFree
      BY <1>1, <2>4, TakeCounts, RefillCounts, ShrinkCounts, ReclaimCounts
    <2>5. CASE \/ CollectChannel \/ DrainQueue \/ AddToBatch \/ BatchEnds \/ MoveObjects
               \/ WriteGcBuffer \/ MoveIndexToOpsDslab \/ TuneMarks \/ RefillDone
      <3>1. UNCHANGED <<dslabVars, free_list>>
        BY <2>5 DEF CollectChannel, DrainQueue, AddToBatch, BatchEnds, MoveObjects,
                    WriteGcBuffer, MoveIndexToOpsDslab, TuneMarks, RefillDone, cacheVars
      <3> QED
        BY <1>1, <2>5, <3>1, NormalFrame
    <2> QED
      BY <2>1, <2>2, <2>3, <2>4, <2>5 DEF GcNext, NormalGcNext
  <1> QED
    BY <1>2, <1>3, <1>4 DEF Next

(***************************************************************************)
(* The counts the collector sizes its rounds by hold at every place of its *)
(* rounds, while the flush thread takes and gives dslabs.                  *)
(***************************************************************************)
THEOREM CountsInvariant == Spec => []Counts
  <1>1. Init => Counts
    BY InitCounts
  <1>2. Ownership /\ Counts /\ MarksInOrder' /\ [Next]_vars => Counts'
    BY NextCounts
  <1> QED
    BY <1>1, <1>2, OwnershipInvariant, MarksInOrderInvariant, PTL DEF Spec

(***************************************************************************)
(* nr_free_dslab_ and ops_pool_size_ are the lengths of their lists, and   *)
(* the ops pool is neither empty between rounds or in a selection (which   *)
(* do_quick_gc asserts) nor larger than the constructor made it.           *)
(***************************************************************************)
THEOREM CountersExactInvariant == Spec => []CountersExact
  <1>1. TypeOK /\ Counts => CountersExact
    BY DEF TypeOK, CacheTypeOK, Counts, ListCounts, OpsCounts, CountersExact
  <1> QED
    BY <1>1, CountsInvariant, TypeCorrect, PTL

(***************************************************************************)
(* The selection loop of do_quick_gc is never asked for more dslabs than   *)
(* are full, for any number of channels and blocks, as long as the blocks  *)
(* not lost are 2.3 times the ops pool and one more.                       *)
(***************************************************************************)
THEOREM SelectionCoveredInvariant == Spec => []SelectionCovered
  <1>1. Counts => SelectionCovered
    BY DEF Counts
  <1> QED
    BY <1>1, CountsInvariant, PTL

=============================================================================
