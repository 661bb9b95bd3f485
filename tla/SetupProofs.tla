---------------------------- MODULE SetupProofs ----------------------------
(***************************************************************************)
(* Proofs about CacheSetup, for every geometry and all options: the class  *)
(* table, the pools and the sum over the classes that the constructor      *)
(* computes.  The recursive functions behind them are shown to exist and   *)
(* to have their properties by least counterexample (LeastNat).            *)
(***************************************************************************)
EXTENDS DeployProofs, WellFoundedInduction

\* The principle of the least number.
LEMMA LeastNat ==
  ASSUME NEW T \in SUBSET Nat, T # {}
  PROVE  \E x \in T : \A y \in T : x <= y
  <1> DEFINE R == OpToRel(<, Nat)
  <1>1. \E x \in T : \A y \in T : ~(<<y, x>> \in R)
    <2>1. IsWellFoundedOn(R, Nat)
      BY NatLessThanWellFounded
    <2> HIDE DEF R
    <2> QED
      BY <2>1, WFMin
  <1>2. \A x, y \in Nat : y < x => <<y, x>> \in R
    BY DEF OpToRel
  <1> HIDE DEF R
  <1>3. PICK x \in T : \A y \in T : ~(<<y, x>> \in R)
    BY <1>1
  <1>4. ASSUME NEW y \in T PROVE x <= y
    <2>1. x \in Nat /\ y \in Nat
      OBVIOUS
    <2>2. ~(y < x)
      BY <1>2, <1>3, <2>1
    <2> QED
      BY <2>1, <2>2
  <1> QED
    BY <1>4

-----------------------------------------------------------------------------
(* Sums over finite sets, as the community module defines them.            *)

\* it[s] is the sum of F over s, for every subset s of S.
Sums(it, F, S) ==
    it = [s \in SUBSET S |-> IF s = {} THEN 0
                             ELSE LET x == CHOOSE x \in s : TRUE
                                  IN  F[x] + it[s \ {x}]]

\* The objects that one slab of every class of S holds, and index_init's count of them.
SlotSum(g, sizes, S) == MapThenSumSet(LAMBDA k : SlotsOf(g, sizes[k]), S)
PerSlabSum(g, sizes, S) == MapThenSumSet(LAMBDA i : SlotsPerSlab(g, sizes[i]), S)

\* What MapThenSumSet computes of the slots per slab, if there are such sums.
LEMMA SumUnfold ==
  ASSUME NEW g, NEW sizes, NEW S, NEW it, Sums(it, [k \in S |-> SlotsOf(g, sizes[k])], S)
  PROVE \E jt : Sums(jt, [k \in S |-> SlotsOf(g, sizes[k])], S)
             /\ SlotSum(g, sizes, S) = jt[S]
  <1> DEFINE F == [k \in S |-> SlotsOf(g, sizes[k])]
             P(j) == j = [s \in SUBSET S |-> IF s = {} THEN 0
                             ELSE LET x == CHOOSE x \in s : TRUE
                                  IN  SlotsOf(g, sizes[x]) + j[s \ {x}]]
             jt == CHOOSE j : P(j)
  <1>1. \A j : Sums(j, F, S) <=> P(j)
    <2> TAKE j
    <2>1. \A s \in SUBSET S : s # {} =>
             F[CHOOSE x \in s : TRUE] = SlotsOf(g, sizes[CHOOSE x \in s : TRUE])
      OBVIOUS
    <2> HIDE DEF F
    <2> QED
      BY <2>1 DEF Sums
  <1>2. P(jt)
    <2>1. P(it)
      BY <1>1
    <2> HIDE DEF P
    <2> QED
      BY <2>1
  <1>3. SlotSum(g, sizes, S) = jt[S]
    BY DEF SlotSum, MapThenSumSet, MapThenFoldSet
  <1> QED
    BY <1>1, <1>2, <1>3

\* The same of the number that index_init counts with, if there are such sums.
LEMMA SumUnfoldPerSlab ==
  ASSUME NEW g, NEW sizes, NEW S, NEW it, Sums(it, [k \in S |-> SlotsPerSlab(g, sizes[k])], S)
  PROVE \E jt : Sums(jt, [k \in S |-> SlotsPerSlab(g, sizes[k])], S)
             /\ PerSlabSum(g, sizes, S) = jt[S]
  <1> DEFINE F == [k \in S |-> SlotsPerSlab(g, sizes[k])]
             P(j) == j = [s \in SUBSET S |-> IF s = {} THEN 0
                             ELSE LET x == CHOOSE x \in s : TRUE
                                  IN  SlotsPerSlab(g, sizes[x]) + j[s \ {x}]]
             jt == CHOOSE j : P(j)
  <1>1. \A j : Sums(j, F, S) <=> P(j)
    <2> TAKE j
    <2>1. \A s \in SUBSET S : s # {} =>
             F[CHOOSE x \in s : TRUE] = SlotsPerSlab(g, sizes[CHOOSE x \in s : TRUE])
      OBVIOUS
    <2> HIDE DEF F
    <2> QED
      BY <2>1 DEF Sums
  <1>2. P(jt)
    <2>1. P(it)
      BY <1>1
    <2> HIDE DEF P
    <2> QED
      BY <2>1
  <1>3. PerSlabSum(g, sizes, S) = jt[S]
    BY DEF PerSlabSum, MapThenSumSet, MapThenFoldSet
  <1> QED
    BY <1>1, <1>2, <1>3

\* Such a sum exists.
LEMMA SumExists ==
  ASSUME NEW S, IsFiniteSet(S), NEW F \in [S -> Int]
  PROVE  \E it \in [SUBSET S -> Int] : Sums(it, F, S)
  <1> DEFINE Pick(s) == CHOOSE x \in s : TRUE
             Sub(n) == {s \in SUBSET S : Cardinality(s) <= n}
             Next1(it, s) == IF s = {} THEN 0 ELSE F[Pick(s)] + it[s \ {Pick(s)}]
             Good(n) == \E it \in [Sub(n) -> Int] : \A s \in Sub(n) : it[s] = Next1(it, s)
             Bad == {n \in Nat : ~Good(n)}
  <1>1. \A s \in SUBSET S : /\ IsFiniteSet(s) /\ Cardinality(s) \in Nat
                            /\ Cardinality(s) <= Cardinality(S)
                            /\ (Cardinality(s) = 0 <=> s = {})
    BY FS_Subset, FS_CardinalityType, FS_EmptySet
  <1>2. \A s \in SUBSET S : s # {} => Pick(s) \in s
    OBVIOUS
  <1> HIDE DEF Pick
  <1>3. \A s \in SUBSET S : s # {} => /\ s \ {Pick(s)} \in SUBSET S
                                     /\ Cardinality(s \ {Pick(s)}) = Cardinality(s) - 1
    BY <1>1, <1>2, FS_RemoveElement
  <1>4. Good(0)
    <2> DEFINE it == [s \in Sub(0) |-> 0]
    <2>1. \A s \in Sub(0) : s = {}
      BY <1>1
    <2>2. it \in [Sub(0) -> Int] /\ \A s \in Sub(0) : it[s] = Next1(it, s)
      BY <2>1
    <2> QED
      BY <2>2
  <1>5. ASSUME NEW n \in Nat, Good(n) PROVE Good(n + 1)
    <2>1. PICK it \in [Sub(n) -> Int] : \A s \in Sub(n) : it[s] = Next1(it, s)
      BY <1>5
    <2> DEFINE jt == [s \in Sub(n + 1) |-> Next1(it, s)]
    <2>2. \A s \in Sub(n + 1) : s # {} => s \ {Pick(s)} \in Sub(n)
      BY <1>1, <1>3
    <2>3. Sub(n) \subseteq Sub(n + 1)
      BY <1>1
    <2> HIDE DEF Sub
    <2>4. \A s \in Sub(n) : jt[s] = it[s]
      BY <2>1, <2>3
    <2>5. \A s \in Sub(n + 1) : s # {} => Pick(s) \in S
      BY <1>2 DEF Sub
    <2>6. jt \in [Sub(n + 1) -> Int]
      BY <2>1, <2>2, <2>5
    <2>7. \A s \in Sub(n + 1) : jt[s] = Next1(jt, s)
      BY <2>2, <2>4
    <2> HIDE DEF jt, Next1
    <2> QED
      BY <2>6, <2>7
  <1> HIDE DEF Good
  <1>6. Bad = {}
    <2> SUFFICES ASSUME Bad # {} PROVE FALSE
      OBVIOUS
    <2>1. PICK m \in Bad : \A y \in Bad : m <= y
      BY LeastNat
    <2>2. m \in Nat /\ m # 0
      BY <1>4, <2>1
    <2>3. m - 1 \in Nat /\ m - 1 \notin Bad
      BY <2>1, <2>2
    <2>4. Good(m - 1)
      BY <2>3
    <2>5. Good((m - 1) + 1)
      BY <1>5, <2>3, <2>4
    <2>6. (m - 1) + 1 = m
      BY <2>2
    <2> QED
      BY <2>1, <2>5, <2>6
  <1>7. Cardinality(S) \in Nat
    BY FS_CardinalityType
  <1>8. Good(Cardinality(S))
    BY <1>6, <1>7
  <1>9. Sub(Cardinality(S)) = SUBSET S
    BY <1>1
  <1>10. PICK it \in [SUBSET S -> Int] : \A s \in SUBSET S : it[s] = Next1(it, s)
    BY <1>8, <1>9 DEF Good
  <1>11. Sums(it, F, S)
    BY <1>10 DEF Sums, Pick
  <1> QED
    BY <1>10, <1>11

\* A sum of larger terms is larger.
LEMMA SumMonotone ==
  ASSUME NEW S, IsFiniteSet(S), NEW F \in [S -> Int], NEW G \in [S -> Int],
         \A x \in S : F[x] <= G[x],
         NEW it, Sums(it, F, S), NEW jt, Sums(jt, G, S)
  PROVE  it[S] <= jt[S] /\ it[S] \in Int /\ jt[S] \in Int
  <1> DEFINE Pick(s) == CHOOSE x \in s : TRUE
             Fine(s) == it[s] \in Int /\ jt[s] \in Int /\ it[s] <= jt[s]
             Bad == {n \in Nat : \E s \in SUBSET S : Cardinality(s) = n /\ ~Fine(s)}
  <1>1. \A s \in SUBSET S : Cardinality(s) \in Nat
    BY FS_Subset, FS_CardinalityType
  <1>2. \A s \in SUBSET S : s # {} => Pick(s) \in s
    OBVIOUS
  <1>3. \A s \in SUBSET S :
           /\ it[s] = IF s = {} THEN 0 ELSE F[Pick(s)] + it[s \ {Pick(s)}]
           /\ jt[s] = IF s = {} THEN 0 ELSE G[Pick(s)] + jt[s \ {Pick(s)}]
    BY DEF Sums
  <1> HIDE DEF Pick
  <1>4. \A s \in SUBSET S : s # {} => Cardinality(s \ {Pick(s)}) = Cardinality(s) - 1
    BY <1>2, FS_RemoveElement, FS_Subset
  <1>5. Bad = {}
    <2> SUFFICES ASSUME Bad # {} PROVE FALSE
      OBVIOUS
    <2>1. PICK m \in Bad : \A y \in Bad : m <= y
      BY LeastNat
    <2>2. PICK s \in SUBSET S : Cardinality(s) = m /\ ~Fine(s)
      BY <2>1
    <2>3. s # {}
      BY <1>3, <2>2
    <2> DEFINE x == Pick(s)
               r == s \ {Pick(s)}
    <2>4. x \in S /\ r \in SUBSET S /\ Cardinality(r) = m - 1 /\ m \in Nat
      BY <1>2, <1>4, <2>1, <2>2, <2>3
    <2>5. Fine(r)
      <3>1. Cardinality(r) \in Nat
        BY <1>1, <2>4
      <3>2. m - 1 \notin Bad
        BY <2>1, <2>4
      <3> QED
        BY <2>4, <3>1, <3>2
    <2>6. it[s] = F[x] + it[r] /\ jt[s] = G[x] + jt[r]
      BY <1>3, <2>3
    <2>7. F[x] \in Int /\ G[x] \in Int /\ F[x] <= G[x]
      BY <2>4
    <2> QED
      BY <2>2, <2>5, <2>6, <2>7
  <1>6. Fine(S)
    BY <1>1, <1>5
  <1> QED
    BY <1>6

\* A slab holds no more objects than a block of its size divided into slots.
LEMMA SlotsBound ==
  ASSUME NEW b \in Nat, NEW h \in Nat, NEW s \in Nat \ {0}
  PROVE  (b - h) \div s <= b \div s /\ (b - h) \div s \in Int /\ b \div s \in Int
  <1> DEFINE p == b \div s
             q == (b - h) \div s
  <1>1. p \in Int /\ q \in Int /\ s * q <= b - h /\ b < s * p + s
    OBVIOUS
  <1> HIDE DEF p, q
  <1>2. s * q < s * (p + 1)
    BY <1>1
  <1>3. q < p + 1
    BY <1>1, <1>2
  <1>4. q <= p
    BY <1>1, <1>3
  <1> QED
    BY <1>1, <1>4 DEF p, q

\* The slot sizes a class table may hold: positive ones, and INT_MIN.
SlotSizes == (Nat \ {0}) \cup {-IntLimit}

\* The constructor counts with more objects per slab than there will be.
LEMMA SumOfSlots ==
  ASSUME NEW g, g.block_size \in Nat, NEW n \in Nat, NEW sizes \in [1..n -> SlotSizes]
  PROVE  /\ SlotSum(g, sizes, DOMAIN sizes)
              <= PerSlabSum(g, sizes, DOMAIN sizes)
         /\ SlotSum(g, sizes, DOMAIN sizes) \in Int
         /\ PerSlabSum(g, sizes, DOMAIN sizes) \in Int
  <1> DEFINE S == DOMAIN sizes
             F == [k \in S |-> SlotsOf(g, sizes[k])]
             G == [k \in S |-> SlotsPerSlab(g, sizes[k])]
  <1>1. S = 1..n /\ IsFiniteSet(S)
    BY FS_Interval
  <1>2. \A k \in S : /\ SlotsOf(g, sizes[k]) <= SlotsPerSlab(g, sizes[k])
                     /\ SlotsOf(g, sizes[k]) \in Int /\ SlotsPerSlab(g, sizes[k]) \in Int
    <2> TAKE k \in S
    <2>1. sizes[k] \in SlotSizes /\ IntLimit \in Nat /\ 44 \in Nat
      BY <1>1, SsdAssumption
    <2>2. CASE sizes[k] \in Nat \ {0}
      <3>1. sizes[k] > 0
        BY <2>2
      <3> QED
        BY <2>1, <2>2, <3>1, SlotsBound DEF SlotsOf, SlotsPerSlab, SlabHeaderSize
    <2>3. CASE sizes[k] = -IntLimit
      <3>1. ~(sizes[k] > 0)
        BY <2>1, <2>3
      <3> QED
        BY <3>1 DEF SlotsOf, SlotsPerSlab
    <2> QED
      BY <2>1, <2>2, <2>3 DEF SlotSizes
  <1>3. F \in [S -> Int] /\ G \in [S -> Int] /\ \A k \in S : F[k] <= G[k]
    BY <1>2
  <1>4. PICK it : /\ Sums(it, F, S)
                  /\ SlotSum(g, sizes, S) = it[S]
    <2>1. \E it : Sums(it, F, S)
      <3> HIDE DEF F
      <3> QED
        BY <1>1, <1>3, SumExists
    <2> QED
      BY <2>1, SumUnfold
  <1>5. PICK jt : Sums(jt, G, S) /\ PerSlabSum(g, sizes, DOMAIN sizes) = jt[S]
    <2>1. \E jt : Sums(jt, G, S)
      <3> HIDE DEF G
      <3> QED
        BY <1>1, <1>3, SumExists
    <2> QED
      BY <2>1, SumUnfoldPerSlab
  <1>6. it[S] <= jt[S] /\ it[S] \in Int /\ jt[S] \in Int
    <2> HIDE DEF F, G, S
    <2> QED
      BY <1>1, <1>3, <1>4, <1>5, SumMonotone
  <1> QED
    BY <1>4, <1>5, <1>6

-----------------------------------------------------------------------------
(* The default class table.                                                *)

\* The sizes default_slab_class_size writes: f doubles from 40 up to m, in ints.
Doubles(f, m, over) ==
    f = [i \in 0..kMaxNumSlabClass |->
            IF i = 0 THEN MinKVSize + SlotHeaderSize
            ELSE MinOf(IntCast(2 * f[i - 1], over), m)]

\* There are such sizes.
LEMMA DoublesExists ==
  ASSUME NEW m \in Int, NEW over \in Int
  PROVE  \E f \in [0..kMaxNumSlabClass -> Int] : Doubles(f, m, over)
  <1> DEFINE Val(f, i) == IF i = 0 THEN 40 ELSE MinOf(IntCast(2 * f[i - 1], over), m)
             Good(n) == \E f \in [0..n -> Int] : \A i \in 0..n : f[i] = Val(f, i)
             Bad == {n \in Nat : ~Good(n)}
  <1>1. Good(0)
    <2> DEFINE f == [i \in 0..0 |-> 40]
    <2>1. f \in [0..0 -> Int] /\ \A i \in 0..0 : f[i] = Val(f, i)
      OBVIOUS
    <2> QED
      BY <2>1
  <1>2. ASSUME NEW n \in Nat, Good(n) PROVE Good(n + 1)
    <2>1. PICK f \in [0..n -> Int] : \A i \in 0..n : f[i] = Val(f, i)
      BY <1>2
    <2> DEFINE h == [i \in 0..(n + 1) |-> Val(f, i)]
    <2>2. \A i \in 0..n : h[i] = f[i]
      BY <2>1
    <2>3. \A i \in 0..(n + 1) : i # 0 => i - 1 \in 0..n
      OBVIOUS
    <2>4. h \in [0..(n + 1) -> Int]
      BY <2>1, <2>3 DEF MinOf, IntCast
    <2>5. \A i \in 0..(n + 1) : h[i] = Val(h, i)
      BY <2>2, <2>3
    <2> HIDE DEF h, Val
    <2> QED
      BY <2>4, <2>5
  <1> HIDE DEF Good
  <1>3. Bad = {}
    <2> SUFFICES ASSUME Bad # {} PROVE FALSE
      OBVIOUS
    <2>1. PICK n \in Bad : \A y \in Bad : n <= y
      BY LeastNat
    <2>2. n \in Nat /\ n # 0
      BY <1>1, <2>1
    <2>3. n - 1 \in Nat /\ n - 1 \notin Bad /\ (n - 1) + 1 = n
      BY <2>1, <2>2
    <2>4. Good((n - 1) + 1)
      BY <1>2, <2>3
    <2> QED
      BY <2>1, <2>3, <2>4
  <1>4. PICK f \in [0..50 -> Int] : \A i \in 0..50 : f[i] = Val(f, i)
    BY <1>3 DEF Good
  <1>5. Doubles(f, m, over)
    BY <1>4 DEF Doubles, kMaxNumSlabClass, MinKVSize, SlotHeaderSize
  <1> QED
    BY <1>4, <1>5 DEF kMaxNumSlabClass

\* So CurrSize is a table of such sizes.
LEMMA CurrSizes ==
  ASSUME NEW b \in Int, MaxSlotSize(b) > 0, b < IntLimit, NEW over \in CastOverflows
  PROVE  /\ CurrSize(b, over)[0] = 40
         /\ \A i \in 1..50 : CurrSize(b, over)[i]
                = MinOf(IntCast(2 * CurrSize(b, over)[i - 1], over), MaxSlotSize(b))
         /\ CurrSize(b, over) \in [0..50 -> SlotSizes]
  <1> DEFINE m == MaxSlotSize(b)
             f == CHOOSE h : Doubles(h, m, over)
  <1>1. /\ m \in Int /\ m > 0 /\ m < IntLimit - 1 /\ IntLimit \in Nat
        /\ over = -IntLimit \/ over = IntLimit - 1
    BY SsdAssumption DEF MaxSlotSize, SlabHeaderSize, CastOverflows
  <1>2. CurrSize(b, over) = f
    BY DEF CurrSize, Doubles
  <1>3. Doubles(f, m, over)
    <2>1. over \in Int
      BY <1>1
    <2> QED
      BY <1>1, <2>1, DoublesExists
  <1> HIDE DEF f, m
  <1>4. /\ DOMAIN f = 0..50 /\ f[0] = 40
        /\ \A i \in 1..50 : f[i] = MinOf(IntCast(2 * f[i - 1], over), m)
        /\ f = [i \in 0..50 |-> f[i]]
    BY <1>3 DEF Doubles, kMaxNumSlabClass, MinKVSize, SlotHeaderSize
  <1>5. \A i \in 0..50 : f[i] \in SlotSizes
    <2> DEFINE Bad == {i \in 0..50 : f[i] \notin SlotSizes}
    <2> SUFFICES ASSUME Bad # {} PROVE FALSE
      OBVIOUS
    <2>1. PICK n \in Bad : \A y \in Bad : n <= y
      <3>1. Bad \in SUBSET Nat
        OBVIOUS
      <3> HIDE DEF Bad
      <3> QED
        BY <3>1, LeastNat
    <2>2. n \in 1..50
      BY <1>4, <2>1 DEF SlotSizes
    <2>3. n - 1 \in 0..50 /\ n - 1 \notin Bad
      BY <2>1, <2>2
    <2>4. f[n - 1] \in SlotSizes
      BY <2>3
    <2> DEFINE x == IntCast(2 * f[n - 1], over)
    <2>5. x \in Int /\ (x > 0 \/ x = -IntLimit)
      BY <1>1, <2>4 DEF IntCast, SlotSizes
    <2>6. f[n] = MinOf(x, m)
      BY <1>4, <2>2
    <2> HIDE DEF x
    <2>7. f[n] \in SlotSizes
      BY <1>1, <2>5, <2>6 DEF MinOf, SlotSizes
    <2> QED
      BY <2>1, <2>7
  <1> QED
    BY <1>2, <1>4, <1>5 DEF m

\* Where the double of the largest slot is an int, no double overflows.
LEMMA SmallSizes ==
  ASSUME NEW b \in Int, MaxSlotSize(b) > 40, 2 * MaxSlotSize(b) < IntLimit, b < IntLimit,
         NEW over \in CastOverflows
  PROVE  /\ CurrSize(b, over)[0] = 40
         /\ \A i \in 1..50 : CurrSize(b, over)[i]
                = MinOf(2 * CurrSize(b, over)[i - 1], MaxSlotSize(b))
         /\ CurrSize(b, over) \in [0..50 -> Nat \ {0}]
  <1> DEFINE m == MaxSlotSize(b)
             f == CurrSize(b, over)
  <1>1. m \in Nat /\ m > 40 /\ 2 * m < IntLimit /\ IntLimit \in Nat
    BY SsdAssumption DEF MaxSlotSize, SlabHeaderSize
  <1>2. /\ f[0] = 40 /\ f \in [0..50 -> SlotSizes]
        /\ \A i \in 1..50 : f[i] = MinOf(IntCast(2 * f[i - 1], over), m)
    BY <1>1, CurrSizes
  <1> HIDE DEF f, m
  <1>3. ASSUME NEW n \in 1..50, f[n - 1] \in 1..m
        PROVE  f[n] = MinOf(2 * f[n - 1], m) /\ f[n] \in 1..m
    <2>1. f[n] = MinOf(IntCast(2 * f[n - 1], over), m)
      BY <1>2
    <2>2. IntCast(2 * f[n - 1], over) = 2 * f[n - 1]
      BY <1>1, <1>3 DEF IntCast
    <2> QED
      BY <1>1, <1>3, <2>1, <2>2 DEF MinOf
  <1>4. \A i \in 0..50 : f[i] \in 1..m
    <2> DEFINE Bad == {i \in 0..50 : f[i] \notin 1..m}
    <2> SUFFICES ASSUME Bad # {} PROVE FALSE
      OBVIOUS
    <2>1. PICK n \in Bad : \A y \in Bad : n <= y
      <3>1. Bad \in SUBSET Nat
        OBVIOUS
      <3> HIDE DEF Bad
      <3> QED
        BY <3>1, LeastNat
    <2>2. n \in 1..50
      BY <1>1, <1>2, <2>1
    <2>3. n - 1 \in 0..50 /\ n - 1 \notin Bad
      BY <2>1, <2>2
    <2> QED
      BY <1>3, <2>1, <2>2, <2>3
  <1>5. \A i \in 1..50 : f[i] = MinOf(2 * f[i - 1], m)
    <2> TAKE i \in 1..50
    <2>1. i - 1 \in 0..50
      OBVIOUS
    <2> QED
      BY <1>3, <1>4, <2>1
  <1>6. f \in [0..50 -> Nat \ {0}]
    <2>1. \A i \in 0..50 : f[i] \in Nat \ {0}
      BY <1>1, <1>4
    <2> QED
      BY <1>2, <2>1
  <1> QED
    BY <1>2, <1>5, <1>6 DEF f, m

\* Five doublings, or the largest size.
LEMMA FiveDoublings ==
  ASSUME NEW m \in Nat, NEW f \in [0..50 -> Nat \ {0}],
         \A i \in 1..50 : f[i] = MinOf(2 * f[i - 1], m), NEW i \in 0..45
  PROVE  f[i + 5] = m \/ f[i + 5] = 32 * f[i]
  <1>1. \A j \in 0..49 : f[j] \in Nat /\ (f[j + 1] = m \/ (f[j + 1] = 2 * f[j] /\ 2 * f[j] < m))
    <2> TAKE j \in 0..49
    <2>1. j + 1 \in 1..50 /\ (j + 1) - 1 = j
      OBVIOUS
    <2>2. f[j + 1] = MinOf(2 * f[j], m) /\ f[j] \in Nat
      BY <2>1
    <2> QED
      BY <2>2 DEF MinOf
  <1>2. \A j \in 0..49 : f[j] = m => f[j + 1] = m
    <2> TAKE j \in 0..49
    <2>1. f[j] \in Nat \ {0} /\ (f[j + 1] = m \/ (f[j + 1] = 2 * f[j] /\ 2 * f[j] < m))
      BY <1>1
    <2> QED
      BY <2>1
  <1>3. f[i + 1] = m \/ f[i + 1] = 2 * f[i]
    BY <1>1
  <1>4. f[i + 2] = m \/ f[i + 2] = 4 * f[i]
    <2>1. i + 1 \in 0..49 /\ (i + 1) + 1 = i + 2 /\ f[i] \in Nat
      OBVIOUS
    <2> QED
      BY <1>1, <1>2, <1>3, <2>1
  <1>5. f[i + 3] = m \/ f[i + 3] = 8 * f[i]
    <2>1. i + 2 \in 0..49 /\ (i + 2) + 1 = i + 3 /\ f[i] \in Nat
      OBVIOUS
    <2> QED
      BY <1>1, <1>2, <1>4, <2>1
  <1>6. f[i + 4] = m \/ f[i + 4] = 16 * f[i]
    <2>1. i + 3 \in 0..49 /\ (i + 3) + 1 = i + 4 /\ f[i] \in Nat
      OBVIOUS
    <2> QED
      BY <1>1, <1>2, <1>5, <2>1
  <1> QED
    <2>1. i + 4 \in 0..49 /\ (i + 4) + 1 = i + 5 /\ f[i] \in Nat
      OBVIOUS
    <2> QED
      BY <1>1, <1>2, <1>6, <2>1

\* The largest int of 32 bits.
IntMax == 2147483647

\* An int is doubled less than thirty times: the table reaches the largest slot.
LEMMA LargestReached ==
  ASSUME NEW m \in Nat, m <= IntMax, NEW f \in [0..50 -> Nat \ {0}], f[0] = 40,
         \A i \in 1..50 : f[i] = MinOf(2 * f[i - 1], m)
  PROVE  f[30] = m
  <1>1. \A i \in 1..50 : f[i] <= m
    <2> TAKE i \in 1..50
    <2>1. f[i] = MinOf(2 * f[i - 1], m) /\ f[i - 1] \in Nat
      OBVIOUS
    <2> QED
      BY <2>1 DEF MinOf
  <1>2. \A i \in 0..45 : i \in Nat /\ f[i] \in Nat /\ f[i + 5] <= m
           /\ (f[i + 5] = m \/ f[i + 5] = 32 * f[i])
    BY <1>1, FiveDoublings
  <1>3. f[5] = m \/ f[5] = 1280
    BY <1>2
  <1>4. f[10] = m \/ f[10] = 40960
    BY <1>2, <1>3
  <1>5. f[15] = m \/ f[15] = 1310720
    BY <1>2, <1>4
  <1>6. f[20] = m \/ f[20] = 41943040
    BY <1>2, <1>5
  <1>7. f[25] = m \/ f[25] = 1342177280
    BY <1>2, <1>6
  <1> QED
    BY <1>2, <1>7 DEF IntMax

\* A set of numbers has the least number that Min names.
LEMMA MinIsLeast ==
  ASSUME NEW T \in SUBSET Nat, T # {}
  PROVE  Min(T) \in T /\ \A y \in T : Min(T) <= y
  <1>1. \E x \in T : \A y \in T : x <= y
    BY LeastNat
  <1> QED
    BY <1>1 DEF Min

\* The default table is a sequence of slot sizes.
LEMMA DefaultTableType ==
  ASSUME NEW b \in Int, MaxSlotSize(b) > 0, b < IntLimit, NEW over \in CastOverflows
  PROVE  /\ NrDefaultClasses(b, over) \in 2..50
         /\ \A i \in 2..49 : CurrSize(b, over)[i - 1] >= MaxSlotSize(b)
                              => NrDefaultClasses(b, over) <= i
         /\ \/ NrDefaultClasses(b, over) = 50
            \/ CurrSize(b, over)[NrDefaultClasses(b, over) - 1] >= MaxSlotSize(b)
         /\ default_slab_class_size(b, over) \in [1..NrDefaultClasses(b, over) -> SlotSizes]
         /\ default_slab_class_size(b, over) \in Seq(SlotSizes)
         /\ Len(default_slab_class_size(b, over)) = NrDefaultClasses(b, over)
         /\ \A k \in 1..NrDefaultClasses(b, over) :
               default_slab_class_size(b, over)[k] = CurrSize(b, over)[k - 1]
  <1> DEFINE T == {i \in 2..(kMaxNumSlabClass - 1) : CurrSize(b, over)[i - 1] >= MaxSlotSize(b)}
                    \cup {kMaxNumSlabClass}
             n == NrDefaultClasses(b, over)
             t == default_slab_class_size(b, over)
  <1>1. T \in SUBSET Nat /\ T # {} /\ T \subseteq 2..50 /\ 50 \in T
    BY DEF kMaxNumSlabClass
  <1>2. n = Min(T)
    BY DEF NrDefaultClasses
  <1>3. n \in T /\ \A y \in T : n <= y
    <2> HIDE DEF T, n
    <2> QED
      BY <1>1, <1>2, MinIsLeast
  <1>4. \A i \in 2..49 : CurrSize(b, over)[i - 1] >= MaxSlotSize(b) => i \in T
    BY DEF kMaxNumSlabClass
  <1>5. n = 50 \/ CurrSize(b, over)[n - 1] >= MaxSlotSize(b)
    BY <1>3 DEF kMaxNumSlabClass
  <1>6. n \in 2..50
    BY <1>1, <1>3
  <1> HIDE DEF n, T
  <1>7. CurrSize(b, over) \in [0..50 -> SlotSizes]
    BY CurrSizes
  <1>8. t = [i \in 1..n |-> CurrSize(b, over)[i - 1]]
    BY DEF default_slab_class_size, n
  <1>9. t \in [1..n -> SlotSizes] /\ \A k \in 1..n : t[k] = CurrSize(b, over)[k - 1]
    <2>1. \A i \in 1..n : i - 1 \in 0..50
      BY <1>6
    <2> QED
      BY <1>7, <1>8, <2>1
  <1> HIDE DEF t
  <1>10. t \in Seq(SlotSizes) /\ Len(t) = n
    BY <1>6, <1>9
  <1> QED
    BY <1>3, <1>4, <1>5, <1>6, <1>9, <1>10 DEF n, t

\* And where a slab has room for two objects or a larger one, it is what lower_bound
\* and MaxKVSize need.
LEMMA DefaultTable ==
  ASSUME NEW b \in Int, MaxSlotSize(b) > 40, 2 * MaxSlotSize(b) < IntLimit, b < IntLimit,
         NEW over \in CastOverflows, CurrSize(b, over)[30] = MaxSlotSize(b)
  PROVE  LET t == default_slab_class_size(b, over)  n == Len(default_slab_class_size(b, over)) IN
         /\ n \in Nat /\ n >= 2 /\ t[1] = 40 /\ t[n] = MaxSlotSize(b)
         /\ \A k \in 1..n : t[k] \in Nat /\ t[k] <= MaxSlotSize(b)
         /\ \A k \in 2..n : t[k - 1] < t[k] /\ t[k] <= 2 * t[k - 1]
  <1> DEFINE m == MaxSlotSize(b)
             f == CurrSize(b, over)
             n == NrDefaultClasses(b, over)
             t == default_slab_class_size(b, over)
  <1>1. m \in Nat /\ m > 40
    BY DEF MaxSlotSize, SlabHeaderSize
  <1>2. /\ f[0] = 40 /\ \A i \in 1..50 : f[i] = MinOf(2 * f[i - 1], m)
        /\ f \in [0..50 -> Nat \ {0}]
    BY SmallSizes
  <1>3. /\ n \in 2..50 /\ \A i \in 2..49 : f[i - 1] >= m => n <= i
        /\ n = 50 \/ f[n - 1] >= m
        /\ Len(t) = n /\ \A k \in 1..n : t[k] = f[k - 1]
    BY <1>1, DefaultTableType
  <1>4. f[30] = m
    OBVIOUS
  <1> HIDE DEF m, f, n, t
  <1>5. n \in 2..31 /\ f[n - 1] >= m
    <2>1. n <= 31
      <3>1. 31 \in 2..49 /\ 31 - 1 = 30 /\ f[30] >= m
        BY <1>1, <1>4
      <3>2. f[31 - 1] >= m => n <= 31
        BY <1>3, <3>1
      <3> QED
        BY <3>1, <3>2
    <2> QED
      BY <1>3, <2>1
  <1>6. \A i \in 1..50 : /\ f[i] <= m /\ f[i] <= 2 * f[i - 1]
                         /\ f[i - 1] \in Nat \ {0} /\ f[i] \in Nat
                         /\ (f[i - 1] < m => f[i - 1] < f[i])
    <2> TAKE i \in 1..50
    <2>1. f[i] = MinOf(2 * f[i - 1], m) /\ f[i - 1] \in Nat \ {0} /\ f[i] \in Nat
      BY <1>2
    <2> QED
      BY <1>1, <2>1 DEF MinOf
  <1>7. \A k \in 1..n : t[k] \in Nat /\ t[k] <= m
    <2> TAKE k \in 1..n
    <2>1. t[k] = f[k - 1]
      BY <1>3
    <2>2. CASE k = 1
      BY <1>1, <1>2, <2>1, <2>2
    <2>3. CASE k # 1
      <3>1. k - 1 \in 1..50
        BY <1>5, <2>3
      <3> QED
        BY <1>6, <2>1, <3>1
    <2> QED
      BY <2>2, <2>3
  <1>8. t[1] = 40 /\ t[n] = m
    <2>1. 1 \in 1..n /\ n \in 1..n /\ n - 1 \in 1..50 /\ 1 - 1 = 0
      BY <1>5
    <2>2. t[1] = f[0] /\ t[n] = f[n - 1] /\ f[n - 1] <= m /\ f[n - 1] \in Nat
      BY <1>3, <1>6, <2>1
    <2> QED
      BY <1>1, <1>2, <1>5, <2>2
  <1>9. ASSUME NEW k \in 2..n PROVE t[k - 1] < t[k] /\ t[k] <= 2 * t[k - 1]
    <2>1. /\ k - 1 \in 1..n /\ k \in 1..n /\ k - 1 \in 1..50 /\ (k - 1) - 1 \in 0..50
          /\ k = 2 \/ (k - 1 \in 2..49 /\ ~(n <= k - 1))
      BY <1>5
    <2>2. t[k - 1] = f[(k - 1) - 1] /\ t[k] = f[k - 1]
      BY <1>3, <2>1
    <2>3. f[(k - 1) - 1] < m
      <3>1. CASE k = 2
        BY <1>1, <1>2, <3>1
      <3>2. CASE k # 2
        <4>1. k - 1 \in 2..49 /\ ~(n <= k - 1)
          BY <2>1, <3>2
        <4>2. ~(f[(k - 1) - 1] >= m)
          BY <1>3, <4>1
        <4>3. f[(k - 1) - 1] \in Nat
          BY <1>2, <2>1
        <4> QED
          BY <1>1, <4>2, <4>3
      <3> QED
        BY <3>1, <3>2
    <2> QED
      BY <1>6, <2>1, <2>2, <2>3
  <1>10. /\ Len(t) \in Nat /\ Len(t) >= 2 /\ t[1] = 40 /\ t[Len(t)] = m
         /\ \A k \in 1..Len(t) : t[k] \in Nat /\ t[k] <= m
         /\ \A k \in 2..Len(t) : t[k - 1] < t[k] /\ t[k] <= 2 * t[k - 1]
    BY <1>3, <1>5, <1>7, <1>8, <1>9
  <1> QED
    BY <1>10 DEF m, t

-----------------------------------------------------------------------------
(* The water marks, the pools and the mslabs.                              *)

\* A float product cut to int is a number.
LEMMA TruncatedType ==
  ASSUME NEW p \in Nat, NEW n \in Nat
  PROVE  Truncated(p, n) \subseteq Int
  <1>1. p * n \in Nat
    OBVIOUS
  <1> DEFINE q == (p * n) \div 100
  <1>2. q \in Int
    BY <1>1
  <1>3. Truncated(p, n) \subseteq {q - 1, q}
    BY DEF Truncated
  <1> HIDE DEF q
  <1> QED
    BY <1>2, <1>3

\* The order of the water marks.
LEMMA MarksOrder ==
  ASSUME NEW g, g.nr_blocks \in Nat, NEW o \in OptionSets, NEW m \in Marks(g, o)
  PROVE  /\ 1 <= m.low_min /\ m.low_min <= m.low
         /\ m.high <= m.high_max /\ m.low_min + 10 <= m.high_max
  <1>1. /\ o.low_min \in Nat /\ o.high_max \in Nat /\ o.low \in Nat /\ o.high \in Nat
    BY OptionsAssumption
  <1>2. PICK lm \in Truncated(o.low_min, g.nr_blocks), hm \in Truncated(o.high_max, g.nr_blocks),
             l \in Truncated(o.low, g.nr_blocks), h \in Truncated(o.high, g.nr_blocks) :
          m = LET low_min == MaxOf(1, lm)  high_max == MaxOf(low_min + 10, hm) IN
              [low_min |-> low_min, high_max |-> high_max,
               low |-> MaxOf(low_min, l), high |-> MinOf(high_max, h)]
    BY DEF Marks
  <1>3. lm \in Int /\ hm \in Int /\ l \in Int /\ h \in Int
    BY <1>1, <1>2, TruncatedType
  <1>4. /\ m.low_min = MaxOf(1, lm) /\ m.high_max = MaxOf(MaxOf(1, lm) + 10, hm)
        /\ m.low = MaxOf(MaxOf(1, lm), l) /\ m.high = MinOf(MaxOf(MaxOf(1, lm) + 10, hm), h)
    BY <1>2
  <1> QED
    BY <1>3, <1>4 DEF MaxOf, MinOf

\* The blocks of a channel are the numbers that channel_id maps to it.
LEMMA ChannelOfNumber ==
  ASSUME NEW n \in Nat \ {0}, NEW c \in Nat, NEW id \in Int
  PROVE  id \div n = c <=> c * n <= id /\ id <= c * n + n - 1
  OBVIOUS

\* Every channel has its blocks_per_channel blocks.
LEMMA ChannelBlocks ==
  ASSUME NEW k \in Configs, NEW c \in 0..(Geometry(k).nr_channels - 1)
  PROVE  Cardinality(BlocksOfChannel(Geometry(k), OwnBlocks(Geometry(k)), c))
           = Geometry(k).blocks_per_channel
  <1> DEFINE g == Geometry(k)
             n == k.blocks_per_channel
             r == k.nr_channels
             I == (c * n)..(c * n + n - 1)
             B == BlocksOfChannel(g, OwnBlocks(g), c)
             h == [id \in I |-> block_key(channel_id(g, id), id)]
  <1>1. n \in Nat \ {0} /\ r \in Nat \ {0} /\ c \in Nat /\ c <= r - 1
    BY SsdAssumption DEF Geometry
  <1>2. g.blocks_per_channel = n /\ g.nr_blocks = n * r
    BY DEF Geometry
  <1> HIDE DEF g, n, r
  <1>3. c * n \in Nat /\ n * r \in Nat /\ c * n + n <= n * r
    <2>1. (c + 1) * n <= n * r
      BY <1>1
    <2> QED
      BY <1>1, <2>1
  <1>4. I \subseteq 0..(n * r - 1)
    BY <1>1, <1>3
  <1>5. \A b : b \in B <=> \E id \in I : b = block_key(channel_id(g, id), id)
    <2> TAKE b
    <2>1. ASSUME b \in B PROVE \E id \in I : b = block_key(channel_id(g, id), id)
      <3>1. PICK id \in 0..(n * r - 1) : b = block_key(channel_id(g, id), id)
        BY <1>2, <2>1 DEF BlocksOfChannel, OwnBlocks
      <3>2. b[2] = id
        BY <3>1 DEF block_key
      <3>3. id \div n = c
        BY <1>2, <2>1, <3>2 DEF BlocksOfChannel
      <3>4. c * n <= id /\ id <= c * n + n - 1
        BY <1>1, <3>3, ChannelOfNumber
      <3>5. id \in I
        BY <1>1, <1>3, <3>4
      <3> QED
        BY <3>1, <3>5
    <2>2. ASSUME NEW id \in I, b = block_key(channel_id(g, id), id) PROVE b \in B
      <3>1. id \in 0..(n * r - 1) /\ id \in Int /\ c * n <= id /\ id <= c * n + n - 1
        BY <1>1, <1>3, <1>4
      <3>2. id \div n = c
        BY <1>1, <3>1, ChannelOfNumber
      <3>3. b \in OwnBlocks(g) /\ b[2] = id
        BY <1>2, <2>2, <3>1 DEF OwnBlocks, block_key
      <3> QED
        BY <1>2, <3>2, <3>3 DEF BlocksOfChannel
    <2> QED
      BY <2>1, <2>2
  <1> HIDE DEF I, B
  <1>6. h \in Bijection(I, B)
    <2>1. h \in [I -> B]
      BY <1>5
    <2>2. \A b \in B : \E id \in I : h[id] = b
      BY <1>5
    <2>3. \A i, j \in I : h[i] = h[j] => i = j
      BY DEF block_key
    <2> HIDE DEF h
    <2> QED
      BY <2>1, <2>2, <2>3 DEF Bijection, Injection, Surjection, IsInjective
  <1>7. IsFiniteSet(I) /\ Cardinality(I) = n
    <2>1. c * n \in Int /\ c * n + n - 1 \in Int /\ c * n <= c * n + n - 1
      BY <1>1, <1>3
    <2>2. /\ IsFiniteSet((c * n)..(c * n + n - 1))
          /\ Cardinality((c * n)..(c * n + n - 1)) = (c * n + n - 1) - (c * n) + 1
      BY <2>1, FS_Interval
    <2>3. (c * n + n - 1) - (c * n) + 1 = n
      BY <1>1, <1>3
    <2> QED
      BY <2>2, <2>3 DEF I
  <1>8. Cardinality(B) = Cardinality(I)
    BY <1>6, <1>7, FS_Bijection DEF ExistsBijection
  <1> QED
    BY <1>2, <1>7, <1>8 DEF B, g

-----------------------------------------------------------------------------
(* Every cache is what the constructor computed.                           *)

\* A running cache was built on an SSD of the client's geometry, with options for
\* which index_init did not throw.
CachesBuilt ==
    \A i \in DOMAIN caches :
        LET s == caches[i].setup IN
        /\ s.options \in OptionSets /\ s.sizes \in ClassTables(Geometry(config), s.options)
        /\ IndexLargeEnough(Geometry(config), s.options, s.sizes)
        /\ s \in Setups(Geometry(config), s.options, s.sizes, s.found)

\* Steps that build no cache.
LEMMA BuiltFrame ==
  ASSUME CachesBuilt, caches' = <<>> \/ UNCHANGED <<config, caches>>
  PROVE  CachesBuilt'
  <1>1. CASE caches' = <<>>
    BY <1>1 DEF CachesBuilt
  <1>2. CASE UNCHANGED <<config, caches>>
    BY <1>2 DEF CachesBuilt
  <1> QED
    BY <1>1, <1>2

\* The constructor.
LEMMA CacheCreateBuilt ==
  ASSUME DeployInv, StoreInv, CachesBuilt, NEW o \in OptionSets, kvcache_create(o)
  PROVE  CachesBuilt'
  <1> DEFINE g == Geometry(config)
  <1>1. UNCHANGED config /\ ssd_handle \in {NullSsd} \cup 1..Len(ssds)
    BY DEF kvcache_create, ssdVars, DeployInv, DeployTypes
  <1>2. CASE UNCHANGED caches
    BY <1>1, <1>2, BuiltFrame
  <1>3. CASE ~UNCHANGED caches
    <2>1. Usable(ssd_handle)
      BY <1>3 DEF kvcache_create
    <2>2. ssds[ssd_handle] = g
      BY <1>1, <2>1 DEF Usable, StoreInv, SsdsAgree
    <2>3. PICK sizes \in ClassTables(g, o) :
             /\ IndexLargeEnough(g, o, sizes)
             /\ \E s \in Setups(g, o, sizes, AllBlocks(g)) :
                   caches' = Append(caches, [ssd |-> ssd_handle, setup |-> s])
      BY <1>3, <2>1, <2>2 DEF kvcache_create
    <2>4. PICK s \in Setups(g, o, sizes, AllBlocks(g)) :
             caches' = Append(caches, [ssd |-> ssd_handle, setup |-> s])
      BY <2>3
    <2>5. s.options = o /\ s.sizes = sizes /\ s.found = AllBlocks(g)
      BY <2>4 DEF Setups
    <2> DEFINE x == [ssd |-> ssd_handle, setup |-> s]
    <2>6. x.setup = s
      OBVIOUS
    <2> HIDE DEF x
    <2>7. /\ Len(caches) \in Nat /\ DOMAIN caches = 1..Len(caches)
          /\ DOMAIN caches' = 1..(Len(caches) + 1) /\ caches'[Len(caches) + 1] = x
          /\ \A k \in DOMAIN caches : caches'[k] = caches[k]
      <3>1. caches \in Seq({caches[i] : i \in DOMAIN caches})
        BY DEF StoreInv, CachesSound
      <3> QED
        BY <2>4, <3>1, AppendCache DEF x
    <2>8. ASSUME NEW i \in DOMAIN caches'
          PROVE  LET t == caches'[i].setup IN
                 /\ t.options \in OptionSets /\ t.sizes \in ClassTables(g, t.options)
                 /\ IndexLargeEnough(g, t.options, t.sizes)
                 /\ t \in Setups(g, t.options, t.sizes, t.found)
      <3>1. i \in DOMAIN caches \/ i = Len(caches) + 1
        BY <2>7
      <3>2. CASE i \in DOMAIN caches
        BY <2>7, <3>2 DEF CachesBuilt
      <3>3. CASE i = Len(caches) + 1
        BY <2>3, <2>4, <2>5, <2>6, <2>7, <3>3
      <3> QED
        BY <3>1, <3>2, <3>3
    <2> QED
      BY <1>1, <2>8 DEF CachesBuilt
  <1> QED
    BY <1>2, <1>3

\* Every call, write, fault and crash keeps the caches as they were built.
LEMMA NextBuilt ==
  DeployInv /\ StoreInv /\ StoreInv' /\ CachesBuilt /\ [DeployNext]_deployVars => CachesBuilt'
  <1> SUFFICES ASSUME DeployInv, StoreInv, StoreInv', CachesBuilt, [DeployNext]_deployVars
               PROVE  CachesBuilt'
    OBVIOUS
  <1>1. ASSUME NEW c \in Configs, SetConfig(c) PROVE CachesBuilt'
    <2>1. ssds' = <<>>
      BY <1>1 DEF SetConfig, ssdVars
    <2>2. DOMAIN caches' = {}
      BY <2>1 DEF StoreInv, CachesSound
    <2> QED
      BY <2>2 DEF CachesBuilt
  <1>2. CASE ssd_create \/ ssd_create_step \/ ssd_open
    BY <1>2, BuiltFrame DEF ssd_create, ssd_create_step, ssd_open, ReturnsHandle, apiVars
  <1>3. CASE ssd_destroy \/ kvcache_destroy
    BY <1>3, BuiltFrame DEF ssd_destroy, kvcache_destroy
  <1>4. ASSUME NEW o \in OptionSets, kvcache_create(o) PROVE CachesBuilt'
    BY <1>4, CacheCreateBuilt
  <1>5. CASE CacheWrites \/ Crash
    BY <1>5, BuiltFrame DEF CacheWrites, Crash, Exit, apiVars
  <1>6. CASE UNCHANGED deployVars
    BY <1>6, BuiltFrame DEF deployVars, apiVars
  <1> QED
    BY <1>1, <1>2, <1>3, <1>4, <1>5, <1>6 DEF DeployNext

\* CachesBuilt holds in every reachable state.
LEMMA BuiltInvariant == DeploySpec => []CachesBuilt
  <1>1. DeployInit => CachesBuilt
    BY DEF DeployInit, CachesBuilt
  <1>2. DeployInv /\ StoreInv /\ StoreInv' /\ CachesBuilt /\ [DeployNext]_deployVars => CachesBuilt'
    BY NextBuilt
  <1> QED
    BY <1>1, <1>2, DeployInvariant, StoreInvariant, PTL DEF DeploySpec

\* For every block size whose largest slot, doubled, is still an int (up to 1 GiB with
\* the int of 32 bits), the default class table is strictly increasing, at most doubles,
\* and ends with the largest slot of a slab, so that an object has a class exactly if it
\* is not larger than MaxKVSize().
THEOREM ClassTableSoundInvariant == DeploySpec => []ClassTableSound
  <1>1. DeployInv /\ CachesBuilt => ClassTableSound
    <2> SUFFICES ASSUME DeployInv, CachesBuilt, NEW i \in DOMAIN caches,
                        caches[i].setup.options.slab_class_size = <<>>,
                        MaxSlotSize(caches[i].setup.geometry.block_size)
                           > MinKVSize + SlotHeaderSize,
                        2 * MaxSlotSize(caches[i].setup.geometry.block_size) < IntLimit
                 PROVE  LET s == caches[i].setup.sizes
                            slab_size == caches[i].setup.geometry.block_size IN
                        /\ \A k \in 2..Len(s) : s[k - 1] < s[k] /\ s[k] <= 2 * s[k - 1]
                        /\ s[1] = MinKVSize + SlotHeaderSize
                        /\ \A n \in 0..slab_size :
                              ClassesFor(s, n + SlotHeaderSize) # {} <=> n <= MaxKVSize(s)
                        /\ MaxKVSize(s) = MaxSlotSize(slab_size) - SlotHeaderSize
      BY DEF ClassTableSound
    <2> DEFINE g == Geometry(config)
               b == Geometry(config).block_size
    <2>1. /\ caches[i].setup.geometry = g
          /\ caches[i].setup.sizes \in ClassTables(g, caches[i].setup.options)
      BY DEF CachesBuilt, Setups
    <2>2. PICK over \in CastOverflows :
             caches[i].setup.sizes = default_slab_class_size(b, over)
      BY <2>1 DEF ClassTables
    <2> DEFINE s == default_slab_class_size(b, over)
               l == Len(s)
               m == MaxSlotSize(b)
    <2>3. caches[i].setup.geometry.block_size = b /\ caches[i].setup.sizes = s
      BY <2>2, <2>1
    <2>4. b \in 1..(IntLimit - 1) /\ IntLimit \in Nat
      BY SsdAssumption DEF Geometry, DeployInv, DeployTypes
    <2>5. m > 40 /\ m = b - 44 /\ m \in Nat /\ 2 * m < IntLimit /\ b < IntLimit
      BY <2>3, <2>4 DEF MaxSlotSize, SlabHeaderSize, MinKVSize, SlotHeaderSize
    <2> HIDE DEF b
    <2>6. CurrSize(b, over)[30] = m
      <3>1. m <= IntMax
        BY <2>4, <2>5, IntAssumption DEF IntMax
      <3>2. /\ CurrSize(b, over)[0] = 40 /\ CurrSize(b, over) \in [0..50 -> Nat \ {0}]
            /\ \A j \in 1..50 : CurrSize(b, over)[j] = MinOf(2 * CurrSize(b, over)[j - 1], m)
        BY <2>4, <2>5, SmallSizes
      <3> HIDE DEF m
      <3> QED
        BY <2>5, <3>1, <3>2, LargestReached
    <2>7. /\ l \in Nat /\ l >= 2 /\ s[1] = 40 /\ s[l] = m
          /\ \A k \in 1..l : s[k] \in Nat /\ s[k] <= m
          /\ \A k \in 2..l : s[k - 1] < s[k] /\ s[k] <= 2 * s[k - 1]
      BY <2>4, <2>5, <2>6, DefaultTable
    <2>8. DOMAIN s = 1..l
      BY <2>4, <2>5, DefaultTableType
    <2> HIDE DEF s, l, m
    <2>9. MaxKVSize(s) = m - 8
      BY <2>7 DEF MaxKVSize, SlotHeaderSize, l
    <2>10. ASSUME NEW n \in 0..b
          PROVE  ClassesFor(s, n + SlotHeaderSize) # {} <=> n <= MaxKVSize(s)
      <3>1. n \in Nat
        BY <2>4
      <3>2. ASSUME n <= m - 8 PROVE l \in ClassesFor(s, n + 8)
        BY <2>5, <2>7, <2>8, <3>1, <3>2 DEF ClassesFor
      <3>3. ASSUME NEW k \in ClassesFor(s, n + 8) PROVE n <= m - 8
        BY <2>5, <2>7, <2>8, <3>1, <3>3 DEF ClassesFor
      <3> QED
        BY <2>9, <3>2, <3>3 DEF SlotHeaderSize
    <2> QED
      BY <2>3, <2>7, <2>9, <2>10 DEF MinKVSize, SlotHeaderSize, l, m
  <1> QED
    BY <1>1, DeployInvariant, BuiltInvariant, PTL

\* For every geometry and all options the constructor establishes what CacheState
\* assumes: ordered water marks, an index entry for every slot of one slab of each
\* class, each block of a channel in one of its two pools, gc_buffer_ not free.
THEOREM ConstructorMeetsModelInvariant == DeploySpec => []ConstructorMeetsModel
  <1>1. DeployInv /\ CachesBuilt => ConstructorMeetsModel
    <2> SUFFICES ASSUME DeployInv, CachesBuilt, NEW i \in DOMAIN caches
                 PROVE  LET s == caches[i].setup  g == s.geometry IN
        /\ 1 <= s.marks.low_min /\ s.marks.low_min <= s.marks.low
        /\ s.marks.high <= s.marks.high_max /\ s.marks.low_min + 10 <= s.marks.high_max
        /\ s.nr_index_entry >= SlotSum(g, s.sizes, DOMAIN s.sizes)
        /\ s.found = OwnBlocks(g) => \A c \in DOMAIN s.pools :
              /\ s.pools[c].ops + s.pools[c].free = g.blocks_per_channel
              /\ s.pools[c].ops = MinOf(s.ops_size, g.blocks_per_channel)
        /\ s.nr_mslab > 0 => s.mslab_free = 0..(s.nr_mslab - 2)
      BY DEF ConstructorMeetsModel, SlotSum, MapThenSumSet, MapThenFoldSet
    <2> DEFINE s == caches[i].setup
               o == s.options
               g == Geometry(config)
               b == g.block_size
    <2>1. /\ config \in Configs /\ o \in OptionSets /\ IndexLargeEnough(g, o, s.sizes)
          /\ s.sizes \in ClassTables(g, o) /\ s \in Setups(g, o, s.sizes, s.found)
      BY DEF DeployInv, DeployTypes, CachesBuilt
    <2>2. PICK m \in Marks(g, o), ops_size \in Truncated(o.ops_rate, g.blocks_per_channel) :
             s = [geometry |-> g, options |-> o, found |-> s.found, marks |-> m,
                  sizes |-> s.sizes, nr_mslab |-> NrMslab(g, o),
                  mslab_free |-> MslabFree(g, o), ops_size |-> ops_size,
                  pools |-> Pools(g, ops_size, s.found), nr_index_entry |-> NrIndexEntries(o)]
      BY <2>1 DEF Setups
    <2>3. /\ s.geometry = g /\ s.marks = m
          /\ s.nr_mslab = NrMslab(g, o) /\ s.mslab_free = MslabFree(g, o)
          /\ s.ops_size = ops_size /\ s.pools = Pools(g, ops_size, s.found)
          /\ s.nr_index_entry = NrIndexEntries(o)
      BY <2>2
    <2>4. /\ g.nr_blocks \in Nat /\ g.blocks_per_channel \in Nat /\ b \in Nat \ {0} /\ b > 44
          /\ g.nr_channels \in Nat /\ b < IntLimit
      BY <2>1, GeometryType, OptionsAssumption, SsdAssumption DEF Geometry, SlabHeaderSize
    <2>5. /\ o.slab_mem_budget \in Nat /\ o.index_mem_budget \in Nat /\ o.ops_rate \in Nat
          /\ o.slab_class_size \in Seq(Nat \ {0})
      BY <2>1, OptionsAssumption
    <2> HIDE DEF s, o, g
    <2>6. /\ 1 <= m.low_min /\ m.low_min <= m.low
          /\ m.high <= m.high_max /\ m.low_min + 10 <= m.high_max
      BY <2>1, <2>2, <2>4, MarksOrder
    <2>7. NrIndexEntries(o) >= SlotSum(g, s.sizes, DOMAIN s.sizes)
      <3>1. \E n \in Nat : s.sizes \in [1..n -> SlotSizes]
        <4>1. CASE o.slab_class_size = <<>>
          <5>1. b \in Int /\ MaxSlotSize(b) > 0
            BY <2>4 DEF MaxSlotSize, SlabHeaderSize
          <5>2. PICK over \in CastOverflows : s.sizes = default_slab_class_size(b, over)
            BY <2>1, <4>1 DEF ClassTables
          <5>3. /\ NrDefaultClasses(b, over) \in Nat
                /\ default_slab_class_size(b, over) \in [1..NrDefaultClasses(b, over) -> SlotSizes]
            BY <2>4, <5>1, DefaultTableType
          <5> QED
            BY <5>2, <5>3
        <4>2. CASE o.slab_class_size # <<>>
          <5>1. s.sizes \in Seq(Nat \ {0})
            BY <2>1, <2>5, <4>2 DEF ClassTables
          <5> QED
            BY <5>1 DEF SlotSizes
        <4> QED
          BY <4>1, <4>2
      <3>2. /\ SlotSum(g, s.sizes, DOMAIN s.sizes) <= PerSlabSum(g, s.sizes, DOMAIN s.sizes)
            /\ SlotSum(g, s.sizes, DOMAIN s.sizes) \in Int
            /\ PerSlabSum(g, s.sizes, DOMAIN s.sizes) \in Int
        BY <2>4, <3>1, SumOfSlots
      <3>3. NrIndexEntries(o) >= PerSlabSum(g, s.sizes, DOMAIN s.sizes)
        BY <2>1 DEF IndexLargeEnough, MinIndexEntries, PerSlabSum, MapThenSumSet, MapThenFoldSet
      <3>4. NrIndexEntries(o) \in Int
        BY <2>5 DEF NrIndexEntries, IndexEntrySize
      <3> QED
        BY <3>2, <3>3, <3>4
    <2>8. ASSUME s.found = OwnBlocks(g), NEW c \in DOMAIN s.pools
          PROVE  /\ s.pools[c].ops + s.pools[c].free = g.blocks_per_channel
                 /\ s.pools[c].ops = MinOf(s.ops_size, g.blocks_per_channel)
      <3>1. c \in 0..(g.nr_channels - 1)
        BY <2>3 DEF Pools
      <3>2. Cardinality(BlocksOfChannel(g, s.found, c)) = g.blocks_per_channel
        BY <2>1, <2>8, <3>1, ChannelBlocks DEF g
      <3>3. /\ s.pools[c].ops = MinOf(ops_size, g.blocks_per_channel)
            /\ s.pools[c].free = g.blocks_per_channel - MinOf(ops_size, g.blocks_per_channel)
        BY <2>3, <3>1, <3>2 DEF Pools
      <3>4. ops_size \in Int
        BY <2>2, <2>4, <2>5, TruncatedType
      <3> QED
        BY <2>3, <2>4, <3>3, <3>4 DEF MinOf
    <2>9. ASSUME s.nr_mslab > 0 PROVE s.mslab_free = 0..(s.nr_mslab - 2)
      <3>1. NrMslab(g, o) \in Int
        BY <2>4, <2>5 DEF NrMslab
      <3>2. MslabFree(g, o) = {k \in 0..(NrMslab(g, o) + g.nr_blocks - 1) : k < NrMslab(g, o) - 1}
        BY <2>3, <2>9, <3>1 DEF MslabFree
      <3> QED
        BY <2>3, <2>4, <2>9, <3>1, <3>2
    <2> QED
      BY <2>3, <2>6, <2>7, <2>8, <2>9 DEF s
  <1> QED
    BY <1>1, DeployInvariant, BuiltInvariant, PTL

=============================================================================
