----------------------------- MODULE MCKVCache ------------------------------
(***************************************************************************)
(* Small instances of KVCache for TLC.  Keys, values and slabs are model   *)
(* values; the constants that are functions are defined here.              *)
(***************************************************************************)
EXTENDS KVCache, TLC

CONSTANTS k1, k2, v1, v2

\* Every key has its own digest; or the two keys collide.
OwnDigest == [k \in Keys |-> k]
SameDigest == [k \in Keys |-> CHOOSE g \in Digests : TRUE]

\* Every object fits the smallest class, except (k2, v2), which fits none.
OneTooLarge == [k \in Keys |-> [v \in Values |->
                    IF <<k, v>> = <<k2, v2>> THEN SlabBytes + 1 ELSE 1]]
\* Every object fits the smallest class.
AllSmall == [k \in Keys |-> [v \in Values |-> 1]]
\* The objects of k1 need slots of size 2, those of k2 slots of size 3.
SizeByKey == [k \in Keys |-> [v \in Values |-> IF k = k1 THEN 2 ELSE 3]]

OneClass == [c \in {0} |-> 1]
TwoClasses == [c \in {0, 1} |-> c + 2]

OneChannel == [d \in DSlabs |-> 0]
\* Half of the dslabs on each of two channels, an odd one on the second.
LeftDslabs == CHOOSE D \in SUBSET DSlabs : Cardinality(D) = Cardinality(DSlabs) \div 2
TwoChannels == [d \in DSlabs |-> IF d \in LeftDslabs THEN 0 ELSE 1]

SlabSymmetry == Permutations(DSlabs) \cup Permutations(MSlabs)
KeySymmetry == SlabSymmetry \cup Permutations(Keys)

\* Liveness forbids symmetry; the dslabs of a channel are alike, so let the ones
\* that begin in the ops pools be fixed.
FirstOps == CHOOSE P \in SUBSET DSlabs :
                \A c \in Channels : Cardinality(InChannel(P, c)) = OpsPerChannel
FixedOpsInit == Init /\ ops_pool = FirstOps
FixedFairSpec == FixedOpsInit /\ FairSpec
=============================================================================
