------------------------------ MODULE LossyMap ------------------------------
(***************************************************************************)
(* What a KVCache promises its clients: a map from keys to values that may *)
(* forget but never lies.  A Put that has been called takes effect at one  *)
(* moment before it returns; apart from that moment a key keeps its value  *)
(* or loses it (Delete, eviction), and never gets another one.  No key has *)
(* an older value come back.                                               *)
(***************************************************************************)
CONSTANTS Keys, Values, NoValue

VARIABLES
    map,        \* [Keys -> Values \cup {NoValue}]
    pending,    \* the arguments of the Put that has not taken effect, or NoValue
    closing     \* whether the cache is being destroyed

vars == <<map, pending, closing>>

Init == map = [k \in Keys |-> NoValue] /\ pending = NoValue /\ closing = FALSE

\* m with the keys of K forgotten.
Forget(m, K) == [k \in Keys |-> IF k \in K THEN NoValue ELSE m[k]]

Call(kv) == /\ pending = NoValue
            /\ pending' = kv
            /\ UNCHANGED <<map, closing>>

\* The Put takes effect.  It may push other keys out.
Commit == /\ pending # NoValue
          /\ \E K \in SUBSET (Keys \ {pending.key}) :
                map' = [Forget(map, K) EXCEPT ![pending.key] = pending.value]
          /\ pending' = NoValue
          /\ UNCHANGED closing

\* A Put fails only because the cache is being destroyed.
Fail == /\ pending # NoValue /\ closing
        /\ pending' = NoValue
        /\ UNCHANGED <<map, closing>>

\* Delete, and eviction.
Lose == /\ \E K \in SUBSET Keys : map' = Forget(map, K)
        /\ UNCHANGED <<pending, closing>>

Close == /\ closing' = TRUE
         /\ UNCHANGED <<map, pending>>

Next == \/ \E kv \in [key : Keys, value : Values] : Call(kv)
        \/ Commit \/ Fail \/ Lose \/ Close

Spec == Init /\ [][Next]_vars
=============================================================================
