---------------------------- MODULE MCThreadSync ----------------------------
(***************************************************************************)
(* Small instances of ThreadSync for TLC.                                  *)
(***************************************************************************)
EXTENDS MCKVCache, ThreadSync

CONSTANT d1

Background == [flush |-> TRUE, gc |-> TRUE]
ForegroundFlush == [flush |-> FALSE, gc |-> TRUE]
Foreground == [flush |-> FALSE, gc |-> FALSE]

\* The modes OptionsAssumption admits.
ThreeModes == {Background, ForegroundFlush, Foreground}

\* Liveness forbids symmetry; which dslab is the one of the ops pool is all the
\* same, so let it be d1.
FixedInit == ops_pool = {d1} /\ SyncInit
FixedFair == FixedInit /\ [][SyncNext]_allVars /\ SyncFairness
=============================================================================
