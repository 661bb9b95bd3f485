----------------------------- MODULE WaterMarks -----------------------------
(***************************************************************************)
(* The integer arithmetic with which the garbage collector tunes the free- *)
(* block water marks and sizes a round (quick_gc and the tuning half of    *)
(* normal_gc).  The code multiplies by 1.5, 0.9, 1.1 and 0.3 in double     *)
(* precision and truncates; on non-negative operands the truncated product *)
(* is the integer quotient written here.                                   *)
(***************************************************************************)
EXTENDS Integers

MinOf(a, b) == IF a <= b THEN a ELSE b
MaxOf(a, b) == IF a >= b THEN a ELSE b

\* Conversion of a tenth of x to int: truncation towards zero.
TruncTenth(x) == IF x >= 0 THEN x \div 10 ELSE -((-x) \div 10)

(***************************************************************************)
(* quick_gc: both marks grow by half, the high one up to its maximum, the  *)
(* low one up to 0.9 of the new high mark and up to the largest ops pool.  *)
(***************************************************************************)
QuickHigh(high, highMax) == MinOf((3 * high) \div 2, highMax)

QuickLow(low, newHigh, maxOps) ==
    MinOf(MinOf((3 * low) \div 2, (9 * newHigh) \div 10), maxOps)

\* quick_gc: how many dropped dslabs go to the ops pool (it doubles at most)
\* and how many to dslab_free_ (up to the new low mark plus 0.3 of it).
\* Mutant: doubling the pool without regard to its maximum.
BackToOpsUnbounded(ops, maxOps) == ops

BackToOps(ops, maxOps) == MinOf(ops, maxOps - ops)

BackToFree(newLow, nrFree) == TruncTenth(10 * (newLow - nrFree) + 3 * newLow)

(***************************************************************************)
(* normal_gc above the high mark: both marks fall by a fixed step, the low *)
(* one to its minimum, the high one to 1.1 of the new low mark.  Mutant:   *)
(* the low mark falls to zero.                                             *)
(***************************************************************************)
NormalLowToZero(low, lowMin, step) == MaxOf(low - step, 0)

NormalLow(low, lowMin, step) == MaxOf(low - step, lowMin)

NormalHigh(high, newLow, step) == MaxOf(high - step, (11 * newLow) \div 10)
=============================================================================
