----------------------------- MODULE UnitSums -----------------------------
(***************************************************************************)
(* Sums of natural numbers over finite sets, written as the cardinality of *)
(* a disjoint union: the sum of f over S is the number of pairs <<x, n>>   *)
(* with x in S and n in 1 .. f[x].  A negative f[x] contributes nothing,   *)
(* so a signed sum is a difference of two totals.  Stated this way a sum   *)
(* changes by what FiniteSetTheorems says of cardinalities, without any    *)
(* recursion.                                                              *)
(***************************************************************************)
EXTENDS Integers, FiniteSets

Units(S, f) == UNION {{x} \X (1 .. f[x]) : x \in S}

Total(S, f) == Cardinality(Units(S, f))

AtMost(a, b) == IF a <= b THEN a ELSE b
AtLeast(a, b) == IF a >= b THEN a ELSE b

=============================================================================
