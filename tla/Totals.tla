------------------------------- MODULE Totals -------------------------------
(***************************************************************************)
(* The sum of natural weights over a finite set.  It is written as the     *)
(* size of a set, one element per unit of weight, rather than as a fold:   *)
(* what a fold computes can only be proved by induction, while the size of *)
(* a union follows from the cardinality theorems of the library.           *)
(***************************************************************************)
EXTENDS Integers, FiniteSets

\* One pair per unit of weight: f[x] of them for every x in S.
Units(S, f) == UNION {{x} \X (1..f[x]) : x \in S}

\* The sum of f[x] over x in S, for finite S and f \in [S -> Nat].
Total(S, f) == Cardinality(Units(S, f))

\* The larger of two integers.
MaxOf(a, b) == IF a >= b THEN a ELSE b
=============================================================================
