------------------------------ MODULE Weights ------------------------------
(***************************************************************************)
(* Sums of sizes.  The byte counters of the program are sums of the sizes  *)
(* of the entries they count.  Here such a sum is the number of units (of  *)
(* bytes) the entries are made of, which needs no recursion.               *)
(***************************************************************************)
EXTENDS Integers, FiniteSets

(* The units of the elements of S, element x being made of w[x] of them. *)
Units(S, w) == UNION {{x} \X (1 .. w[x]) : x \in S}

Weigh(S, w) == Cardinality(Units(S, w))
=============================================================================
