-------------------------------- MODULE Totals --------------------------------
(***************************************************************************)
(* Sums of natural numbers, as what one counts when every member of a set   *)
(* is there as many times as its number says.  Counting has theorems about  *)
(* all finite sets, which a sum that is defined by recursion has not.       *)
(***************************************************************************)
EXTENDS Naturals, FiniteSets

\* The members of S, each as often as the function f says.
Copies(f, S) == UNION {{x} \X (1..f[x]) : x \in S}

\* The sum of f over S.
Total(f, S) == Cardinality(Copies(f, S))
===============================================================================
