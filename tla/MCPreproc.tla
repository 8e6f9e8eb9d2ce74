------------------------------ MODULE MCPreproc ------------------------------
(* Instances of PreprocManager for TLC. *)
EXTENDS PreprocManager

CONSTANTS m, d, e, l

(* m is a master item with the dependents d and, where it exists, e; l is  *)
(* another item with collected values.                                     *)
DepsOfM == [i \in Items |-> IF i = m THEN SelectSeq(<<d, e>>, LAMBDA x : x \in Items) ELSE <<>>]

(* m is preprocessed in parallel, its dependents and l one by one. *)
StepsLinked == [i \in Items |-> IF i = m THEN "plain" ELSE "linked"]

(* d hands the value of m, which has no steps, on to e. *)
DepsChain == [i \in Items |-> IF i = m THEN <<d>> ELSE IF i = d THEN <<e>> ELSE <<>>]
StepsChain == [i \in Items |-> IF i = d THEN "plain" ELSE IF i = l THEN "linked" ELSE "none"]

Symmetry == Permutations(Workers)
==============================================================================
