--------------------------- MODULE MCHistoryCache ----------------------------
(* Instances of HistoryCache for TLC. *)
EXTENDS HistoryCache, TLC

CONSTANTS i1, i2, i3, ta, tb

(* The trigger ta depends on i1 and i2, tb on i2 and i3. *)
MCTriggersOf == [i \in Items |-> {t \in Triggers : <<i, t>> \in
                    {<<i1, ta>>, <<i2, ta>>, <<i2, tb>>, <<i3, tb>>}}]

Symmetry == Permutations(Syncers \ {Main}) \cup Permutations(Producers)
==============================================================================
