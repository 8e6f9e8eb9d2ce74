---------------------------- MODULE MCLldManager -----------------------------
(* Instances of LldManager for TLC. *)
EXTENDS LldManager

CONSTANTS h1, h2, i1, i2

(* Two rules of different hosts. *)
MCHostOf == [i \in Items |-> IF i = i1 THEN h1 ELSE h2]
==============================================================================
