--------------------------- MODULE MCAlertManager ----------------------------
(* Instances of AlertManager for TLC. *)
EXTENDS AlertManager, TLC

CONSTANTS m1, p1, p2, px, pw

(* Alerts 1 and 2 share a pool, 3 has one of its own; 4 is an external    *)
(* request, 5 a watchdog alert.                                            *)
MCMediaType == [a \in 1..5 |-> m1]
MCPool == <<p1, p1, p2, px, pw>>

(* One session and two attempts, or any number of sessions and one attempt. *)
MCSettings ==
    {[maxsessions |-> 1, maxattempts |-> 2, error |-> FALSE],
     [maxsessions |-> 0, maxattempts |-> 1, error |-> FALSE]}
==============================================================================
