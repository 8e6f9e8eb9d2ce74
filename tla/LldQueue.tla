------------------------------- MODULE LldQueue -------------------------------
(***************************************************************************)
(* What the LLD manager promises the rest of the server, without workers,  *)
(* heaps, counters or messages.  The discovery values of a host form one   *)
(* FIFO queue; the value at its head may be taken for processing, at most  *)
(* one value of a host is being processed at any time, and a value leaves  *)
(* the queue only when its processing has finished.  LldManager implements *)
(* this module (theorem LldManagerRefinesQueue of LldManagerProofs).       *)
(***************************************************************************)
EXTENDS Integers, Sequences

CONSTANTS Hosts,    \* the hosts whose discovery rules report values
          Data      \* the discovery values

VARIABLES pending,  \* pending[h]: the values of host h not yet processed
          active    \* the hosts whose oldest value is being processed

vars == <<pending, active>>

Init ==
    /\ pending = [h \in Hosts |-> <<>>]
    /\ active = {}

(* A new value joins the end of its host's queue. *)
Submit(h, d) ==
    /\ pending' = [pending EXCEPT ![h] = Append(@, d)]
    /\ UNCHANGED active

(* The oldest value of an inactive host is taken. *)
Start(h) ==
    /\ h \notin active
    /\ pending[h] # <<>>
    /\ active' = active \cup {h}
    /\ UNCHANGED pending

(* The value being processed is done; the processor that is set free may   *)
(* take the oldest value of a host (possibly the same one) in this step.   *)
Finish(h) ==
    /\ h \in active
    /\ pending' = [pending EXCEPT ![h] = Tail(@)]
    /\ \/ active' = active \ {h}
       \/ \E g \in Hosts : /\ g \notin active \ {h}
                           /\ pending'[g] # <<>>
                           /\ active' = (active \ {h}) \cup {g}

Next ==
    \E h \in Hosts : (\E d \in Data : Submit(h, d)) \/ Start(h) \/ Finish(h)

Spec == Init /\ [][Next]_vars
===============================================================================
