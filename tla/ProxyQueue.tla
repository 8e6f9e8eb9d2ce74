----------------------------- MODULE ProxyQueue ------------------------------
(***************************************************************************)
(* How a server throttles its proxies (zbx_hc_check_proxy of               *)
(* libs/zbxdbcache/dbcache.c).  When the history cache is nearly full,     *)
(* proxies that come with data are put into a queue and refused; once      *)
(* there is room again they are let in one by one, in the order of the     *)
(* queue.  An active proxy that was refused stops sending history and asks *)
(* with empty requests whether it may go on (datasender.c); a passive one  *)
(* is asked by the server when its turn comes (proxypoller.c).             *)
(***************************************************************************)
EXTENDS Integers, Sequences, FiniteSets, Functions

CONSTANTS
    Proxies,
    Passive,        \* those the server connects to
    MaxGone         \* bound: proxies that disappear

ASSUME ProxyQueueAssumption == Passive \subseteq Proxies /\ MaxGone \in Nat

VARIABLES
    pused,          \* how full the history cache is: a percentage
    state,          \* cache->proxyqueue.state: "NORMAL" or "WAIT"
    queue,          \* cache->proxyqueue.list
    upload_state,   \* upload_state[p]: the last request of p succeeded
    hist_upload,    \* hist_upload[p]: the server lets p upload
    gone,           \* proxies that no longer connect
    served          \* served[p] changes whenever data of p are taken
vars == <<pused, state, queue, upload_state, hist_upload, gone, served>>

(* One value on each side of the limits 20, 60 and 80. *)
Levels == {20, 21, 60, 61, 79, 80}

TypeOK ==
    /\ pused \in Levels /\ state \in {"NORMAL", "WAIT"}
    /\ queue \in Seq(Proxies) /\ IsInjective(queue)
    /\ upload_state \in [Proxies -> BOOLEAN] /\ hist_upload \in [Proxies -> BOOLEAN]
    /\ gone \subseteq Proxies /\ served \in [Proxies -> BOOLEAN]

Init ==
    /\ pused = 20 /\ state = "NORMAL" /\ queue = <<>>
    /\ upload_state = [p \in Proxies |-> TRUE] /\ hist_upload = [p \in Proxies |-> TRUE]
    /\ gone = {} /\ served = [p \in Proxies |-> FALSE]

------------------------------------------------------------------------------
Enqueued(p) == IF p \in Range(queue) THEN queue ELSE Append(queue, p)

(* Mutant: uploads stay refused until the cache is nearly empty. *)
RefusedUntilLow == IF state = "WAIT" THEN 20 < pused ELSE 80 <= pused

(* The limits between which uploads are refused once the cache was nearly  *)
(* full.                                                                   *)
Refused == IF state = "WAIT" THEN 60 < pused ELSE 80 <= pused

(* Mutant: whoever asks is let in. *)
Anyone(q, p) == TRUE

(* Once there is room, the first proxy of queue q may pass, or any if the  *)
(* queue is empty.                                                         *)
MayPass(q, p) == q = <<>> \/ Head(q) = p

(* zbx_hc_check_proxy(p): SUCCEED if ret. *)
CheckProxy(p, ret) ==
    \/ /\ 20 >= pused
       /\ state' = "NORMAL" /\ queue' = <<>> /\ ret
    \/ /\ 20 < pused /\ Refused
       /\ state' = "WAIT" /\ queue' = Enqueued(p) /\ ~ret
    \/ /\ 20 < pused /\ ~Refused
       /\ state' = "NORMAL"
       /\ LET q == IF state = "WAIT" THEN Enqueued(p) ELSE queue
          IN /\ ret = MayPass(q, p)
             /\ queue' = IF ret /\ q # <<>> THEN Tail(q) ELSE q

(* An active proxy sends history.  If it is refused, the request has       *)
(* failed and uploads are disabled.                                        *)
Upload(p, ret) ==
    /\ p \notin Passive \cup gone /\ upload_state[p] /\ hist_upload[p]
    /\ CheckProxy(p, ret)
    /\ upload_state' = [upload_state EXCEPT ![p] = ret]
    /\ hist_upload' = [hist_upload EXCEPT ![p] = ret]
    /\ served' = IF ret THEN [served EXCEPT ![p] = ~@] ELSE served
    /\ UNCHANGED <<pused, gone>>

(* An active proxy sends a request without history, because it may not     *)
(* send any or just to ask for tasks; it is always processed, and the      *)
(* answer says whether uploads are enabled.                                *)
Ask(p, ret) ==
    /\ p \notin Passive \cup gone
    /\ CheckProxy(p, ret)
    /\ upload_state' = [upload_state EXCEPT ![p] = TRUE]
    /\ hist_upload' = [hist_upload EXCEPT ![p] = ret]
    /\ UNCHANGED <<pused, gone, served>>

(* A proxy poller fetches the data of a passive proxy if it may. *)
Poll(p, ret) ==
    /\ p \in Passive \ gone
    /\ CheckProxy(p, ret)
    /\ served' = IF ret THEN [served EXCEPT ![p] = ~@] ELSE served
    /\ UNCHANGED <<pused, upload_state, hist_upload, gone>>

(* Values come into the cache and are written to the database. *)
ChangeUsage ==
    /\ pused' \in Levels \ {pused}
    /\ UNCHANGED <<state, queue, upload_state, hist_upload, gone, served>>

(* A proxy is stopped for good or removed from the configuration; it stays *)
(* in the queue.                                                           *)
Disappear(p) ==
    /\ p \notin gone /\ Cardinality(gone) < MaxGone
    /\ gone' = gone \cup {p}
    /\ UNCHANGED <<pused, state, queue, upload_state, hist_upload, served>>

Request(p) == \E ret \in BOOLEAN : Upload(p, ret) \/ Ask(p, ret) \/ Poll(p, ret)

Next ==
    \/ \E p \in Proxies : Request(p) \/ Disappear(p)
    \/ ChangeUsage

Spec == Init /\ [][Next]_vars

(* Data senders and proxy pollers run periodically.  The time to send      *)
(* history, once come, stays until history is sent (data_timestamp), so an *)
(* active proxy that is enabled again and again sends it.                  *)
FairSpec ==
    /\ Spec
    /\ \A p \in Proxies : WF_vars(Request(p)) /\ SF_vars(\E ret \in BOOLEAN : Upload(p, ret))

------------------------------------------------------------------------------
(* Properties *)

(* Proxies are let in in the order of the queue: while p waits and is not  *)
(* released, data are taken from another proxy only if it was the first in *)
(* the queue.  A proxy that never was refused does not overtake either.    *)
NoOvertaking ==
    [][\A p, q \in Proxies :
          p # q /\ p \in Range(queue) \cap Range(queue') /\ served'[q] # served[q]
             => Head(queue) = q]_vars

(* Once the cache stays at or below 60 per cent and no proxy in the queue  *)
(* has disappeared, the data of every proxy that still connects are taken  *)
(* again and again, even if the cache never empties.                       *)
UploadsResume ==
    \A p \in Proxies :
       <>[](pused <= 60 /\ p \notin gone /\ Range(queue) \cap gone = {})
          => []<>served[p] /\ []<>~served[p]
==============================================================================
