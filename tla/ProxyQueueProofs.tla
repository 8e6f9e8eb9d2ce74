-------------------------- MODULE ProxyQueueProofs ---------------------------
(* Proofs about the throttling queue, for any number of proxies: each is in *)
(* the queue at most once, and none overtakes another.                     *)
EXTENDS ProxyQueue, SequenceTheorems, TLAPS

(* zbx_hc_proxyqueue_enqueue keeps the list free of duplicates and does not *)
(* change who is first.                                                    *)
LEMMA EnqueuedQueue ==
    ASSUME NEW p \in Proxies, queue \in Seq(Proxies), IsInjective(queue)
    PROVE  /\ Enqueued(p) \in Seq(Proxies) /\ IsInjective(Enqueued(p))
           /\ queue # <<>> => Head(Enqueued(p)) = Head(queue)
<1>1. CASE p \in Range(queue)
      BY <1>1 DEF Enqueued
<1>2. CASE p \notin Range(queue)
  <2>. DEFINE s == Append(queue, p)
  <2>1. Enqueued(p) = s
        BY <1>2 DEF Enqueued
  <2>2. /\ s \in Seq(Proxies) /\ DOMAIN s = 1..Len(queue) + 1
        /\ \A k \in 1..Len(queue) : s[k] = queue[k]
        /\ s[Len(queue) + 1] = p /\ Len(queue) \in Nat /\ DOMAIN queue = 1..Len(queue)
        OBVIOUS
  <2>3. \A k \in 1..Len(queue) : s[k] # p
        BY <1>2, <2>2 DEF Range
  <2>. HIDE DEF s
  <2>4. IsInjective(s)
        BY <2>2, <2>3 DEF IsInjective
  <2>5. queue # <<>> => Head(s) = Head(queue)
        BY DEF s
  <2>. QED BY <2>1, <2>2, <2>4, <2>5
<1>. QED BY <1>1, <1>2

(* zbx_list_pop. *)
LEMMA TailQueue ==
    ASSUME NEW s \in Seq(Proxies), IsInjective(s), s # <<>>
    PROVE  Tail(s) \in Seq(Proxies) /\ IsInjective(Tail(s))
<1>1. /\ Tail(s) \in Seq(Proxies) /\ Len(s) \in Nat /\ Len(s) > 0
      /\ DOMAIN Tail(s) = 1..(Len(s) - 1) /\ DOMAIN s = 1..Len(s)
      /\ \A k \in 1..(Len(s) - 1) : Tail(s)[k] = s[k + 1]
      OBVIOUS
<1>. QED BY <1>1 DEF IsInjective

(* zbx_hc_check_proxy keeps the queue well formed. *)
LEMMA CheckProxyTypeOK ==
    ASSUME TypeOK, NEW p \in Proxies, NEW ret \in BOOLEAN, CheckProxy(p, ret)
    PROVE  state' \in {"NORMAL", "WAIT"} /\ queue' \in Seq(Proxies) /\ IsInjective(queue')
<1>1. CASE 20 >= pused
  <2>1. state' = "NORMAL" /\ queue' = <<>>
        BY <1>1 DEF CheckProxy, TypeOK, Levels
  <2>. QED BY <2>1 DEF IsInjective
<1>2. CASE 20 < pused /\ Refused
  <2>1. state' = "WAIT" /\ queue' = Enqueued(p)
        BY <1>2 DEF CheckProxy, TypeOK, Levels
  <2>. QED BY <2>1, EnqueuedQueue DEF TypeOK
<1>3. CASE 20 < pused /\ ~Refused
  <2>. DEFINE q == IF state = "WAIT" THEN Enqueued(p) ELSE queue
  <2>1. state' = "NORMAL" /\ queue' = IF ret /\ q # <<>> THEN Tail(q) ELSE q
        BY <1>3 DEF CheckProxy, TypeOK, Levels
  <2>2. q \in Seq(Proxies) /\ IsInjective(q)
        BY EnqueuedQueue DEF TypeOK
  <2>. HIDE DEF q
  <2>. QED BY <2>1, <2>2, TailQueue
<1>. QED BY <1>1, <1>2, <1>3 DEF TypeOK, Levels

LEMMA TypeOKStep == TypeOK /\ [Next]_vars => TypeOK'
<1>. SUFFICES ASSUME TypeOK, [Next]_vars PROVE TypeOK'
     OBVIOUS
<1>1. ASSUME NEW p \in Proxies, NEW ret \in BOOLEAN, Upload(p, ret) PROVE TypeOK'
  <2>1. state' \in {"NORMAL", "WAIT"} /\ queue' \in Seq(Proxies) /\ IsInjective(queue')
        BY <1>1, CheckProxyTypeOK DEF Upload
  <2>2. pused' = pused /\ gone' = gone
        BY <1>1 DEF Upload
  <2>3. upload_state' \in [Proxies -> BOOLEAN] /\ hist_upload' \in [Proxies -> BOOLEAN]
        BY <1>1, Zenon DEF Upload, TypeOK
  <2>4. served' \in [Proxies -> BOOLEAN]
        BY <1>1, Zenon DEF Upload, TypeOK
  <2>. QED BY <2>1, <2>2, <2>3, <2>4 DEF TypeOK
<1>2. ASSUME NEW p \in Proxies, NEW ret \in BOOLEAN, Ask(p, ret) PROVE TypeOK'
  <2>1. state' \in {"NORMAL", "WAIT"} /\ queue' \in Seq(Proxies) /\ IsInjective(queue')
        BY <1>2, CheckProxyTypeOK DEF Ask
  <2>2. upload_state' \in [Proxies -> BOOLEAN] /\ hist_upload' \in [Proxies -> BOOLEAN]
        BY <1>2, Zenon DEF Ask, TypeOK
  <2>. QED BY <1>2, <2>1, <2>2 DEF Ask, TypeOK
<1>3. ASSUME NEW p \in Proxies, NEW ret \in BOOLEAN, Poll(p, ret) PROVE TypeOK'
  <2>1. state' \in {"NORMAL", "WAIT"} /\ queue' \in Seq(Proxies) /\ IsInjective(queue')
        BY <1>3, CheckProxyTypeOK DEF Poll
  <2>2. served' \in [Proxies -> BOOLEAN]
        BY <1>3, Zenon DEF Poll, TypeOK
  <2>. QED BY <1>3, <2>1, <2>2 DEF Poll, TypeOK
<1>4. ASSUME NEW p \in Proxies, Disappear(p) PROVE TypeOK'
      BY <1>4 DEF Disappear, TypeOK
<1>5. CASE ChangeUsage
      BY <1>5 DEF ChangeUsage, TypeOK
<1>6. CASE UNCHANGED vars
      BY <1>6 DEF vars, TypeOK
<1>. QED BY <1>1, <1>2, <1>3, <1>4, <1>5, <1>6 DEF Next, Request

(* Type correctness; in particular a proxy is in the queue at most once,   *)
(* whatever it is refused, so that it passes once per refusal.             *)
THEOREM ProxyQueueTypeOK == Spec => []TypeOK
<1>1. Init => TypeOK
      BY DEF Init, TypeOK, Levels, IsInjective
<1>. QED BY <1>1, TypeOKStep, PTL DEF Spec

(* Whoever passes while another one waits was the first in the queue.      *)
LEMMA PassedFirst ==
    ASSUME TypeOK, NEW p \in Proxies, NEW q \in Proxies, CheckProxy(q, TRUE),
           p \in Range(queue), p \in Range(queue')
    PROVE  Head(queue) = q
<1>1. queue # <<>> /\ queue' # <<>>
      BY DEF Range
<1>2. 20 < pused /\ ~Refused
      BY <1>1 DEF CheckProxy, TypeOK, Levels
<1>. DEFINE s == IF state = "WAIT" THEN Enqueued(q) ELSE queue
<1>3. MayPass(s, q) /\ queue' = IF s # <<>> THEN Tail(s) ELSE s
      BY <1>2 DEF CheckProxy, TypeOK, Levels
<1>4. Head(s) = Head(queue)
      BY <1>1, EnqueuedQueue DEF TypeOK
<1>. HIDE DEF s
<1>. QED BY <1>1, <1>3, <1>4 DEF MayPass

(* Data of a proxy are taken in a step that lets this proxy pass.          *)
LEMMA ServedPassed ==
    ASSUME TypeOK, [Next]_vars, NEW q \in Proxies, served'[q] # served[q]
    PROVE  CheckProxy(q, TRUE)
<1>1. ASSUME NEW p \in Proxies, NEW ret \in BOOLEAN, CheckProxy(p, ret),
             served' = IF ret THEN [served EXCEPT ![p] = ~@] ELSE served
      PROVE  CheckProxy(q, TRUE)
  <2>1. ret = TRUE
        BY <1>1
  <2>2. p = q
        BY <1>1, <2>1 DEF TypeOK
  <2>. QED BY <1>1, <2>1, <2>2
<1>2. ASSUME NEW p \in Proxies, NEW ret \in BOOLEAN, Upload(p, ret) PROVE CheckProxy(q, TRUE)
      BY <1>1, <1>2 DEF Upload
<1>3. ASSUME NEW p \in Proxies, NEW ret \in BOOLEAN, Poll(p, ret) PROVE CheckProxy(q, TRUE)
      BY <1>1, <1>3 DEF Poll
<1>. QED BY <1>2, <1>3 DEF Next, Request, Ask, Disappear, ChangeUsage, vars

(* No proxy overtakes one that waits in the queue (zbx_hc_check_proxy).     *)
THEOREM ProxyQueueNoOvertaking == Spec => NoOvertaking
<1>. DEFINE Step == \A p, q \in Proxies :
               p # q /\ p \in Range(queue) \cap Range(queue') /\ served'[q] # served[q]
                  => Head(queue) = q
<1>1. TypeOK /\ [Next]_vars => Step
  <2>. SUFFICES ASSUME TypeOK, [Next]_vars, NEW p \in Proxies, NEW q \in Proxies,
                       p \in Range(queue), p \in Range(queue'), served'[q] # served[q]
                PROVE  Head(queue) = q
       OBVIOUS
  <2>1. CheckProxy(q, TRUE)
        BY ServedPassed
  <2>. QED BY <2>1, PassedFirst
<1>2. Spec => []TypeOK
      BY ProxyQueueTypeOK
<1>3. TypeOK /\ [Next]_vars => [Step]_vars
      BY <1>1
<1>. QED BY <1>2, <1>3, PTL DEF Spec, NoOvertaking
==============================================================================
