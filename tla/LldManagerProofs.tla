--------------------------- MODULE LldManagerProofs ---------------------------
(***************************************************************************)
(* Proofs about the LLD manager: the inductive invariant IInv, that the    *)
(* manager implements the abstract queue LldQueue, and what its workers do *)
(* with the values.                                                        *)
(***************************************************************************)
EXTENDS LldManager, TLAPS, SequenceTheorems, FiniteSetTheorems

(* Initially nothing is queued and nobody has registered. *)
LEMMA InitIInv == Init => IInv
<1> SUFFICES ASSUME Init PROVE IInv
  OBVIOUS
<1> USE DEF Init
<1>1. TypeOK
  <2>1. Cardinality(Workers) \in Nat
    BY LldAssumption, FS_CardinalityType
  <2> QED
    BY <2>1, LldAssumption DEF TypeOK, Clients, States
<1>2. RuleOwnedOnce
  BY LldAssumption DEF RuleOwnedOnce, Held
<1>3. WorkersInStep
  BY DEF WorkersInStep, InFlight, Clients
<1>4. FreeWorkersExact
  BY DEF FreeWorkersExact
<1>5. NeverExits
  BY DEF NeverExits
<1>6. CountersExact
  BY FS_EmptySet DEF CountersExact
<1> QED
  BY <1>1, <1>2, <1>3, <1>4, <1>5, <1>6 DEF IInv

(* A registration: only a worker that is not registered yet has a REGISTER *)
(* message under way, so there is a slot for it and it becomes free.       *)
LEMMA RegisterIInv ==
    ASSUME IInv, NEW c \in Clients, lld_register_worker(c) PROVE IInv'
<1> USE DEF IInv
<1>0. outbox[c] \in Seq({"REGISTER", "DONE"}) /\ outbox[c] # <<>>
  BY DEF TypeOK, lld_register_worker
<1>1. CASE c \in Foreign
  <2>1. UNCHANGED <<mvars, inbox, wvars, hvars>> /\ outbox' = [outbox EXCEPT ![c] = Tail(@)]
    BY <1>1 DEF lld_register_worker
  <2>2. Tail(outbox[c]) \in Seq({"REGISTER", "DONE"})
    BY <1>0
  <2>3. \A w \in Workers : outbox'[w] = outbox[w]
    BY <2>1, <1>1, LldAssumption DEF TypeOK, Clients
  <2>4. TypeOK'
    BY <2>1, <2>2 DEF TypeOK, mvars, wvars, hvars
  <2>5. WorkersInStep'
    BY <2>1, <2>3 DEF WorkersInStep, InFlight, mvars, wvars, hvars
  <2> QED
    BY <2>1, <2>4, <2>5 DEF RuleOwnedOnce, Held, FreeWorkersExact, NeverExits, CountersExact, mvars
<1>2. CASE c \notin Foreign
  <2>1. c \in Workers
    BY <1>2 DEF Clients
  <2>2. /\ outbox[c] = <<"REGISTER">> /\ worker_rule[c] = None /\ inbox[c] = <<>>
        /\ wpc[c] = "idle" /\ c \notin workers_client
    <3>1. Head(outbox[c]) = "REGISTER"
      BY DEF lld_register_worker
    <3> QED
      BY <2>1, <3>1, <1>0 DEF WorkersInStep, InFlight
  <2>3. /\ IsFiniteSet(workers_client) /\ Cardinality(workers_client) \in Nat
        /\ Cardinality(Workers) \in Nat
        /\ Cardinality(workers_client) < Cardinality(Workers)
    <3>1. workers_client \in SUBSET Workers /\ workers_client # Workers
      BY <2>1, <2>2 DEF TypeOK
    <3> QED
      BY <3>1, FS_Subset, FS_CardinalityType, LldAssumption
  <2>4. /\ next_worker_index' = next_worker_index + 1
        /\ workers_client' = workers_client \cup {c}
        /\ free_workers' = Append(free_workers, c)
        /\ outbox' = [outbox EXCEPT ![c] = <<>>]
        /\ UNCHANGED <<mpc, worker_rule, rule_index, values, values_num,
                       rule_queue, queued_num, inbox, wvars, hvars>>
    <3>1. Tail(outbox[c]) = <<>>
      BY <2>2
    <3>2. next_worker_index # Cardinality(Workers)
      BY <2>3 DEF CountersExact
    <3>3. outbox' = [outbox EXCEPT ![c] = Tail(outbox[c])]
      BY DEF lld_register_worker
    <3>4. outbox' = [outbox EXCEPT ![c] = <<>>]
      BY <3>1, <3>3, Zenon
    <3> QED
      BY <1>2, <3>2, <3>4 DEF lld_register_worker
  <2>5. TypeOK'
    BY <2>1, <2>3, <2>4 DEF TypeOK, CountersExact, wvars, hvars
  <2>6. RuleOwnedOnce' /\ NeverExits'
    BY <2>4 DEF RuleOwnedOnce, Held, NeverExits
  <2>7. WorkersInStep'
    BY <2>1, <2>2, <2>4 DEF WorkersInStep, InFlight, TypeOK, Clients, wvars
  <2>8. FreeWorkersExact'
    <3>1. free_workers \in Seq(Workers)
      BY DEF TypeOK
    <3>2. \A k \in 1..Len(free_workers) : free_workers[k] # c
      BY <2>1, <2>2 DEF FreeWorkersExact
    <3>3. /\ Len(free_workers') = Len(free_workers) + 1
          /\ free_workers'[Len(free_workers) + 1] = c
          /\ \A k \in 1..Len(free_workers) : free_workers'[k] = free_workers[k]
      BY <2>1, <2>4, <3>1
    <3>4. \A k \in 1..Len(free_workers') :
             k \in 1..Len(free_workers) \/ k = Len(free_workers) + 1
      BY <3>1, <3>3
    <3>5. \A j, k \in 1..Len(free_workers') : free_workers'[j] = free_workers'[k] => j = k
      BY <3>2, <3>3, <3>4 DEF FreeWorkersExact
    <3>6. ASSUME NEW w \in Workers
          PROVE  (\E k \in 1..Len(free_workers') : free_workers'[k] = w)
                    <=> w \in workers_client' /\ worker_rule'[w] = None
      <4>1. CASE w = c
        BY <2>2, <2>4, <3>1, <3>3, <4>1
      <4>2. CASE w # c
        <5>1. (\E k \in 1..Len(free_workers) : free_workers[k] = w)
                 <=> w \in workers_client' /\ worker_rule'[w] = None
          BY <2>4, <4>2 DEF FreeWorkersExact
        <5>2. (\E k \in 1..Len(free_workers') : free_workers'[k] = w)
                 <=> \E k \in 1..Len(free_workers) : free_workers[k] = w
          BY <3>1, <3>3, <3>4, <4>2
        <5> QED
          BY <5>1, <5>2
      <4> QED
        BY <4>1, <4>2
    <3> QED
      BY <3>5, <3>6 DEF FreeWorkersExact
  <2>9. CountersExact'
    BY <2>2, <2>3, <2>4, FS_AddElement DEF CountersExact
  <2> QED
    BY <2>5, <2>6, <2>7, <2>8, <2>9
<1> QED
  BY <1>1, <1>2

(* A request: the value joins an indexed rule, or makes a rule that is     *)
(* indexed and put on the heap.                                            *)
LEMMA RequestIInv ==
    ASSUME IInv, NEW d \in Data, lld_queue_request(d) PROVE IInv'
<1> USE DEF IInv
<1> DEFINE h == HostOf[d.itemid]
<1>0. d.itemid \in Items /\ d.value \in Values \cup {None} /\ h \in Hosts
  BY LldAssumption DEF Data
<1>1. /\ mpc' = "process_queue"
      /\ requests' \in 0..MaxRequests
      /\ lastReceived' \in [Items -> Values \cup {None}]
      /\ UNCHANGED <<next_worker_index, workers_client, free_workers, worker_rule,
                     outbox, inbox, wvars, lastProcessed>>
  BY <1>0, LldAssumption DEF lld_queue_request, TypeOK
<1>2. CASE UNCHANGED <<rule_index, values, values_num, rule_queue, queued_num>>
  <2>1. TypeOK'
    BY <1>1, <1>2 DEF TypeOK, wvars
  <2>2. WorkersInStep'
    BY <1>1, <1>2 DEF WorkersInStep, InFlight, wvars
  <2> QED
    BY <1>1, <1>2, <2>1, <2>2 DEF RuleOwnedOnce, Held, FreeWorkersExact, NeverExits, CountersExact
<1>3. CASE /\ h \notin rule_index
           /\ values' = [values EXCEPT ![h] = <<d>>]
           /\ values_num' = [values_num EXCEPT ![h] = 1]
           /\ rule_index' = rule_index \cup {h}
           /\ rule_queue' = [rule_queue EXCEPT ![h] = @ + 1]
           /\ queued_num' = queued_num + 1
  <2>0. values[h] = <<>> /\ ~Held(h)
    BY <1>0, <1>3 DEF RuleOwnedOnce, TypeOK
  <2>1. TypeOK'
    <3>1. <<d>> \in Seq(Data)
      OBVIOUS
    <3> QED
      BY <1>0, <1>1, <1>3, <3>1 DEF TypeOK, wvars
  <2>2. WorkersInStep'
    BY <1>0, <1>1, <1>3, <2>0 DEF WorkersInStep, InFlight, wvars, TypeOK, Held
  <2>3. RuleOwnedOnce'
    <3>1. \A g \in Hosts : Held(g)' <=> Held(g)
      BY <1>1 DEF Held
    <3>2. rule_queue[h] = 0
      BY <1>0, <1>3 DEF RuleOwnedOnce
    <3> QED
      BY <1>0, <1>1, <1>3, <2>0, <3>1, <3>2 DEF RuleOwnedOnce, TypeOK
  <2>4. CountersExact'
    BY <1>0, <1>1, <1>3 DEF CountersExact, TypeOK
  <2> QED
    BY <1>1, <2>1, <2>2, <2>3, <2>4 DEF FreeWorkersExact, NeverExits
<1>4. CASE /\ h \in rule_index
           /\ values' = [values EXCEPT ![h] = Append(@, d)]
           /\ values_num' = [values_num EXCEPT ![h] = @ + 1]
           /\ UNCHANGED <<rule_index, rule_queue>>
           /\ queued_num' = queued_num + 1
  <2>0. /\ values[h] # <<>>
        /\ Append(values[h], d) \in Seq(Data) /\ Append(values[h], d) # <<>>
        /\ Len(Append(values[h], d)) = Len(values[h]) + 1
        /\ Head(Append(values[h], d)) = Head(values[h])
    <3>1. values[h] # <<>> /\ values[h] \in Seq(Data)
      BY <1>0, <1>4 DEF RuleOwnedOnce, TypeOK
    <3> QED
      BY <3>1, AppendProperties, HeadTailAppend
  <2>1. TypeOK'
    <3>1. values' \in [Hosts -> Seq(Data)]
      BY <1>0, <1>4, <2>0 DEF TypeOK
    <3>2. values_num' \in [Hosts -> Nat]
      BY <1>0, <1>4 DEF TypeOK
    <3>3. queued_num' \in Int /\ UNCHANGED <<rule_index, rule_queue>>
      BY <1>4 DEF TypeOK
    <3> QED
      BY <1>1, <3>1, <3>2, <3>3 DEF TypeOK, wvars
  <2>2. WorkersInStep'
    BY <1>0, <1>1, <1>4, <2>0 DEF WorkersInStep, InFlight, wvars, TypeOK
  <2>3. RuleOwnedOnce'
    <3>1. \A g \in Hosts : Held(g)' <=> Held(g)
      BY <1>1 DEF Held
    <3> QED
      BY <1>0, <1>1, <1>4, <2>0, <3>1 DEF RuleOwnedOnce, TypeOK
  <2>4. CountersExact'
    BY <1>0, <1>1, <1>4, <2>0 DEF CountersExact, TypeOK
  <2> QED
    BY <1>1, <2>1, <2>2, <2>3, <2>4 DEF FreeWorkersExact, NeverExits
<1> QED
  BY <1>2, <1>3, <1>4 DEF lld_queue_request, lld_queue_rule, AppendData

(* The effect of sending the oldest rule of a heap to a worker. *)
LEMMA NextRequestEffect ==
    ASSUME NEW w \in Workers, NEW q, NEW v, lld_process_next_request(w, q, v)
    PROVE  \E h \in Hosts : /\ q[h] > 0
                            /\ worker_rule' = [worker_rule EXCEPT ![w] = h]
                            /\ rule_queue' = [q EXCEPT ![h] = @ - 1]
                            /\ inbox' = [inbox EXCEPT ![w] = Append(@, Head(v[h]))]
BY DEF lld_process_next_request, OldestRules

(* One iteration of lld_process_queue: a free worker without a rule gets a *)
(* rule without a worker.                                                  *)
LEMMA ProcessQueueIInv == ASSUME IInv, lld_process_queue PROVE IInv'
<1> USE DEF IInv
<1>1. CASE /\ mpc' = "recv"
           /\ UNCHANGED <<free_workers, worker_rule, rule_queue, inbox>>
  <2>1. UNCHANGED <<next_worker_index, workers_client, rule_index, values, values_num,
                    queued_num, outbox, wvars, hvars>>
    BY DEF lld_process_queue
  <2>2. TypeOK'
    BY <1>1, <2>1 DEF TypeOK, wvars, hvars
  <2>3. WorkersInStep'
    BY <1>1, <2>1 DEF WorkersInStep, InFlight, wvars
  <2> QED
    BY <1>1, <2>1, <2>2, <2>3 DEF RuleOwnedOnce, Held, FreeWorkersExact, NeverExits, CountersExact
<1>2. CASE /\ free_workers # <<>>
           /\ lld_process_next_request(Head(free_workers), rule_queue, values)
           /\ free_workers' = Tail(free_workers)
           /\ UNCHANGED mpc
  <2> DEFINE w == Head(free_workers)
  <2>1. UNCHANGED <<next_worker_index, workers_client, rule_index, values, values_num,
                    queued_num, outbox, wvars, hvars>>
    BY DEF lld_process_queue
  <2>2. /\ free_workers \in Seq(Workers) /\ w \in Workers
        /\ 1 \in 1..Len(free_workers) /\ free_workers[1] = w
        /\ Tail(free_workers) \in Seq(Workers)
        /\ Len(Tail(free_workers)) = Len(free_workers) - 1
        /\ \A k \in 1..Len(Tail(free_workers)) : Tail(free_workers)[k] = free_workers[k + 1]
    BY <1>2, HeadTailProperties DEF TypeOK
  <2>3. w \in workers_client /\ worker_rule[w] = None
    BY <2>2 DEF FreeWorkersExact
  <2>4. inbox[w] = <<>> /\ outbox[w] = <<>> /\ wpc[w] = "idle"
    BY <2>2, <2>3 DEF WorkersInStep, InFlight, TypeOK, Clients
  <2>5. PICK h \in Hosts : /\ rule_queue[h] > 0
                           /\ worker_rule' = [worker_rule EXCEPT ![w] = h]
                           /\ rule_queue' = [rule_queue EXCEPT ![h] = @ - 1]
                           /\ inbox' = [inbox EXCEPT ![w] = Append(@, Head(values[h]))]
    BY <1>2, <2>2, NextRequestEffect
  <2>6. /\ h \in rule_index /\ rule_queue[h] = 1 /\ values[h] # <<>> /\ h # None
        /\ ~Held(h) /\ Head(values[h]) \in Data
    <3>1. h \in rule_index /\ rule_queue[h] = 1 /\ values[h] # <<>>
      BY <2>5 DEF RuleOwnedOnce, TypeOK
    <3>2. ~Held(h)
      BY <2>5 DEF RuleOwnedOnce, TypeOK
    <3>3. Head(values[h]) \in Data
      BY <3>1, HeadTailProperties DEF TypeOK
    <3> QED
      BY <3>1, <3>2, <3>3, LldAssumption
  <2>7. inbox' = [inbox EXCEPT ![w] = <<Head(values[h])>>]
    BY <2>4, <2>5, <2>6
  <2>8. TypeOK'
    <3>1. <<Head(values[h])>> \in Seq(Data)
      BY <2>6
    <3>2. inbox' \in [Workers -> Seq(Data)]
      BY <2>2, <2>7, <3>1 DEF TypeOK
    <3>3. rule_queue' \in [Hosts -> Nat] /\ worker_rule' \in [Workers -> Hosts \cup {None}]
      BY <2>2, <2>5, <2>6 DEF TypeOK
    <3> QED
      BY <1>2, <2>1, <2>2, <3>2, <3>3 DEF TypeOK, wvars, hvars
  <2>9. RuleOwnedOnce'
    <3>1. \A u \in Workers : worker_rule'[u] = IF u = w THEN h ELSE worker_rule[u]
      BY <2>2, <2>5 DEF TypeOK
    <3>2. \A g \in Hosts : Held(g)' <=> Held(g) \/ g = h
      BY <2>2, <2>3, <3>1, LldAssumption DEF Held
    <3>3. \A w1, w2 \in Workers :
             worker_rule'[w1] = worker_rule'[w2] /\ worker_rule'[w1] # None => w1 = w2
      BY <2>6, <3>1 DEF RuleOwnedOnce, Held
    <3>4. \A g \in Hosts : rule_queue'[g] = IF g = h THEN 0 ELSE rule_queue[g]
      BY <2>5, <2>6 DEF TypeOK
    <3> QED
      BY <2>1, <2>6, <3>2, <3>3, <3>4 DEF RuleOwnedOnce
  <2>10. WorkersInStep'
    <3> SUFFICES ASSUME NEW u \in Workers PROVE InFlight(u)'
      BY DEF WorkersInStep
    <3>1. CASE u = w
      <4>1. worker_rule'[u] = h /\ inbox'[u] = <<Head(values[h])>>
        BY <2>2, <2>5, <2>7, <3>1 DEF TypeOK
      <4> QED
        BY <2>1, <2>3, <2>4, <2>6, <3>1, <4>1 DEF InFlight, wvars
    <3>2. CASE u # w
      <4>1. worker_rule'[u] = worker_rule[u] /\ inbox'[u] = inbox[u]
        BY <2>2, <2>5, <2>7, <3>2 DEF TypeOK
      <4> QED
        BY <2>1, <4>1 DEF InFlight, WorkersInStep, wvars
    <3> QED
      BY <3>1, <3>2
  <2>11. FreeWorkersExact'
    <3>1. \A j, k \in 1..Len(free_workers') : free_workers'[j] = free_workers'[k] => j = k
      <4> SUFFICES ASSUME NEW j \in 1..Len(free_workers'), NEW k \in 1..Len(free_workers'),
                          free_workers'[j] = free_workers'[k]
                   PROVE  j = k
        OBVIOUS
      <4>1. j + 1 \in 1..Len(free_workers) /\ k + 1 \in 1..Len(free_workers)
        BY <1>2, <2>2
      <4>2. free_workers[j + 1] = free_workers[k + 1]
        BY <1>2, <2>2
      <4>3. j + 1 = k + 1
        BY <4>1, <4>2 DEF FreeWorkersExact
      <4> QED
        BY <4>3
    <3>2. ASSUME NEW u \in Workers
          PROVE  (\E k \in 1..Len(free_workers') : free_workers'[k] = u)
                    <=> u \in workers_client' /\ worker_rule'[u] = None
      <4>1. CASE u = w
        <5>1. worker_rule'[u] # None
          BY <2>2, <2>5, <2>6, <4>1 DEF TypeOK
        <5>2. ASSUME NEW k \in 1..Len(free_workers'), free_workers'[k] = u PROVE FALSE
          <6>1. k + 1 \in 1..Len(free_workers) /\ free_workers[k + 1] = free_workers[1]
            BY <1>2, <2>2, <4>1, <5>2
          <6>2. k + 1 = 1
            BY <2>2, <6>1 DEF FreeWorkersExact
          <6> QED
            BY <6>2
        <5> QED
          BY <5>1, <5>2
      <4>2. CASE u # w
        <5>1. worker_rule'[u] = worker_rule[u] /\ workers_client' = workers_client
          BY <2>1, <2>2, <2>5, <4>2 DEF TypeOK
        <5>2. (\E k \in 1..Len(free_workers) : free_workers[k] = u)
                 <=> u \in workers_client' /\ worker_rule'[u] = None
          BY <5>1 DEF FreeWorkersExact
        <5>3. ASSUME NEW k \in 1..Len(free_workers), free_workers[k] = u
              PROVE  \E j \in 1..Len(free_workers') : free_workers'[j] = u
          <6>1. k # 1
            BY <2>2, <4>2, <5>3
          <6>2. k - 1 \in 1..Len(free_workers') /\ free_workers'[k - 1] = u
            BY <1>2, <2>2, <5>3, <6>1
          <6> QED
            BY <6>2
        <5>4. ASSUME NEW k \in 1..Len(free_workers'), free_workers'[k] = u
              PROVE  \E j \in 1..Len(free_workers) : free_workers[j] = u
          <6>1. k + 1 \in 1..Len(free_workers) /\ free_workers[k + 1] = u
            BY <1>2, <2>2, <5>4
          <6> QED
            BY <6>1
        <5> QED
          BY <5>2, <5>3, <5>4
      <4> QED
        BY <4>1, <4>2
    <3> QED
      BY <3>1, <3>2 DEF FreeWorkersExact
  <2> QED
    BY <1>2, <2>1, <2>8, <2>9, <2>10, <2>11 DEF NeverExits, CountersExact
<1> QED
  BY <1>1, <1>2 DEF lld_process_queue

(* What a DONE message tells: its sender is registered and has the rule of *)
(* a host, whose head value is removed.                                    *)
LEMMA ResultFacts ==
    ASSUME IInv, NEW w \in Workers, LLD_DONE(w)
    PROVE  LET h == worker_rule[w] IN
           /\ h \in Hosts /\ h # None /\ h \in rule_index /\ Held(h) /\ rule_queue[h] = 0
           /\ values[h] \in Seq(Data) /\ values[h] # <<>>
           /\ Tail(values[h]) \in Seq(Data) /\ Len(Tail(values[h])) = Len(values[h]) - 1
           /\ w \in workers_client /\ inbox[w] = <<>> /\ wpc[w] = "idle"
           /\ outbox[w] = <<"DONE">> /\ outbox' = [outbox EXCEPT ![w] = <<>>]
<1> USE DEF IInv
<1> DEFINE h == worker_rule[w]
<1>1. /\ outbox[w] # <<>> /\ Head(outbox[w]) = "DONE"
      /\ outbox' = [outbox EXCEPT ![w] = Tail(outbox[w])]
  BY DEF LLD_DONE, lld_process_result
<1>2. /\ outbox[w] = <<"DONE">> /\ h # None /\ w \in workers_client
      /\ inbox[w] = <<>> /\ wpc[w] = "idle"
  BY <1>1 DEF WorkersInStep, InFlight
<1>3. h \in Hosts
  BY <1>2 DEF TypeOK
<1>4. Held(h)
  BY DEF Held
<1>5. h \in rule_index /\ rule_queue[h] = 0 /\ values[h] # <<>>
  BY <1>3, <1>4 DEF RuleOwnedOnce
<1>6. /\ values[h] \in Seq(Data)
      /\ Tail(values[h]) \in Seq(Data) /\ Len(Tail(values[h])) = Len(values[h]) - 1
  BY <1>3, <1>5, HeadTailProperties DEF TypeOK
<1>7. Tail(outbox[w]) = <<>>
  BY <1>2
<1>8. outbox' = [outbox EXCEPT ![w] = <<>>]
  BY <1>1, <1>7, Zenon
<1> QED
  BY <1>2, <1>3, <1>4, <1>5, <1>6, <1>8

(* A result: the rule leaves its worker, for the heap or for good, and the *)
(* worker becomes free or gets the rule at the top of the heap.            *)
LEMMA ResultIInv == ASSUME IInv, NEW w \in Workers, LLD_DONE(w) PROVE IInv'
<1> USE DEF IInv
<1> DEFINE h == worker_rule[w]
           v == [values EXCEPT ![h] = Tail(@)]
           q == IF v[h] = <<>> THEN rule_queue ELSE lld_queue_rule(rule_queue, h)
<1>1. /\ h \in Hosts /\ h # None /\ h \in rule_index /\ Held(h) /\ rule_queue[h] = 0
      /\ values[h] \in Seq(Data) /\ values[h] # <<>>
      /\ Tail(values[h]) \in Seq(Data) /\ Len(Tail(values[h])) = Len(values[h]) - 1
      /\ w \in workers_client /\ inbox[w] = <<>> /\ wpc[w] = "idle"
      /\ outbox[w] = <<"DONE">> /\ outbox' = [outbox EXCEPT ![w] = <<>>]
  BY ResultFacts
<1>2. /\ values' = v
      /\ rule_index' = IF v[h] = <<>> THEN rule_index \ {h} ELSE rule_index
      /\ values_num' = [values_num EXCEPT ![h] = IF v[h] = <<>> THEN 0 ELSE @ - 1]
      /\ queued_num' = queued_num - 1
      /\ UNCHANGED <<mpc, next_worker_index, workers_client, wvars, hvars>>
  BY <1>1 DEF LLD_DONE, lld_process_result
<1>3. v \in [Hosts -> Seq(Data)] /\ v[h] = Tail(values[h])
      /\ \A g \in Hosts : g # h => v[g] = values[g]
  BY <1>1 DEF TypeOK
<1>4. q \in [Hosts -> Nat] /\ \A g \in Hosts : q[g] = IF g = h /\ v[h] # <<>> THEN 1 ELSE rule_queue[g]
  BY <1>1 DEF TypeOK, lld_queue_rule
<1>a. IF Empty(q)
      THEN /\ worker_rule' = [worker_rule EXCEPT ![w] = None]
           /\ free_workers' = Append(free_workers, w)
           /\ rule_queue' = q
           /\ UNCHANGED inbox
      ELSE lld_process_next_request(w, q, v) /\ UNCHANGED free_workers
  BY <1>1 DEF LLD_DONE, lld_process_result
<1>b. outbox' \in [Clients -> Seq({"REGISTER", "DONE"})]
  <2>1. outbox \in [Clients -> Seq({"REGISTER", "DONE"})]
    BY DEF TypeOK
  <2>2. outbox' = [outbox EXCEPT ![w] = <<>>]
    BY <1>1
  <2>3. <<>> \in Seq({"REGISTER", "DONE"})
    OBVIOUS
  <2> QED
    BY <2>1, <2>2, <2>3, Zenon DEF Clients
<1> HIDE DEF v, q
<1>5. values_num' \in [Hosts -> Nat] /\ \A g \in Hosts : values_num'[g] = Len(values'[g])
  <2>1. \A g \in Hosts : values_num[g] = Len(values[g]) /\ Len(values[g]) \in Nat
    BY DEF CountersExact, TypeOK
  <2>2. Len(values[h]) # 0
    BY <1>1, EmptySeq
  <2>3. v[h] = <<>> => Len(v[h]) = 0
    OBVIOUS
  <2>4. \A g \in Hosts : values_num'[g] = IF g # h THEN values_num[g]
                                          ELSE IF v[h] = <<>> THEN 0 ELSE values_num[h] - 1
    BY <1>1, <1>2 DEF TypeOK
  <2>5. \A g \in Hosts : values_num'[g] = Len(v[g])
    BY <1>1, <1>3, <2>1, <2>3, <2>4
  <2>6. \A g \in Hosts : values_num'[g] \in Nat
    BY <1>3, <2>5
  <2>7. values_num' = [g \in Hosts |-> values_num'[g]]
    BY <1>2 DEF TypeOK
  <2> QED
    BY <1>2, <2>5, <2>6, <2>7
<1>6. CountersExact' /\ NeverExits'
  BY <1>2, <1>5 DEF CountersExact, NeverExits
<1>7. CASE Empty(q)
  <2>1. /\ worker_rule' = [worker_rule EXCEPT ![w] = None]
        /\ free_workers' = Append(free_workers, w)
        /\ rule_queue' = q
        /\ UNCHANGED inbox
    BY <1>7, <1>a
  <2>2. TypeOK'
    <3>1. rule_index' \in SUBSET Hosts /\ queued_num' \in Int
      BY <1>2 DEF TypeOK
    <3>2. worker_rule' \in [Workers -> Hosts \cup {None}]
      BY <2>1 DEF TypeOK
    <3>3. free_workers' \in Seq(Workers)
      BY <2>1 DEF TypeOK
    <3> QED
      BY <1>2, <1>3, <1>4, <1>5, <1>b, <2>1, <3>1, <3>2, <3>3 DEF TypeOK, wvars, hvars
  <2>3. \A u \in Workers : worker_rule'[u] = IF u = w THEN None ELSE worker_rule[u]
    BY <2>1 DEF TypeOK
  <2>4. \A g \in Hosts : Held(g)' <=> Held(g) /\ g # h
    BY <1>1, <2>3, LldAssumption DEF Held, RuleOwnedOnce
  <2>5. v[h] = <<>>
    BY <1>1, <1>4, <1>7 DEF Empty
  <2>6. RuleOwnedOnce'
    <3>1. \A w1, w2 \in Workers :
             worker_rule'[w1] = worker_rule'[w2] /\ worker_rule'[w1] # None => w1 = w2
      BY <2>3 DEF RuleOwnedOnce
    <3>2. \A f \in Hosts : f \in rule_index' <=> f \in rule_index /\ f # h
      BY <1>2, <2>5
    <3>3. \A f \in Hosts : f # h => values'[f] = values[f]
      BY <1>2, <1>3
    <3>4. \A f \in Hosts : rule_queue'[f] = rule_queue[f]
      BY <1>4, <2>1, <2>5
    <3> QED
      BY <1>1, <1>2, <2>4, <2>5, <3>1, <3>2, <3>3, <3>4 DEF RuleOwnedOnce
  <2>7. WorkersInStep'
    <3> SUFFICES ASSUME NEW u \in Workers PROVE InFlight(u)'
      BY DEF WorkersInStep
    <3>1. CASE u = w
      BY <1>1, <1>2, <2>1, <2>3, <3>1 DEF InFlight, wvars, TypeOK, Clients
    <3>2. CASE u # w
      <4>1. worker_rule'[u] = worker_rule[u] /\ outbox'[u] = outbox[u]
        BY <1>1, <2>3, <3>2 DEF TypeOK, Clients
      <4>2. worker_rule[u] # None => worker_rule[u] # h /\ worker_rule[u] \in Hosts
        BY <1>1, <3>2 DEF RuleOwnedOnce, TypeOK
      <4>3. worker_rule[u] # None => values'[worker_rule[u]] = values[worker_rule[u]]
        BY <1>2, <1>3, <4>2
      <4> QED
        BY <1>2, <2>1, <4>1, <4>3 DEF InFlight, WorkersInStep, wvars
    <3> QED
      BY <3>1, <3>2
  <2>8. FreeWorkersExact'
    <3>1. free_workers \in Seq(Workers)
      BY DEF TypeOK
    <3>2. \A k \in 1..Len(free_workers) : free_workers[k] # w
      BY <1>1 DEF FreeWorkersExact
    <3>3. /\ Len(free_workers') = Len(free_workers) + 1
          /\ free_workers'[Len(free_workers) + 1] = w
          /\ \A k \in 1..Len(free_workers) : free_workers'[k] = free_workers[k]
      BY <2>1, <3>1
    <3>4. \A k \in 1..Len(free_workers') :
             k \in 1..Len(free_workers) \/ k = Len(free_workers) + 1
      BY <3>1, <3>3
    <3>5. \A j, k \in 1..Len(free_workers') : free_workers'[j] = free_workers'[k] => j = k
      BY <3>2, <3>3, <3>4 DEF FreeWorkersExact
    <3>6. ASSUME NEW u \in Workers
          PROVE  (\E k \in 1..Len(free_workers') : free_workers'[k] = u)
                    <=> u \in workers_client' /\ worker_rule'[u] = None
      <4>1. CASE u = w
        BY <1>1, <1>2, <2>3, <3>1, <3>3, <4>1
      <4>2. CASE u # w
        <5>1. (\E k \in 1..Len(free_workers) : free_workers[k] = u)
                 <=> u \in workers_client' /\ worker_rule'[u] = None
          BY <1>2, <2>3, <4>2 DEF FreeWorkersExact
        <5>2. (\E k \in 1..Len(free_workers') : free_workers'[k] = u)
                 <=> \E k \in 1..Len(free_workers) : free_workers[k] = u
          BY <3>1, <3>3, <3>4, <4>2
        <5> QED
          BY <5>1, <5>2
      <4> QED
        BY <4>1, <4>2
    <3> QED
      BY <3>5, <3>6 DEF FreeWorkersExact
  <2> QED
    BY <1>6, <2>2, <2>6, <2>7, <2>8
<1>8. CASE ~Empty(q)
  <2>1. lld_process_next_request(w, q, v) /\ UNCHANGED free_workers
    BY <1>8, <1>a
  <2>2. PICK g \in Hosts : /\ q[g] > 0
                           /\ worker_rule' = [worker_rule EXCEPT ![w] = g]
                           /\ rule_queue' = [q EXCEPT ![g] = @ - 1]
                           /\ inbox' = [inbox EXCEPT ![w] = Append(@, Head(v[g]))]
    BY <2>1, NextRequestEffect
  <2>3. g # None /\ q[g] = 1 /\ v[g] # <<>> /\ g \in rule_index /\ (g # h => ~Held(g))
    <3>1. CASE g = h
      BY <1>1, <1>4, <2>2, <3>1
    <3>2. CASE g # h
      <4>1. q[g] = rule_queue[g] /\ v[g] = values[g]
        BY <1>3, <1>4, <3>2
      <4>2. g \in rule_index /\ ~Held(g) /\ rule_queue[g] = 1
        BY <2>2, <4>1 DEF RuleOwnedOnce
      <4>3. values[g] # <<>>
        BY <4>2 DEF RuleOwnedOnce
      <4> QED
        BY <4>1, <4>2, <4>3, LldAssumption
    <3> QED
      BY <3>1, <3>2
  <2>4. Head(v[g]) \in Data
    BY <1>3, <2>3, HeadTailProperties
  <2>5. inbox' = [inbox EXCEPT ![w] = <<Head(v[g])>>]
    BY <1>1, <2>2, <2>4
  <2>6. \A u \in Workers : worker_rule'[u] = IF u = w THEN g ELSE worker_rule[u]
    BY <2>2 DEF TypeOK
  <2>7. TypeOK'
    <3>2. <<Head(v[g])>> \in Seq(Data)
      BY <2>4
    <3>3. inbox' \in [Workers -> Seq(Data)]
      BY <2>5, <3>2 DEF TypeOK
    <3>4. rule_queue' \in [Hosts -> Nat] /\ worker_rule' \in [Workers -> Hosts \cup {None}]
      BY <1>4, <2>2, <2>3 DEF TypeOK
    <3>5. rule_index' \in SUBSET Hosts /\ queued_num' \in Int
      BY <1>2 DEF TypeOK
    <3> QED
      BY <1>2, <1>3, <1>5, <1>b, <2>1, <3>3, <3>4, <3>5 DEF TypeOK, wvars, hvars
  <2>8. RuleOwnedOnce'
    <3>1. \A f \in Hosts : Held(f)' <=> (Held(f) /\ f # h) \/ f = g
      BY <1>1, <2>6, LldAssumption DEF Held, RuleOwnedOnce
    <3>2. \A w1, w2 \in Workers :
             worker_rule'[w1] = worker_rule'[w2] /\ worker_rule'[w1] # None => w1 = w2
      BY <1>1, <2>3, <2>6 DEF RuleOwnedOnce, Held
    <3>3. \A f \in Hosts : rule_queue'[f] = IF f = g THEN 0 ELSE q[f]
      BY <1>4, <2>2, <2>3
    <3>4. \A f \in Hosts : f \in rule_index' <=> values'[f] # <<>>
      BY <1>1, <1>2, <1>3 DEF RuleOwnedOnce
    <3>5. g \in rule_index'
      BY <1>2, <2>3, <3>4
    <3>6. ASSUME NEW f \in Hosts
          PROVE  /\ Held(f)' => f \in rule_index'
                 /\ rule_queue'[f] = IF f \in rule_index' /\ ~Held(f)' THEN 1 ELSE 0
      <4>1. CASE f = g
        BY <3>1, <3>3, <3>5, <4>1
      <4>2. CASE f # g /\ f = h
        BY <1>1, <1>2, <1>4, <3>1, <3>3, <4>2 DEF RuleOwnedOnce
      <4>3. CASE f # g /\ f # h
        BY <1>2, <1>4, <3>1, <3>3, <4>3 DEF RuleOwnedOnce
      <4> QED
        BY <4>1, <4>2, <4>3
    <3> QED
      BY <3>2, <3>4, <3>6 DEF RuleOwnedOnce
  <2>9. WorkersInStep'
    <3> SUFFICES ASSUME NEW u \in Workers PROVE InFlight(u)'
      BY DEF WorkersInStep
    <3>1. CASE u = w
      <4>1. /\ worker_rule'[u] = g /\ inbox'[u] = <<Head(v[g])>> /\ outbox'[u] = <<>>
        BY <1>1, <2>5, <2>6, <3>1 DEF TypeOK, Clients
      <4> QED
        BY <1>1, <1>2, <2>3, <3>1, <4>1 DEF InFlight, wvars
    <3>2. CASE u # w
      <4>1. worker_rule'[u] = worker_rule[u] /\ outbox'[u] = outbox[u] /\ inbox'[u] = inbox[u]
        BY <1>1, <2>5, <2>6, <3>2 DEF TypeOK, Clients
      <4>2. worker_rule[u] # None => worker_rule[u] # h /\ worker_rule[u] \in Hosts
        BY <1>1, <3>2 DEF RuleOwnedOnce, TypeOK
      <4>3. worker_rule[u] # None => values'[worker_rule[u]] = values[worker_rule[u]]
        BY <1>2, <1>3, <4>2
      <4> QED
        BY <1>2, <4>1, <4>3 DEF InFlight, WorkersInStep, wvars
    <3> QED
      BY <3>1, <3>2
  <2>10. FreeWorkersExact'
    <3>1. ASSUME NEW u \in Workers
          PROVE  worker_rule'[u] = None <=> worker_rule[u] = None
      BY <1>1, <2>3, <2>6
    <3> QED
      BY <1>2, <2>1, <3>1 DEF FreeWorkersExact
  <2> QED
    BY <1>6, <2>7, <2>8, <2>9, <2>10
<1> QED
  BY <1>7, <1>8

(* A worker or a stranger announces itself. *)
LEMMA WorkerRegisterIInv ==
    ASSUME IInv, NEW c \in Clients, worker_register(c) PROVE IInv'
<1> USE DEF IInv
<1>1. /\ wpc[c] = "start"
      /\ wpc' = [wpc EXCEPT ![c] = "idle"]
      /\ outbox' = [outbox EXCEPT ![c] = Append(@, "REGISTER")]
      /\ UNCHANGED <<mvars, inbox, task, seen, item_state, hvars>>
  BY DEF worker_register
<1>2. Append(outbox[c], "REGISTER") \in Seq({"REGISTER", "DONE"})
  BY DEF TypeOK
<1>3. TypeOK'
  BY <1>1, <1>2 DEF TypeOK, mvars, hvars
<1>4. WorkersInStep'
  <2> SUFFICES ASSUME NEW u \in Workers PROVE InFlight(u)'
    BY DEF WorkersInStep
  <2>1. CASE u = c
    <3>1. outbox[c] = <<>> /\ worker_rule[c] = None /\ inbox[c] = <<>> /\ c \notin workers_client
      BY <1>1, <2>1 DEF WorkersInStep, InFlight
    <3>2. outbox'[c] = <<"REGISTER">> /\ wpc'[c] = "idle"
      BY <1>1, <3>1 DEF TypeOK
    <3> QED
      BY <1>1, <2>1, <3>1, <3>2 DEF InFlight, mvars
  <2>2. CASE u # c
    <3>1. outbox'[u] = outbox[u] /\ wpc'[u] = wpc[u]
      BY <1>1, <2>2 DEF TypeOK, Clients
    <3> QED
      BY <1>1, <3>1 DEF InFlight, WorkersInStep, mvars
  <2> QED
    BY <2>1, <2>2
<1> QED
  BY <1>1, <1>3, <1>4 DEF RuleOwnedOnce, Held, FreeWorkersExact, NeverExits, CountersExact, mvars

(* A worker takes the task from its connection. *)
LEMMA ReadTaskIInv ==
    ASSUME IInv, NEW w \in Workers, worker_read_task(w) PROVE IInv'
<1> USE DEF IInv
<1>1. /\ wpc[w] = "idle" /\ inbox[w] # <<>>
      /\ inbox' = [inbox EXCEPT ![w] = Tail(@)]
      /\ task' = [task EXCEPT ![w] = Head(inbox[w])]
      /\ seen' = [seen EXCEPT ![w] = item_state[Head(inbox[w]).itemid]]
      /\ wpc' = [wpc EXCEPT ![w] = "task"]
      /\ UNCHANGED <<mvars, outbox, item_state, hvars>>
  BY DEF worker_read_task
<1>2. /\ worker_rule[w] # None /\ inbox[w] = <<Head(values[worker_rule[w]])>>
      /\ outbox[w] = <<>> /\ w \in workers_client
  BY <1>1 DEF WorkersInStep, InFlight
<1>3. Head(inbox[w]) \in Data /\ Tail(inbox[w]) \in Seq(Data)
  BY <1>1, HeadTailProperties DEF TypeOK
<1>4. Head(inbox[w]) = Head(values[worker_rule[w]]) /\ Tail(inbox[w]) = <<>>
  BY <1>2
<1>5. Head(inbox[w]).itemid \in Items
  BY <1>3 DEF Data
<1>6. TypeOK'
  BY <1>1, <1>3, <1>5 DEF TypeOK, mvars, hvars, Clients
<1>7. WorkersInStep'
  <2> SUFFICES ASSUME NEW u \in Workers PROVE InFlight(u)'
    BY DEF WorkersInStep
  <2>1. CASE u = w
    <3>1. inbox'[u] = <<>> /\ wpc'[u] = "task" /\ task'[u] = Head(values[worker_rule[w]])
      BY <1>1, <1>4, <2>1 DEF TypeOK, Clients
    <3> QED
      BY <1>1, <1>2, <2>1, <3>1 DEF InFlight, mvars
  <2>2. CASE u # w
    <3>1. inbox'[u] = inbox[u] /\ wpc'[u] = wpc[u] /\ task'[u] = task[u]
      BY <1>1, <2>2 DEF TypeOK, Clients
    <3> QED
      BY <1>1, <3>1 DEF InFlight, WorkersInStep, mvars
  <2> QED
    BY <2>1, <2>2
<1> QED
  BY <1>1, <1>6, <1>7 DEF RuleOwnedOnce, Held, FreeWorkersExact, NeverExits, CountersExact, mvars

(* A worker finishes its task and reports it. *)
LEMMA ProcessTaskIInv ==
    ASSUME IInv, NEW w \in Workers, NEW state \in States, NEW found \in BOOLEAN,
           lld_process_task(w, state, found)
    PROVE  IInv'
<1> USE DEF IInv
<1>1. /\ wpc[w] = "task"
      /\ lastProcessed' = [lastProcessed EXCEPT ![task[w].itemid] = task[w].value]
      /\ outbox' = [outbox EXCEPT ![w] = Append(@, "DONE")]
      /\ wpc' = [wpc EXCEPT ![w] = "idle"]
      /\ task' = [task EXCEPT ![w] = None]
      /\ UNCHANGED <<mvars, inbox, seen, requests, lastReceived>>
  BY DEF lld_process_task
<1>2. /\ worker_rule[w] # None /\ inbox[w] = <<>>
      /\ outbox[w] = <<>> /\ w \in workers_client /\ task[w] = Head(values[worker_rule[w]])
  BY <1>1 DEF WorkersInStep, InFlight
<1>3. task[w] \in Data
  <2>1. worker_rule[w] \in Hosts /\ Held(worker_rule[w])
    BY <1>2 DEF TypeOK, Held
  <2>2. values[worker_rule[w]] # <<>>
    BY <2>1 DEF RuleOwnedOnce
  <2> QED
    BY <1>2, <2>1, <2>2, HeadTailProperties DEF TypeOK
<1>4. task[w].itemid \in Items /\ task[w].value \in Values \cup {None}
  BY <1>3 DEF Data
<1>5. item_state' \in [Items -> States]
  BY <1>4 DEF lld_process_task, TypeOK
<1>6. TypeOK'
  <2>1. Append(outbox[w], "DONE") \in Seq({"REGISTER", "DONE"})
    BY <1>2
  <2>2. outbox' \in [Clients -> Seq({"REGISTER", "DONE"})]
    BY <1>1, <2>1 DEF TypeOK
  <2> QED
    BY <1>1, <1>4, <1>5, <2>2 DEF TypeOK, mvars, Clients
<1>7. WorkersInStep'
  <2> SUFFICES ASSUME NEW u \in Workers PROVE InFlight(u)'
    BY DEF WorkersInStep
  <2>1. CASE u = w
    <3>1. outbox'[u] = <<"DONE">> /\ wpc'[u] = "idle"
      BY <1>1, <1>2, <2>1 DEF TypeOK, Clients
    <3> QED
      BY <1>1, <1>2, <2>1, <3>1 DEF InFlight, mvars
  <2>2. CASE u # w
    <3>1. outbox'[u] = outbox[u] /\ wpc'[u] = wpc[u] /\ task'[u] = task[u]
      BY <1>1, <2>2 DEF TypeOK, Clients
    <3> QED
      BY <1>1, <3>1 DEF InFlight, WorkersInStep, mvars
  <2> QED
    BY <2>1, <2>2
<1> QED
  BY <1>1, <1>6, <1>7 DEF RuleOwnedOnce, Held, FreeWorkersExact, NeverExits, CountersExact, mvars

(* Every step of the manager and of the workers preserves the invariant. *)
LEMMA NextIInv == IInv /\ [Next]_vars => IInv'
<1> SUFFICES ASSUME IInv, [Next]_vars PROVE IInv'
  OBVIOUS
<1>1. ASSUME NEW c \in Clients, lld_register_worker(c) PROVE IInv'
  BY <1>1, RegisterIInv
<1>2. CASE lld_process_queue
  BY <1>2, ProcessQueueIInv
<1>3. ASSUME NEW w \in Workers, LLD_DONE(w) PROVE IInv'
  BY <1>3, ResultIInv
<1>4. ASSUME NEW d \in Data, lld_queue_request(d) PROVE IInv'
  BY <1>4, RequestIInv
<1>5. ASSUME NEW c \in Clients, worker_register(c) PROVE IInv'
  BY <1>5, WorkerRegisterIInv
<1>6. ASSUME NEW w \in Workers, worker_read_task(w) PROVE IInv'
  BY <1>6, ReadTaskIInv
<1>7. ASSUME NEW w \in Workers, NEW state \in States, NEW found \in BOOLEAN,
             lld_process_task(w, state, found)
      PROVE  IInv'
  BY <1>7, ProcessTaskIInv
<1>8. CASE UNCHANGED vars
  BY <1>8 DEF vars, mvars, wvars, hvars, IInv, TypeOK, RuleOwnedOnce, Held, WorkersInStep,
              InFlight, FreeWorkersExact, NeverExits, CountersExact
<1> QED
  BY <1>1, <1>2, <1>3, <1>4, <1>5, <1>6, <1>7, <1>8 DEF Next, Manager, Worker, Clients

(* The invariant holds in every reachable state, whatever the number of    *)
(* workers, hosts, rules and requests.                                     *)
THEOREM LldInvariant == Spec => []IInv
BY InitIInv, NextIInv, PTL DEF Spec

(* The variables keep their types, in every reachable state. *)
THEOREM LldTypeOK == Spec => []TypeOK
  <1>1. IInv => TypeOK
    BY DEF IInv
  <1> QED BY <1>1, LldInvariant, PTL

(* The manager never reads a rule that is gone: every rule is referred to  *)
(* exactly once, by the heap or by a worker (lld_manager.c, rule_index).   *)
THEOREM LldRuleOwnedOnce == Spec => []RuleOwnedOnce
<1>1. IInv => RuleOwnedOnce
  BY DEF IInv
<1> QED
  BY LldInvariant, <1>1, PTL

(* The worker process works on the head of the rule the manager believes   *)
(* it works on, and reports only then.                                     *)
THEOREM LldWorkersInStep == Spec => []WorkersInStep
<1>1. IInv => WorkersInStep
  BY DEF IInv
<1> QED
  BY LldInvariant, <1>1, PTL

(* The manager does not end itself in lld_register_worker or               *)
(* lld_get_worker_by_client.                                               *)
THEOREM LldNeverExits == Spec => []NeverExits
<1>1. IInv => NeverExits
  BY DEF IInv
<1> QED
  BY LldInvariant, <1>1, PTL

-------------------------------------------------------------------------------
(* The refinement mapping: the hosts whose rule some worker was given. *)
Active == {h \in Hosts : Held(h)}

(* A step that neither touches a list nor moves a rule is not seen. *)
LEMMA StutterQueue ==
    ASSUME UNCHANGED <<values, worker_rule>> PROVE UNCHANGED Queue!vars
<1>1. \A h : Held(h)' <=> Held(h)
  BY DEF Held
<1> QED
  BY <1>1 DEF Queue!vars

(* A request appends to the queue of the host of the rule, or is dropped. *)
LEMMA RequestQueue ==
    ASSUME IInv, NEW d \in Data, lld_queue_request(d) PROVE [Queue!Next]_(Queue!vars)
<1> DEFINE h == HostOf[d.itemid]
<1>0. h \in Hosts /\ worker_rule' = worker_rule
  BY LldAssumption DEF Data, lld_queue_request
<1>1. CASE UNCHANGED values
  BY <1>0, <1>1, StutterQueue
<1>2. CASE values' = [values EXCEPT ![h] = Append(@, d)]
  <2>1. Active' = Active
    BY <1>0 DEF Active, Held
  <2>2. Queue!Submit(h, d)
    BY <1>2, <2>1 DEF Queue!Submit, Active
  <2> QED
    BY <1>0, <2>2 DEF Queue!Next
<1>3. CASE h \notin rule_index /\ values' = [values EXCEPT ![h] = <<d>>]
  <2>1. values[h] = <<>>
    BY <1>0, <1>3 DEF IInv, RuleOwnedOnce
  <2>2. Append(values[h], d) = <<d>>
    BY <2>1
  <2>3. values' = [values EXCEPT ![h] = Append(@, d)]
    BY <1>3, <2>2
  <2> QED
    BY <1>2, <2>3
<1> QED
  BY <1>1, <1>2, <1>3 DEF lld_queue_request, AppendData

(* An iteration of lld_process_queue starts the oldest value of a host of  *)
(* which no value is in processing.                                        *)
LEMMA ProcessQueueQueue ==
    ASSUME IInv, lld_process_queue PROVE [Queue!Next]_(Queue!vars)
<1>0. UNCHANGED values
  BY DEF lld_process_queue
<1>1. CASE UNCHANGED worker_rule
  BY <1>0, <1>1, StutterQueue
<1>2. CASE /\ free_workers # <<>>
           /\ lld_process_next_request(Head(free_workers), rule_queue, values)
  <2> DEFINE w == Head(free_workers)
  <2>1. w \in Workers /\ 1 \in 1..Len(free_workers) /\ free_workers[1] = w
    BY <1>2, HeadTailProperties DEF IInv, TypeOK
  <2>2. worker_rule[w] = None
    BY <2>1 DEF IInv, FreeWorkersExact
  <2>3. PICK h \in Hosts : rule_queue[h] > 0 /\ worker_rule' = [worker_rule EXCEPT ![w] = h]
    BY <1>2, <2>1, NextRequestEffect
  <2>4. h \in rule_index /\ ~Held(h)
    BY <2>3 DEF IInv, RuleOwnedOnce
  <2>5. values[h] # <<>>
    BY <2>4 DEF IInv, RuleOwnedOnce
  <2>6. \A u \in Workers : worker_rule'[u] = IF u = w THEN h ELSE worker_rule[u]
    BY <2>3 DEF IInv, TypeOK
  <2>7. Active' = Active \cup {h}
    BY <2>1, <2>2, <2>6, LldAssumption DEF Active, Held
  <2>8. Queue!Start(h)
    BY <1>0, <2>4, <2>5, <2>7 DEF Queue!Start, Active
  <2> QED
    BY <2>8 DEF Queue!Next
<1> QED
  BY <1>1, <1>2 DEF lld_process_queue

(* A result finishes the value of its worker's rule, and may start another.*)
LEMMA ResultQueue ==
    ASSUME IInv, NEW w \in Workers, LLD_DONE(w) PROVE [Queue!Next]_(Queue!vars)
<1> DEFINE h == worker_rule[w]
           v == [values EXCEPT ![h] = Tail(@)]
           q == IF v[h] = <<>> THEN rule_queue ELSE lld_queue_rule(rule_queue, h)
<1>1. /\ h \in Hosts /\ h # None /\ Held(h) /\ rule_queue[h] = 0
      /\ values[h] # <<>> /\ w \in workers_client
  BY ResultFacts
<1>2. values' = v
  BY <1>1 DEF LLD_DONE, lld_process_result
<1>3. \A g \in Hosts : v[g] = IF g = h THEN Tail(values[h]) ELSE values[g]
  BY <1>1 DEF IInv, TypeOK
<1>4. \A g \in Hosts : q[g] = IF g = h /\ v[h] # <<>> THEN 1 ELSE rule_queue[g]
  BY <1>1 DEF lld_queue_rule, IInv, TypeOK
<1>5. \/ worker_rule' = [worker_rule EXCEPT ![w] = None]
      \/ lld_process_next_request(w, q, v)
  BY <1>1 DEF LLD_DONE, lld_process_result
<1>6. h \in Active
  BY <1>1 DEF Active
<1> HIDE DEF q
<1>7. CASE worker_rule' = [worker_rule EXCEPT ![w] = None]
  <2>1. \A u \in Workers : worker_rule'[u] = IF u = w THEN None ELSE worker_rule[u]
    BY <1>7 DEF IInv, TypeOK
  <2>2. Active' = Active \ {h}
    BY <1>1, <2>1, LldAssumption DEF Active, Held, IInv, RuleOwnedOnce
  <2>3. Queue!Finish(h)
    BY <1>2, <1>6, <2>2 DEF Queue!Finish, Active
  <2> QED
    BY <1>1, <2>3 DEF Queue!Next
<1>8. CASE lld_process_next_request(w, q, v)
  <2>1. PICK g \in Hosts : q[g] > 0 /\ worker_rule' = [worker_rule EXCEPT ![w] = g]
    <3> HIDE DEF v
    <3> QED
      BY <1>8, NextRequestEffect
  <2>2. \A u \in Workers : worker_rule'[u] = IF u = w THEN g ELSE worker_rule[u]
    BY <2>1 DEF IInv, TypeOK
  <2>3. Active' = (Active \ {h}) \cup {g}
    BY <1>1, <2>2, LldAssumption DEF Active, Held, IInv, RuleOwnedOnce
  <2>4. g \notin Active \ {h} /\ v[g] # <<>>
    <3> HIDE DEF v
    <3>1. CASE g = h
      BY <1>1, <1>4, <2>1, <3>1
    <3>2. CASE g # h
      <4>1. v[g] = values[g] /\ q[g] = rule_queue[g]
        BY <1>3, <1>4, <3>2
      <4>2. g \in rule_index /\ ~Held(g)
        BY <2>1, <4>1 DEF IInv, RuleOwnedOnce
      <4>3. values[g] # <<>>
        BY <4>2 DEF IInv, RuleOwnedOnce
      <4> QED
        BY <4>1, <4>2, <4>3 DEF Active
    <3> QED
      BY <3>1, <3>2
  <2>5. Queue!Finish(h)
    BY <1>2, <1>6, <2>3, <2>4 DEF Queue!Finish, Active
  <2> QED
    BY <1>1, <2>5 DEF Queue!Next
<1> QED
  BY <1>5, <1>7, <1>8

(* The detailed manager implements the abstract one: discovery values of a *)
(* host are processed one at a time, in the order in which they were       *)
(* queued, none lost and none twice.                                       *)
THEOREM LldManagerRefinesQueue == Spec => ImplementsQueue
<1>1. Init => Queue!Init
  BY LldAssumption DEF Init, Queue!Init, Held
<1>2. IInv /\ [Next]_vars => [Queue!Next]_(Queue!vars)
  <2> SUFFICES ASSUME IInv, [Next]_vars PROVE [Queue!Next]_(Queue!vars)
    OBVIOUS
  <2>1. ASSUME NEW c \in Clients, lld_register_worker(c) PROVE UNCHANGED <<values, worker_rule>>
    BY <2>1 DEF lld_register_worker, mvars
  <2>2. ASSUME NEW c \in Clients, worker_register(c) PROVE UNCHANGED <<values, worker_rule>>
    BY <2>2 DEF worker_register, mvars
  <2>3. ASSUME NEW w \in Workers, worker_read_task(w) PROVE UNCHANGED <<values, worker_rule>>
    BY <2>3 DEF worker_read_task, mvars
  <2>4. ASSUME NEW w \in Workers, NEW state \in States, NEW found \in BOOLEAN,
               lld_process_task(w, state, found)
        PROVE  UNCHANGED <<values, worker_rule>>
    BY <2>4 DEF lld_process_task, mvars
  <2>5. CASE UNCHANGED vars
    BY <2>5, StutterQueue DEF vars, mvars
  <2> QED
    BY <2>1, <2>2, <2>3, <2>4, <2>5, StutterQueue, RequestQueue, ProcessQueueQueue, ResultQueue
    DEF Next, Manager, Worker, Clients
<1> QED
  BY LldInvariant, <1>1, <1>2, PTL DEF Spec, ImplementsQueue, Queue!Spec
-------------------------------------------------------------------------------
(* What the workers do with the values: the item state a worker read is    *)
(* current when it stores a new one, and the suppression of repeated       *)
(* values never loses the latest one.  Both rest on IInv and on            *)
(* ValuesOfHost, and the second on DoneProcessed.                          *)

(* A rule's list holds only values of discovery rules of its host. *)
ValuesOfHost ==
    \A h \in Hosts : \A k \in 1..Len(values[h]) : HostOf[values[h][k].itemid] = h

(* While a worker's DONE is under way, the head of its rule is the last    *)
(* value processed of its item.                                            *)
DoneProcessed ==
    \A w \in Workers :
        outbox[w] = <<"DONE">> =>
            LET d == Head(values[worker_rule[w]]) IN lastProcessed[d.itemid] = d.value

-------------------------------------------------------------------------------
(* What a step does to the lists: nothing, a value is appended to the list *)
(* of its host, or the head of the rule of a worker is removed.            *)
LEMMA ListEffect ==
    ASSUME IInv, [Next]_vars
    PROVE  \/ UNCHANGED values
           \/ \E d \in Data :
                 /\ lld_queue_request(d)
                 /\ values' = [values EXCEPT ![HostOf[d.itemid]] = Append(@, d)]
           \/ \E w \in Workers :
                 /\ LLD_DONE(w)
                 /\ values' = [values EXCEPT ![worker_rule[w]] = Tail(@)]
<1>1. ASSUME NEW c \in Clients, lld_register_worker(c) PROVE UNCHANGED values
  BY <1>1 DEF lld_register_worker, mvars
<1>2. ASSUME NEW c \in Clients, worker_register(c) PROVE UNCHANGED values
  BY <1>2 DEF worker_register, mvars
<1>3. ASSUME NEW w \in Workers, worker_read_task(w) PROVE UNCHANGED values
  BY <1>3 DEF worker_read_task, mvars
<1>4. ASSUME NEW w \in Workers, NEW state \in States, NEW found \in BOOLEAN,
             lld_process_task(w, state, found)
      PROVE  UNCHANGED values
  BY <1>4 DEF lld_process_task, mvars
<1>5. CASE UNCHANGED vars
  BY <1>5 DEF vars, mvars
<1>6. CASE lld_process_queue
  BY <1>6 DEF lld_process_queue
<1>7. ASSUME NEW w \in Workers, LLD_DONE(w)
      PROVE  values' = [values EXCEPT ![worker_rule[w]] = Tail(@)]
  <2>1. w \in workers_client
    BY <1>7, ResultFacts
  <2> QED
    BY <1>7, <2>1 DEF LLD_DONE, lld_process_result
<1>8. ASSUME NEW d \in Data, lld_queue_request(d)
      PROVE  UNCHANGED values \/ values' = [values EXCEPT ![HostOf[d.itemid]] = Append(@, d)]
  <2> DEFINE h == HostOf[d.itemid]
  <2>0. h \in Hosts
    BY LldAssumption DEF Data
  <2>1. CASE h \notin rule_index /\ values' = [values EXCEPT ![h] = <<d>>]
    <3>1. values[h] = <<>>
      BY <2>0, <2>1 DEF IInv, RuleOwnedOnce
    <3>2. Append(values[h], d) = <<d>>
      BY <3>1
    <3> QED
      BY <2>1, <3>2
  <2> QED
    BY <1>8, <2>1 DEF lld_queue_request, AppendData
<1> QED
  BY <1>1, <1>2, <1>3, <1>4, <1>5, <1>6, <1>7, <1>8 DEF Next, Manager, Worker, Clients

(* The elements of a list with a value appended. *)
LEMMA AppendElements ==
    ASSUME NEW list \in Seq(Data), NEW d \in Data
    PROVE  /\ Len(Append(list, d)) = Len(list) + 1
           /\ Append(list, d)[Len(list) + 1] = d
           /\ \A k \in 1..Len(list) : Append(list, d)[k] = list[k]
BY AppendProperties

(* A list without its head. *)
LEMMA TailElements ==
    ASSUME NEW list \in Seq(Data), list # <<>>
    PROVE  /\ Len(list) \in Nat /\ Len(list) > 0 /\ Head(list) = list[1]
           /\ Len(Tail(list)) = Len(list) - 1
           /\ \A k \in 1..Len(list) - 1 : Tail(list)[k] = list[k + 1]
BY HeadTailProperties

(* Initially the lists are empty. *)
LEMMA InitValuesOfHost == Init => ValuesOfHost
BY DEF Init, ValuesOfHost

(* lld_queue_request looks the rule up by the host of the item. *)
LEMMA NextValuesOfHost == IInv /\ ValuesOfHost /\ [Next]_vars => ValuesOfHost'
<1> SUFFICES ASSUME IInv, ValuesOfHost, [Next]_vars PROVE ValuesOfHost'
  OBVIOUS
<1>0. values \in [Hosts -> Seq(Data)]
  BY DEF IInv, TypeOK
<1>1. CASE UNCHANGED values
  BY <1>1 DEF ValuesOfHost
<1>2. ASSUME NEW d \in Data, values' = [values EXCEPT ![HostOf[d.itemid]] = Append(@, d)]
      PROVE  ValuesOfHost'
  <2> DEFINE h == HostOf[d.itemid]
             list == values[h]
  <2>1. h \in Hosts /\ list \in Seq(Data)
    BY <1>0, LldAssumption DEF Data
  <2>2. \A g \in Hosts : values'[g] = IF g = h THEN Append(list, d) ELSE values[g]
    BY <1>0, <1>2
  <2>3. \A k \in 1..Len(Append(list, d)) : HostOf[Append(list, d)[k].itemid] = h
    <3> HIDE DEF list
    <3>1. \A k \in 1..Len(list) : HostOf[list[k].itemid] = h
      BY <2>1 DEF ValuesOfHost, list
    <3> QED
      BY <2>1, <3>1, AppendElements
  <2> QED
    BY <2>2, <2>3 DEF ValuesOfHost
<1>3. ASSUME NEW w \in Workers, LLD_DONE(w), values' = [values EXCEPT ![worker_rule[w]] = Tail(@)]
      PROVE  ValuesOfHost'
  <2> DEFINE h == worker_rule[w]
             list == values[h]
  <2>1. h \in Hosts /\ list \in Seq(Data) /\ list # <<>>
    BY <1>3, ResultFacts
  <2>2. \A g \in Hosts : values'[g] = IF g = h THEN Tail(list) ELSE values[g]
    BY <1>0, <1>3
  <2>3. \A k \in 1..Len(Tail(list)) : HostOf[Tail(list)[k].itemid] = h
    <3> HIDE DEF list
    <3>1. \A k \in 1..Len(list) : HostOf[list[k].itemid] = h
      BY <2>1 DEF ValuesOfHost, list
    <3> QED
      BY <2>1, <3>1, TailElements
  <2> QED
    BY <2>2, <2>3 DEF ValuesOfHost
<1> QED
  BY <1>1, <1>2, <1>3, ListEffect

(* The item whose value a worker processes belongs to the host whose rule  *)
(* the worker holds, and so no other worker processes a value of it.       *)
LEMMA TaskFacts ==
    ASSUME IInv, ValuesOfHost, NEW w \in Workers, wpc[w] = "task"
    PROVE  /\ task[w] \in Data /\ task[w].itemid \in Items
           /\ worker_rule[w] \in Hosts /\ worker_rule[w] # None
           /\ values[worker_rule[w]] \in Seq(Data) /\ values[worker_rule[w]] # <<>>
           /\ task[w] = Head(values[worker_rule[w]])
           /\ HostOf[task[w].itemid] = worker_rule[w]
           /\ outbox[w] = <<>>
<1> DEFINE h == worker_rule[w]
<1>1. h # None /\ task[w] = Head(values[h]) /\ outbox[w] = <<>>
  BY DEF IInv, WorkersInStep, InFlight
<1>2. h \in Hosts /\ Held(h)
  BY <1>1 DEF IInv, TypeOK, Held
<1>3. values[h] # <<>> /\ values[h] \in Seq(Data)
  BY <1>2 DEF IInv, RuleOwnedOnce, TypeOK
<1>4. values[h][1] = Head(values[h]) /\ 1 \in 1..Len(values[h]) /\ Head(values[h]) \in Data
  BY <1>3, HeadTailProperties
<1>5. HostOf[task[w].itemid] = h
  BY <1>1, <1>2, <1>4 DEF ValuesOfHost
<1>6. task[w].itemid \in Items
  BY <1>1, <1>4 DEF Data
<1> QED
  BY <1>1, <1>2, <1>3, <1>4, <1>5, <1>6

-------------------------------------------------------------------------------
(* Only a worker's own step changes the state of the item it processes. *)
LEMMA NextStateNotStale ==
    IInv /\ ValuesOfHost /\ StateNotStale /\ [Next]_vars => StateNotStale'
<1> SUFFICES ASSUME IInv, ValuesOfHost, StateNotStale, [Next]_vars PROVE StateNotStale'
  OBVIOUS
<1>1. CASE UNCHANGED wvars
  BY <1>1 DEF StateNotStale, wvars
<1>2. ASSUME NEW c \in Clients, worker_register(c) PROVE StateNotStale'
  <2>1. wpc' = [wpc EXCEPT ![c] = "idle"] /\ UNCHANGED <<task, seen, item_state>>
    BY <1>2 DEF worker_register
  <2>2. \A w \in Workers : wpc'[w] = "task" => wpc[w] = "task"
    BY <2>1 DEF IInv, TypeOK, Clients
  <2> QED
    BY <2>1, <2>2 DEF StateNotStale
<1>3. ASSUME NEW w \in Workers, worker_read_task(w) PROVE StateNotStale'
  <2>1. /\ task' = [task EXCEPT ![w] = Head(inbox[w])]
        /\ seen' = [seen EXCEPT ![w] = item_state[Head(inbox[w]).itemid]]
        /\ wpc' = [wpc EXCEPT ![w] = "task"]
        /\ UNCHANGED item_state
    BY <1>3 DEF worker_read_task
  <2>2. seen'[w] = item_state'[task'[w].itemid]
    BY <2>1 DEF IInv, TypeOK
  <2>3. \A u \in Workers : u # w => wpc'[u] = wpc[u] /\ task'[u] = task[u] /\ seen'[u] = seen[u]
    BY <2>1 DEF IInv, TypeOK, Clients
  <2> QED
    BY <2>1, <2>2, <2>3 DEF StateNotStale
<1>4. ASSUME NEW w \in Workers, NEW state \in States, NEW found \in BOOLEAN,
             lld_process_task(w, state, found)
      PROVE  StateNotStale'
  <2>1. /\ wpc[w] = "task"
        /\ wpc' = [wpc EXCEPT ![w] = "idle"]
        /\ task' = [task EXCEPT ![w] = None]
        /\ UNCHANGED seen
        /\ \/ UNCHANGED item_state
           \/ item_state' = [item_state EXCEPT ![task[w].itemid] = state]
    BY <1>4 DEF lld_process_task
  <2>2. wpc'[w] = "idle"
    BY <2>1 DEF IInv, TypeOK, Clients
  <2>3. ASSUME NEW u \in Workers, u # w, wpc'[u] = "task"
        PROVE  seen'[u] = item_state'[task'[u].itemid]
    <3>1. wpc[u] = "task" /\ task'[u] = task[u]
      BY <2>1, <2>3 DEF IInv, TypeOK, Clients
    <3>2. task[u].itemid \in Items /\ task[w].itemid \in Items /\ task[u].itemid # task[w].itemid
      <4>1. worker_rule[u] # worker_rule[w]
        BY <2>1, <2>3, <3>1, TaskFacts DEF IInv, RuleOwnedOnce
      <4> QED
        BY <2>1, <3>1, <4>1, TaskFacts
    <3>3. item_state'[task[u].itemid] = item_state[task[u].itemid]
      BY <2>1, <3>2 DEF IInv, TypeOK
    <3> QED
      BY <2>1, <3>1, <3>3 DEF StateNotStale
  <2> QED
    BY <2>2, <2>3 DEF StateNotStale
<1>5. ASSUME NEW c \in Clients, lld_register_worker(c) PROVE UNCHANGED wvars
  BY <1>5 DEF lld_register_worker
<1>6. CASE lld_process_queue
  BY <1>1, <1>6 DEF lld_process_queue
<1>7. ASSUME NEW w \in Workers, LLD_DONE(w) PROVE UNCHANGED wvars
  BY <1>7 DEF LLD_DONE, lld_process_result
<1>8. ASSUME NEW d \in Data, lld_queue_request(d) PROVE UNCHANGED wvars
  BY <1>8 DEF lld_queue_request
<1>9. CASE UNCHANGED vars
  BY <1>1, <1>9 DEF vars
<1> QED
  BY <1>1, <1>2, <1>3, <1>4, <1>5, <1>6, <1>7, <1>8, <1>9 DEF Next, Manager, Worker, Clients

(* The state of a discovery rule that a worker read before it processed a  *)
(* value is still current when it stores the outcome, although nothing is  *)
(* locked in between and other workers store theirs: values of one host    *)
(* are processed one at a time.                                            *)
THEOREM LldStateNotStale == Spec => []StateNotStale
<1>1. Init => StateNotStale
  BY DEF Init, StateNotStale, Clients
<1> QED
  BY <1>1, LldInvariant, InitValuesOfHost, NextValuesOfHost, NextStateNotStale, PTL DEF Spec

-------------------------------------------------------------------------------
(* The latest value of item i, received as r and processed as p, in a      *)
(* list: the last of its values in the list, or p when there is none.      *)
Kept(list, i, r, p) ==
    /\ (\A k \in 1..Len(list) : list[k].itemid # i) => r = p
    /\ \A k \in 1..Len(list) :
          list[k].itemid = i /\ (\A j \in k+1..Len(list) : list[j].itemid # i)
             => list[k].value = r

(* The same said with the set of the positions of the item's values. *)
LEMMA KeptForm ==
    ASSUME NEW list \in Seq(Data), NEW i, NEW r, NEW p
    PROVE  LET mine == {k \in 1..Len(list) : list[k].itemid = i}
           IN  (IF mine = {} THEN r = p
                ELSE \A k \in mine : (\A j \in mine : j <= k) => list[k].value = r)
               <=> Kept(list, i, r, p)
<1> DEFINE mine == {k \in 1..Len(list) : list[k].itemid = i}
<1>1. Len(list) \in Nat
  OBVIOUS
<1>2. mine = {} <=> \A k \in 1..Len(list) : list[k].itemid # i
  OBVIOUS
<1>3. \A k \in mine : (\A j \in mine : j <= k)
                         <=> \A j \in k+1..Len(list) : list[j].itemid # i
  BY <1>1
<1> QED
  BY <1>2, <1>3 DEF Kept

(* LatestValueKept in these terms, before a step and ... *)
LEMMA LatestValueKeptForm ==
    ASSUME values \in [Hosts -> Seq(Data)]
    PROVE  LatestValueKept <=>
              \A i \in Items : Kept(values[HostOf[i]], i, lastReceived[i], lastProcessed[i])
<1> DEFINE Mine(i) == {k \in 1..Len(values[HostOf[i]]) : values[HostOf[i]][k].itemid = i}
           L(i) == IF Mine(i) = {} THEN lastReceived[i] = lastProcessed[i]
                   ELSE \A k \in Mine(i) : (\A j \in Mine(i) : j <= k)
                           => values[HostOf[i]][k].value = lastReceived[i]
<1>1. ASSUME NEW i \in Items
      PROVE  L(i) <=> Kept(values[HostOf[i]], i, lastReceived[i], lastProcessed[i])
  <2>1. values[HostOf[i]] \in Seq(Data)
    BY LldAssumption
  <2> QED
    BY <2>1, KeptForm, Zenon
<1>2. LatestValueKept <=> \A i \in Items : L(i)
  BY Zenon DEF LatestValueKept
<1> HIDE DEF L
<1> QED
  BY <1>1, <1>2, Zenon

(* ... after it. *)
LEMMA LatestValueKeptNextForm ==
    ASSUME values' \in [Hosts -> Seq(Data)]
    PROVE  LatestValueKept' <=>
              \A i \in Items : Kept(values'[HostOf[i]], i, lastReceived'[i], lastProcessed'[i])
<1> DEFINE Mine(i) == {k \in 1..Len(values'[HostOf[i]]) : values'[HostOf[i]][k].itemid = i}
           L(i) == IF Mine(i) = {} THEN lastReceived'[i] = lastProcessed'[i]
                   ELSE \A k \in Mine(i) : (\A j \in Mine(i) : j <= k)
                           => values'[HostOf[i]][k].value = lastReceived'[i]
<1>1. ASSUME NEW i \in Items
      PROVE  L(i) <=> Kept(values'[HostOf[i]], i, lastReceived'[i], lastProcessed'[i])
  <2>1. values'[HostOf[i]] \in Seq(Data)
    BY LldAssumption
  <2> QED
    BY <2>1, KeptForm, Zenon
<1>2. LatestValueKept' <=> \A i \in Items : L(i)
  BY Zenon DEF LatestValueKept
<1> HIDE DEF L
<1> QED
  BY <1>1, <1>2, Zenon

(* A value that is appended becomes the latest of its item. *)
LEMMA KeptAppend ==
    ASSUME NEW list \in Seq(Data), NEW d \in Data, NEW i, NEW r, NEW p, Kept(list, i, r, p)
    PROVE  Kept(Append(list, d), i, IF i = d.itemid THEN d.value ELSE r, p)
<1> DEFINE n == Len(list)
           longer == Append(list, d)
<1>1. /\ n \in Nat /\ Len(longer) = n + 1 /\ longer[n + 1] = d
      /\ \A k \in 1..n : longer[k] = list[k]
  BY AppendElements
<1> HIDE DEF longer, n
<1>2. \A k \in 1..n + 1 : k \in 1..n \/ k = n + 1
  BY <1>1
<1>3. \A k \in 1..n : n + 1 \in k+1..n + 1 /\ \A j \in k+1..n : j \in k+1..n + 1
  BY <1>1
<1>4. n + 1 \in 1..n + 1 /\ \A k \in 1..n : k \in 1..n + 1
  BY <1>1
<1>5. CASE i = d.itemid
  BY <1>1, <1>2, <1>3, <1>4, <1>5 DEF Kept
<1>6. CASE i # d.itemid
  <2>1. \A k \in 1..n : \A j \in k+1..n : j \in 1..n
    BY <1>1
  <2>2. Kept(longer, i, r, p)
    BY <1>1, <1>2, <1>3, <1>4, <1>6, <2>1 DEF Kept, n
  <2> QED
    BY <1>6, <2>2 DEF longer
<1> QED
  BY <1>5, <1>6 DEF longer

(* A head that was processed may be removed. *)
LEMMA KeptTail ==
    ASSUME NEW list \in Seq(Data), list # <<>>, NEW i, NEW r, NEW p, Kept(list, i, r, p),
           Head(list).itemid = i => Head(list).value = p
    PROVE  Kept(Tail(list), i, r, p)
<1> DEFINE n == Len(list) - 1
           shorter == Tail(list)
<1>1. /\ n \in Nat /\ Len(list) = n + 1 /\ Len(shorter) = n /\ Head(list) = list[1]
      /\ \A k \in 1..n : shorter[k] = list[k + 1]
  BY TailElements
<1> HIDE DEF shorter, n
<1>2. \A k \in 2..n + 1 : k - 1 \in 1..n /\ shorter[k - 1] = list[k]
  BY <1>1
<1>3. ASSUME \A k \in 1..n : shorter[k].itemid # i PROVE r = p
  <2>1. \A k \in 2..n + 1 : list[k].itemid # i
    BY <1>2, <1>3
  <2>2. \A k \in 1..n + 1 : k = 1 \/ k \in 2..n + 1
    BY <1>1
  <2>3. CASE list[1].itemid = i
    <3>1. 1 \in 1..n + 1 /\ 1 + 1 = 2
      BY <1>1
    <3> QED
      BY <1>1, <2>1, <2>3, <3>1 DEF Kept
  <2>4. CASE list[1].itemid # i
    BY <1>1, <2>1, <2>2, <2>4 DEF Kept
  <2> QED
    BY <2>3, <2>4
<1>4. ASSUME NEW k \in 1..n, shorter[k].itemid = i, \A j \in k+1..n : shorter[j].itemid # i
      PROVE  shorter[k].value = r
  <2>1. k + 1 \in 1..n + 1 /\ list[k + 1].itemid = i
    BY <1>1, <1>4
  <2>2. \A j \in k+1+1..n+1 : j - 1 \in k+1..n /\ j \in 2..n+1
    BY <1>1
  <2>3. \A j \in k+1+1..n+1 : list[j].itemid # i
    BY <1>2, <1>4, <2>2
  <2> QED
    BY <1>1, <2>1, <2>3 DEF Kept
<1> QED
  BY <1>1, <1>3, <1>4 DEF Kept, shorter

(* While something of item i is in the list, what was processed does not   *)
(* matter.                                                                 *)
LEMMA KeptProcessed ==
    ASSUME NEW list \in Seq(Data), list # <<>>, NEW i, NEW r, NEW p, NEW q, Kept(list, i, r, p),
           Head(list).itemid = i
    PROVE  Kept(list, i, r, q)
<1>1. 1 \in 1..Len(list) /\ list[1].itemid = i
  BY TailElements
<1> QED
  BY <1>1 DEF Kept

(* The repetition test finds the latest value of the item. *)
LEMMA KeptRepeats ==
    ASSUME NEW d \in Data, Repeats(HostOf[d.itemid], d), NEW r, NEW p,
           Kept(values[HostOf[d.itemid]], d.itemid, r, p)
    PROVE  r = d.value
BY DEF Kept, Repeats

-------------------------------------------------------------------------------
(* A worker with a DONE under way has a rule with values. *)
LEMMA DoneFacts ==
    ASSUME IInv, ValuesOfHost, NEW w \in Workers, outbox[w] = <<"DONE">>
    PROVE  LET h == worker_rule[w] IN
           /\ h \in Hosts /\ h # None
           /\ values[h] \in Seq(Data) /\ values[h] # <<>>
           /\ Head(values[h]).itemid \in Items /\ HostOf[Head(values[h]).itemid] = h
<1> DEFINE h == worker_rule[w]
<1>1. h # None
  <2>1. outbox[w] # <<>> /\ outbox[w] # <<"REGISTER">>
    OBVIOUS
  <2> QED
    BY <2>1 DEF IInv, WorkersInStep, InFlight
<1>2. h \in Hosts /\ Held(h)
  BY <1>1 DEF IInv, TypeOK, Held
<1>3. values[h] # <<>> /\ values[h] \in Seq(Data)
  BY <1>2 DEF IInv, RuleOwnedOnce, TypeOK
<1>4. values[h][1] = Head(values[h]) /\ 1 \in 1..Len(values[h]) /\ Head(values[h]) \in Data
  BY <1>3, HeadTailProperties
<1>5. HostOf[Head(values[h]).itemid] = h
  BY <1>2, <1>4 DEF ValuesOfHost
<1>6. Head(values[h]).itemid \in Items
  BY <1>4 DEF Data
<1> QED
  BY <1>1, <1>2, <1>3, <1>5, <1>6

(* A request keeps the heads of the lists that workers hold. *)
LEMMA RequestDone ==
    ASSUME IInv, ValuesOfHost, DoneProcessed, NEW d \in Data, lld_queue_request(d)
    PROVE  DoneProcessed'
<1>0. UNCHANGED <<worker_rule, outbox, lastProcessed>> /\ [Next]_vars
  BY DEF lld_queue_request, Next
<1>1. values \in [Hosts -> Seq(Data)]
  BY DEF IInv, TypeOK
<1>2. ASSUME NEW h \in Hosts, values[h] # <<>> PROVE Head(values'[h]) = Head(values[h])
  <2>1. CASE h \notin rule_index
    BY <1>2, <2>1 DEF IInv, RuleOwnedOnce
  <2>2. CASE h \in rule_index
    <3>1. values'[h] = values[h] \/ values'[h] = Append(values[h], d)
      BY <1>1, <2>2 DEF lld_queue_request, AppendData
    <3> QED
      BY <1>1, <1>2, <3>1, HeadTailAppend
  <2> QED
    BY <2>1, <2>2
<1> QED
  BY <1>0, <1>2, DoneFacts DEF DoneProcessed

(* A value that is queued is the latest of its item, and one that is       *)
(* dropped repeats the latest.                                             *)
LEMMA RequestLatest ==
    ASSUME IInv, IInv', LatestValueKept, NEW d \in Data, lld_queue_request(d)
    PROVE  LatestValueKept'
<1> DEFINE h == HostOf[d.itemid]
<1>0. d.itemid \in Items /\ h \in Hosts /\ HostOf \in [Items -> Hosts]
  BY LldAssumption DEF Data
<1>1. /\ lastReceived' = [lastReceived EXCEPT ![d.itemid] = d.value]
      /\ UNCHANGED lastProcessed
  BY DEF lld_queue_request
<1>2. /\ values \in [Hosts -> Seq(Data)]
      /\ lastReceived \in [Items -> Values \cup {None}]
  BY DEF IInv, TypeOK
<1>3. \A i \in Items : Kept(values[HostOf[i]], i, lastReceived[i], lastProcessed[i])
  BY <1>2, LatestValueKeptForm
<1> SUFFICES ASSUME NEW i \in Items
             PROVE  Kept(values'[HostOf[i]], i, lastReceived'[i], lastProcessed'[i])
  BY LatestValueKeptNextForm DEF IInv, TypeOK
<1>4. lastReceived'[i] = IF i = d.itemid THEN d.value ELSE lastReceived[i]
  BY <1>0, <1>1, <1>2
<1>5. CASE UNCHANGED values /\ Repeats(h, d)
  <2>1. CASE i = d.itemid
    <3>1. lastReceived[i] = d.value
      BY <1>3, <1>5, <2>1, KeptRepeats
    <3> QED
      BY <1>1, <1>3, <1>4, <1>5, <2>1, <3>1
  <2>2. CASE i # d.itemid
    BY <1>1, <1>3, <1>4, <1>5, <2>2
  <2> QED
    BY <2>1, <2>2
<1>6. CASE values' = [values EXCEPT ![h] = Append(@, d)]
  <2>1. values'[HostOf[i]] = IF HostOf[i] = h THEN Append(values[HostOf[i]], d) ELSE values[HostOf[i]]
    BY <1>0, <1>2, <1>6
  <2>2. CASE HostOf[i] = h
    BY <1>0, <1>1, <1>2, <1>3, <1>4, <2>1, <2>2, KeptAppend
  <2>3. CASE HostOf[i] # h
    BY <1>1, <1>3, <1>4, <2>1, <2>3
  <2> QED
    BY <2>2, <2>3
<1>7. CASE h \notin rule_index /\ values' = [values EXCEPT ![h] = <<d>>]
  <2>1. values[h] = <<>>
    BY <1>0, <1>7 DEF IInv, RuleOwnedOnce
  <2>2. Append(values[h], d) = <<d>>
    BY <2>1
  <2> QED
    BY <1>6, <1>7, <2>2
<1> QED
  BY <1>5, <1>6, <1>7 DEF lld_queue_request, AppendData

(* A result: the head that is removed was processed, and another worker's  *)
(* DONE is about the list of another host.                                 *)
LEMMA ResultLatest ==
    ASSUME IInv, IInv', ValuesOfHost, DoneProcessed, LatestValueKept,
           NEW w \in Workers, LLD_DONE(w)
    PROVE  DoneProcessed' /\ LatestValueKept'
<1> DEFINE h == worker_rule[w]
<1>0. /\ h \in Hosts /\ h # None /\ values[h] \in Seq(Data) /\ values[h] # <<>>
      /\ w \in workers_client /\ outbox[w] = <<"DONE">>
      /\ outbox' = [outbox EXCEPT ![w] = <<>>]
  BY ResultFacts
<1>1. /\ values' = [values EXCEPT ![h] = Tail(@)]
      /\ UNCHANGED <<lastReceived, lastProcessed>>
  BY <1>0 DEF LLD_DONE, lld_process_result, hvars
<1>2. values \in [Hosts -> Seq(Data)] /\ outbox \in [Clients -> Seq({"REGISTER", "DONE"})]
      /\ worker_rule \in [Workers -> Hosts \cup {None}]
  BY DEF IInv, TypeOK
<1>3. \A g \in Hosts : values'[g] = IF g = h THEN Tail(values[h]) ELSE values[g]
  BY <1>0, <1>1, <1>2
<1>4. DoneProcessed'
  <2> SUFFICES ASSUME NEW u \in Workers, outbox'[u] = <<"DONE">>
               PROVE  LET e == Head(values'[worker_rule'[u]]) IN lastProcessed'[e.itemid] = e.value
    BY DEF DoneProcessed
  <2>1. u # w /\ outbox[u] = <<"DONE">>
    <3>1. <<>> # <<"DONE">>
      OBVIOUS
    <3>2. u = w => outbox'[u] = <<>>
      BY <1>0, <1>2 DEF Clients
    <3> QED
      BY <1>0, <1>2, <3>1, <3>2 DEF Clients
  <2>2. worker_rule[u] \in Hosts /\ worker_rule[u] # None
    BY <2>1, DoneFacts
  <2>3. worker_rule[u] # h
    BY <1>0, <2>1, <2>2 DEF IInv, RuleOwnedOnce
  <2>4. worker_rule'[u] = worker_rule[u]
    <3>1. \E x : worker_rule' = [worker_rule EXCEPT ![w] = x]
      BY <1>0 DEF LLD_DONE, lld_process_result, lld_process_next_request
    <3> QED
      BY <1>2, <2>1, <3>1
  <2>5. values'[worker_rule'[u]] = values[worker_rule[u]]
    BY <1>3, <2>2, <2>3, <2>4
  <2>6. LET e == Head(values[worker_rule[u]]) IN lastProcessed[e.itemid] = e.value
    BY <2>1 DEF DoneProcessed
  <2> QED
    BY <1>1, <2>5, <2>6
<1>5. LatestValueKept'
  <2> SUFFICES ASSUME NEW i \in Items
               PROVE  Kept(values'[HostOf[i]], i, lastReceived'[i], lastProcessed'[i])
    BY LatestValueKeptNextForm DEF IInv, TypeOK
  <2>1. Kept(values[HostOf[i]], i, lastReceived[i], lastProcessed[i]) /\ HostOf[i] \in Hosts
    BY <1>2, LatestValueKeptForm, LldAssumption
  <2>2. CASE HostOf[i] = h
    <3>1. Head(values[h]).itemid = i => Head(values[h]).value = lastProcessed[i]
      BY <1>0 DEF DoneProcessed
    <3>2. Kept(Tail(values[h]), i, lastReceived[i], lastProcessed[i])
      BY <1>0, <2>1, <2>2, <3>1, KeptTail
    <3> QED
      BY <1>1, <1>3, <2>1, <2>2, <3>2
  <2>3. CASE HostOf[i] # h
    BY <1>1, <1>3, <2>1, <2>3
  <2> QED
    BY <2>2, <2>3
<1> QED
  BY <1>4, <1>5

(* A worker that ends its task: the value is the head of its rule's list,  *)
(* and it is recorded as the last processed of an item no other worker has.*)
LEMMA ProcessTaskLatest ==
    ASSUME IInv, IInv', ValuesOfHost, DoneProcessed, LatestValueKept,
           NEW w \in Workers, NEW state \in States, NEW found \in BOOLEAN,
           lld_process_task(w, state, found)
    PROVE  DoneProcessed' /\ LatestValueKept'
<1> DEFINE h == worker_rule[w]
           d == task[w]
<1>1. /\ wpc[w] = "task"
      /\ lastProcessed' = [lastProcessed EXCEPT ![d.itemid] = d.value]
      /\ outbox' = [outbox EXCEPT ![w] = Append(@, "DONE")]
      /\ UNCHANGED <<values, worker_rule, lastReceived>>
  BY DEF lld_process_task, mvars
<1>2. /\ d.itemid \in Items /\ h \in Hosts /\ h # None
      /\ values[h] \in Seq(Data) /\ values[h] # <<>>
      /\ d = Head(values[h]) /\ HostOf[d.itemid] = h
  BY <1>1, TaskFacts
<1>3. /\ values \in [Hosts -> Seq(Data)] /\ outbox \in [Clients -> Seq({"REGISTER", "DONE"})]
      /\ lastProcessed \in [Items -> Values \cup {None}]
  BY DEF IInv, TypeOK
<1> HIDE DEF d
<1>4. DoneProcessed'
  <2> SUFFICES ASSUME NEW u \in Workers, outbox'[u] = <<"DONE">>
               PROVE  lastProcessed'[Head(values[worker_rule[u]]).itemid]
                         = Head(values[worker_rule[u]]).value
    BY <1>1 DEF DoneProcessed
  <2>1. CASE u = w
    BY <1>1, <1>2, <1>3, <2>1
  <2>2. CASE u # w
    <3>1. outbox[u] = <<"DONE">>
      BY <1>1, <1>3, <2>2 DEF Clients
    <3> DEFINE e == Head(values[worker_rule[u]])
    <3>2. /\ worker_rule[u] # None /\ e.itemid \in Items /\ HostOf[e.itemid] = worker_rule[u]
          /\ lastProcessed[e.itemid] = e.value
      BY <3>1, DoneFacts DEF DoneProcessed
    <3>3. worker_rule[u] # h
      BY <2>2, <3>2 DEF IInv, RuleOwnedOnce
    <3>4. e.itemid # d.itemid
      BY <1>2, <3>2, <3>3
    <3> QED
      BY <1>1, <1>3, <3>2, <3>4
  <2> QED
    BY <2>1, <2>2
<1>5. LatestValueKept'
  <2> SUFFICES ASSUME NEW i \in Items
               PROVE  Kept(values'[HostOf[i]], i, lastReceived'[i], lastProcessed'[i])
    BY LatestValueKeptNextForm DEF IInv, TypeOK
  <2>1. Kept(values[HostOf[i]], i, lastReceived[i], lastProcessed[i])
    BY <1>3, LatestValueKeptForm
  <2>2. CASE i = d.itemid
    BY <1>1, <1>2, <2>1, <2>2, KeptProcessed
  <2>3. CASE i # d.itemid
    BY <1>1, <1>3, <2>1, <2>3
  <2> QED
    BY <2>2, <2>3
<1> QED
  BY <1>4, <1>5

(* The other steps neither touch a list nor a DONE message. *)
LEMMA OtherLatest ==
    ASSUME DoneProcessed, LatestValueKept,
           UNCHANGED <<values, lastReceived, lastProcessed>>,
           \A w \in Workers : outbox'[w] = <<"DONE">> =>
              outbox[w] = <<"DONE">> /\ worker_rule'[w] = worker_rule[w]
    PROVE  DoneProcessed' /\ LatestValueKept'
<1>1. DoneProcessed'
  BY DEF DoneProcessed
<1>2. LatestValueKept'
  BY DEF LatestValueKept
<1> QED
  BY <1>1, <1>2

(* Every step keeps the latest values. *)
LEMMA NextLatest ==
    IInv /\ IInv' /\ ValuesOfHost /\ DoneProcessed /\ LatestValueKept /\ [Next]_vars
        => DoneProcessed' /\ LatestValueKept'
<1> SUFFICES ASSUME IInv, IInv', ValuesOfHost, DoneProcessed, LatestValueKept, [Next]_vars
             PROVE  DoneProcessed' /\ LatestValueKept'
  OBVIOUS
<1>0. outbox \in [Clients -> Seq({"REGISTER", "DONE"})]
      /\ worker_rule \in [Workers -> Hosts \cup {None}]
  BY DEF IInv, TypeOK
<1>1. ASSUME NEW d \in Data, lld_queue_request(d) PROVE DoneProcessed' /\ LatestValueKept'
  BY <1>1, RequestDone, RequestLatest
<1>2. ASSUME NEW w \in Workers, LLD_DONE(w) PROVE DoneProcessed' /\ LatestValueKept'
  BY <1>2, ResultLatest
<1>3. ASSUME NEW w \in Workers, NEW state \in States, NEW found \in BOOLEAN,
             lld_process_task(w, state, found)
      PROVE  DoneProcessed' /\ LatestValueKept'
  BY <1>3, ProcessTaskLatest
<1>4. ASSUME NEW w \in Workers, worker_read_task(w) PROVE DoneProcessed' /\ LatestValueKept'
  BY <1>4, OtherLatest DEF worker_read_task, mvars, hvars
<1>5. CASE UNCHANGED vars
  BY <1>5, OtherLatest DEF vars, mvars, hvars
<1>6. ASSUME NEW c \in Clients, worker_register(c) PROVE DoneProcessed' /\ LatestValueKept'
  <2>1. /\ UNCHANGED <<values, worker_rule, lastReceived, lastProcessed>> /\ wpc[c] = "start"
        /\ outbox' = [outbox EXCEPT ![c] = Append(@, "REGISTER")]
    BY <1>6 DEF worker_register, mvars, hvars
  <2>2. ASSUME NEW w \in Workers, outbox'[w] = <<"DONE">> PROVE outbox[w] = <<"DONE">>
    <3>1. CASE w = c
      <4>1. outbox[w] = <<>>
        BY <2>1, <3>1 DEF IInv, WorkersInStep, InFlight
      <4>2. outbox'[w] = <<"REGISTER">>
        BY <1>0, <2>1, <3>1, <4>1
      <4> QED
        BY <2>2, <4>2
    <3>2. CASE w # c
      BY <1>0, <2>1, <2>2, <3>2 DEF Clients
    <3> QED
      BY <3>1, <3>2
  <2> QED
    BY <2>1, <2>2, OtherLatest
<1>7. ASSUME NEW c \in Clients, lld_register_worker(c) PROVE DoneProcessed' /\ LatestValueKept'
  <2>1. /\ UNCHANGED <<values, worker_rule, lastReceived, lastProcessed>>
        /\ outbox[c] # <<>> /\ Head(outbox[c]) = "REGISTER"
        /\ outbox' = [outbox EXCEPT ![c] = Tail(@)]
    BY <1>7 DEF lld_register_worker, mvars, hvars
  <2>2. ASSUME NEW w \in Workers, outbox'[w] = <<"DONE">> PROVE outbox[w] = <<"DONE">>
    <3>1. CASE w = c
      <4>1. outbox[w] = <<"REGISTER">> \/ outbox[w] = <<"DONE">>
        BY <2>1, <3>1 DEF IInv, WorkersInStep, InFlight
      <4>2. outbox'[w] = <<>>
        BY <1>0, <2>1, <3>1, <4>1
      <4>3. <<>> # <<"DONE">>
        OBVIOUS
      <4> QED
        BY <2>2, <4>2, <4>3
    <3>2. CASE w # c
      BY <1>0, <2>1, <2>2, <3>2 DEF Clients
    <3> QED
      BY <3>1, <3>2
  <2> QED
    BY <2>1, <2>2, OtherLatest
<1>8. CASE lld_process_queue
  <2>1. UNCHANGED <<values, outbox, lastReceived, lastProcessed>>
    BY <1>8 DEF lld_process_queue, hvars
  <2>2. CASE UNCHANGED worker_rule
    BY <2>1, <2>2, OtherLatest
  <2>3. CASE /\ free_workers # <<>>
             /\ lld_process_next_request(Head(free_workers), rule_queue, values)
    <3> DEFINE f == Head(free_workers)
    <3>1. f \in Workers /\ 1 \in 1..Len(free_workers) /\ free_workers[1] = f
      BY <2>3, HeadTailProperties DEF IInv, TypeOK
    <3>2. worker_rule[f] = None
      BY <3>1 DEF IInv, FreeWorkersExact
    <3>3. PICK h \in Hosts : worker_rule' = [worker_rule EXCEPT ![f] = h]
      BY <2>3, <3>1, NextRequestEffect
    <3>4. \A w \in Workers : outbox[w] = <<"DONE">> => w # f
      BY <3>2, DoneFacts
    <3> QED
      BY <1>0, <2>1, <3>3, <3>4, OtherLatest
  <2> QED
    BY <1>8, <2>2, <2>3 DEF lld_process_queue
<1> QED
  BY <1>1, <1>2, <1>3, <1>4, <1>5, <1>6, <1>7, <1>8 DEF Next, Manager, Worker, Clients

(* The suppression of repeated values never loses the latest one: it is    *)
(* the last queued of its discovery rule or, when nothing is queued, the   *)
(* last processed, whatever the number of workers, hosts and values.       *)
THEOREM LldLatestValueKept == Spec => []LatestValueKept
<1>1. Init => DoneProcessed /\ LatestValueKept
  <2> SUFFICES ASSUME Init PROVE DoneProcessed /\ LatestValueKept
    OBVIOUS
  <2>1. \A w \in Workers : outbox[w] # <<"DONE">>
    BY DEF Init, Clients
  <2>2. \A i \in Items : values[HostOf[i]] = <<>> /\ lastReceived[i] = lastProcessed[i]
    BY LldAssumption DEF Init
  <2> QED
    BY <2>1, <2>2 DEF DoneProcessed, LatestValueKept
<1> QED
  BY <1>1, LldInvariant, InitValuesOfHost, NextValuesOfHost, NextLatest, PTL DEF Spec
===============================================================================
