------------------------ MODULE PreprocManagerProofs -------------------------
(***************************************************************************)
(* The properties of the preprocessing manager, for any items, steps,      *)
(* dependents, workers and values: no value is lost, links are live, the   *)
(* values of an item with change or throttling steps are preprocessed in   *)
(* order, the references and the counters are exact, a dependent value is  *)
(* enqueued next to a node that is still in the queue, and values are      *)
(* flushed in the order of collection.                                     *)
(***************************************************************************)
EXTENDS PreprocInvariantProofs

(* The number of elements of a set with at most one. *)
LEMMA AtMostOne ==
  ASSUME NEW S, \A a, b \in S : a = b
  PROVE  Cardinality(S) = IF S = {} THEN 0 ELSE 1
  <1>1. CASE S = {}
    BY <1>1, FS_EmptySet
  <1>2. CASE S # {}
    <2>1. PICK a : a \in S
      BY <1>2
    <2>2. S = {a}
      BY <2>1
    <2>3. Cardinality({a}) = 1
      BY FS_Singleton
    <2> QED BY <1>2, <2>2, <2>3
  <1> QED BY <1>1, <1>2

(* A value is flushed at one position at most.                             *)
LEMMA FlushedOnce ==
  ASSUME flushed \in Seq(Ids), Injective(flushed), NEW x \in Ids
  PROVE  /\ \A j, k \in FlushedAt(x) : j = k
         /\ FlushedAt(x) # {} <=> In1(flushed, x)
  <1>1. DOMAIN flushed = 1..Len(flushed)
    OBVIOUS
  <1> QED BY <1>1 DEF FlushedAt, In1, Injective

(* A value is at one place of the queue at most, and at one when its       *)
(* request is not free.                                                    *)
LEMMA QueuedOnce ==
  ASSUME TypeInv, QueueInv(queue, req), NEW x \in Ids
  PROVE  /\ \A p, q \in QueuedAt(x) : p = q
         /\ QueuedAt(x) # {} <=> x \in Held(req)
         /\ QueuedAt(x) = {p \in Places(queue, FlushQueues(req)) : At(queue, FlushQueues(req), p) = x}
  <1> DEFINE F == FlushQueues(req)
             P == {p \in Places(queue, F) : At(queue, F, p) = x}
  <1>1. /\ queue \in Seq(Ids) /\ DOMAIN queue = 1..Len(queue) /\ req \in [Ids -> Request]
        /\ F \in Queues /\ \A y \in Ids : F[y] = req[y].flush
    <2>1. queue \in Seq(Ids) /\ req \in [Ids -> Request]
      BY DEF TypeInv
    <2>2. F \in Queues /\ \A y \in Ids : F[y] = req[y].flush
      BY <2>1, FlushQueuesType
    <2> QED BY <2>1, <2>2
  <1> HIDE DEF F
  <1>2. \A k \in 1..Len(queue) : queue[k] \in Ids /\ F[queue[k]] = req[queue[k]].flush /\ Len(F[queue[k]]) \in Nat
    <2>1. ASSUME NEW k \in 1..Len(queue)
          PROVE  queue[k] \in Ids /\ F[queue[k]] = req[queue[k]].flush /\ Len(F[queue[k]]) \in Nat
      <3>1. queue[k] \in Ids
        BY <1>1, ElementOfSeq, Zenon
      <3>2. F[queue[k]] \in Seq(Ids)
        BY <1>1, <3>1 DEF Queues
      <3> QED BY <1>1, <3>1, <3>2
    <2> QED BY <2>1
  <1>3. \A k \in 1..Len(queue) : \A j \in Nat : Place(k, j) = Value(queue, F, k, j)
    BY <1>2 DEF Place, Value
  <1>4. ASSUME NEW p \in QueuedAt(x) PROVE p \in P
    <2>1. PICK k \in 1..Len(queue) : p \in {k} \X {j \in 0..Len(req[queue[k]].flush) : Place(k, j) = x}
      BY <1>1 DEF QueuedAt
    <2>2. PICK j \in 0..Len(req[queue[k]].flush) : p = <<k, j>> /\ Place(k, j) = x
      BY <2>1
    <2>3. j \in Nat /\ j <= Len(F[queue[k]])
      BY <1>2
    <2>4. p \in Places(queue, F)
      BY <2>2, <2>3, PlacesIn
    <2>5. At(queue, F, p) = x
      BY <1>3, <2>2, <2>3 DEF At
    <2> QED BY <2>4, <2>5
  <1>5. ASSUME NEW p \in P PROVE p \in QueuedAt(x)
    <2>1. p[1] \in 1..Len(queue) /\ p[2] \in 0..Len(F[queue[p[1]]]) /\ p = <<p[1], p[2]>>
      BY <1>1, PlacesType
    <2>2. p[2] \in 0..Len(req[queue[p[1]]].flush) /\ p[2] \in Nat
      BY <1>2, <2>1
    <2>3. Place(p[1], p[2]) = x
      BY <1>3, <2>1, <2>2 DEF At
    <2>4. p \in {p[1]} \X {j \in 0..Len(req[queue[p[1]]].flush) : Place(p[1], j) = x}
      BY <2>1, <2>2, <2>3
    <2> QED BY <1>1, <2>1, <2>4 DEF QueuedAt
  <1>6. QueuedAt(x) = P
    BY <1>4, <1>5
  <1>7. \A p, q \in P : p = q
    BY DEF QueueInv, Unique, F
  <1>8. P # {} <=> x \in Held(req)
    BY DEF QueueInv, In, F
  <1> QED BY <1>6, <1>7, <1>8 DEF F

(* A value is about to be enqueued, or cleared, once at most.              *)
LEMMA CalledOnce ==
  ASSUME todo \in Seq(CallRecord), Apart(todo), NEW x \in Ids, NEW op \in {"enqueue", "clear"}
  PROVE  /\ \A j, k \in CalledAt(op, x) : j = k
         /\ CalledAt(op, x) # {} <=> x \in CallsIn(todo, op)
  <1>1. DOMAIN todo = 1..Len(todo)
    OBVIOUS
  <1> QED BY <1>1 DEF CalledAt, CallsIn, Apart, Conflict

(* A value is counted once because it is at one place.                     *)
LEMMA NothingLostHolds == IInv => NothingLost
  <1> SUFFICES ASSUME IInv, NEW x \in Ids
               PROVE  Cardinality(FlushedAt(x)) + Cardinality(QueuedAt(x)) + Cardinality(CalledAt("enqueue", x))
                        = IF req[x].res # None THEN 1 ELSE 0
    BY DEF NothingLost
  <1>1. /\ TypeInv /\ QueueInv(queue, req) /\ ValueInv(req, flushed, todo, received) /\ Apart(todo)
        /\ flushed \in Seq(Ids) /\ todo \in Seq(CallRecord) /\ Injective(flushed)
    BY DEF IInv, CallInv, TypeInv, ValueInv
  <1>2. Cardinality(FlushedAt(x)) = IF In1(flushed, x) THEN 1 ELSE 0
    BY <1>1, FlushedOnce, AtMostOne
  <1>3. Cardinality(QueuedAt(x)) = IF x \in Held(req) THEN 1 ELSE 0
    BY <1>1, QueuedOnce, AtMostOne
  <1>4. Cardinality(CalledAt("enqueue", x)) = IF x \in CallsIn(todo, "enqueue") THEN 1 ELSE 0
    BY <1>1, CalledOnce, AtMostOne
  <1>5. /\ In1(flushed, x) => x \in Known(req) /\ x \notin Held(req)
        /\ x \in CallsIn(todo, "enqueue") => x \in Known(req) /\ x \notin Held(req) /\ ~In1(flushed, x)
        /\ x \in Known(req) => x \in Held(req) \/ In1(flushed, x) \/ x \in CallsIn(todo, "enqueue")
        /\ x \notin Known(req) => x \notin Held(req)
    BY <1>1 DEF ValueInv, Held
  <1>6. x \in Known(req) <=> req[x].res # None
    BY DEF Known
  <1> QED BY <1>2, <1>3, <1>4, <1>5, <1>6

(* The requests of the nodes of the queue are distinct and not free.       *)
LEMMA NodeFacts ==
  ASSUME TypeInv, QueueInv(queue, req)
  PROVE  /\ DOMAIN queue = 1..Len(queue)
         /\ \A k \in 1..Len(queue) : queue[k] \in Ids /\ queue[k] \in Held(req)
         /\ \A j, k \in 1..Len(queue) : queue[j] = queue[k] => j = k
  <1> DEFINE F == FlushQueues(req)
  <1>1. queue \in Seq(Ids) /\ F \in Queues
    BY FlushQueuesType DEF TypeInv
  <1>2. DOMAIN queue = 1..Len(queue)
    BY <1>1
  <1> HIDE DEF F
  <1>3. ASSUME NEW k \in 1..Len(queue)
        PROVE  queue[k] \in Ids /\ <<k, 0>> \in Places(queue, F) /\ At(queue, F, <<k, 0>>) = queue[k]
    <2>1. queue[k] \in Ids
      BY <1>1, ElementOfSeq, Zenon
    <2>2. F[queue[k]] \in Seq(Ids)
      BY <1>1, <2>1 DEF Queues
    <2>3. 0 \in Nat /\ 0 <= Len(F[queue[k]])
      BY <2>2
    <2> QED BY <2>1, <2>3, PlacesIn DEF At, Value
  <1>4. \A k \in 1..Len(queue) : queue[k] \in Held(req)
    BY <1>3 DEF QueueInv, In, F
  <1>5. ASSUME NEW j \in 1..Len(queue), NEW k \in 1..Len(queue), queue[j] = queue[k] PROVE j = k
    <2>1. <<j, 0>> = <<k, 0>>
      BY <1>3, <1>5 DEF QueueInv, Unique, F
    <2> QED BY <2>1
  <1> QED BY <1>2, <1>3, <1>4, <1>5

(* The chain of an item says who wakes up a pending request.               *)
LEMMA LinksLiveHolds == IInv => LinksLive
  <1> SUFFICES ASSUME IInv PROVE LinksLive
    OBVIOUS
  <1>1. /\ TypeInv /\ QueueInv(queue, req) /\ ChainInv(req, linked_items, todo)
        /\ DOMAIN queue = 1..Len(queue)
        /\ \A k \in 1..Len(queue) : queue[k] \in Ids /\ queue[k] \in Held(req)
        /\ \A j, k \in 1..Len(queue) : queue[j] = queue[k] => j = k
        /\ \A x \in Unfinished(req) : In1(queue, x)
    BY NodeFacts DEF IInv, QueueInv
  <1>2. ASSUME NEW x \in Ids, req[x].state = "PENDING"
        PROVE  Cardinality({k \in DOMAIN queue : req[queue[k]].pending = x /\ req[queue[k]].state # "DONE"}) = 1
    <2> DEFINE S == {k \in DOMAIN queue : req[queue[k]].pending = x /\ req[queue[k]].state # "DONE"}
    <2>1. x \in Unfinished(req) /\ x # None /\ ItemOf(x) \in Items
      BY <1>2, IdTypes DEF Unfinished
    <2>2. Steps[ItemOf(x)] = "linked"
      BY <1>1, <1>2, <2>1 DEF ChainInv
    <2>3. PICK c \in Seq(Ids) : Chain(ItemOf(x), c, req, linked_items)
      BY <1>1, <2>1, <2>2 DEF ChainInv
    <2>4. Len(c) \in Nat /\ \A k \in 1..Len(c) : c[k] \in Ids /\ c[k] \in Unfinished(req)
      BY <2>3, ChainElement
    <2>5. PICK m \in 1..Len(c) : c[m] = x
      BY <2>1, <2>3 DEF Chain, In1
    <2>6. m > 1
      BY <1>2, <2>3, <2>5 DEF Chain
    <2>7. m - 1 \in 1..Len(c) /\ m - 1 < Len(c) /\ (m - 1) + 1 = m
      BY <2>4, <2>6
    <2>8. c[m - 1] \in Unfinished(req) /\ req[c[m - 1]].pending = x
      <3>1. req[c[m - 1]].pending = IF m - 1 < Len(c) THEN c[(m - 1) + 1] ELSE None
        BY <2>3, <2>7 DEF Chain
      <3> QED BY <2>4, <2>5, <2>7, <3>1
    <2>9. PICK k \in 1..Len(queue) : queue[k] = c[m - 1]
      BY <1>1, <2>8 DEF In1
    <2>10. k \in S
      BY <1>1, <2>8, <2>9 DEF Unfinished
    <2>11. ASSUME NEW j \in S PROVE j = k
      <3>1. j \in 1..Len(queue) /\ queue[j] \in Unfinished(req) /\ req[queue[j]].pending = x
        <4>1. j \in 1..Len(queue) /\ queue[j] \in Held(req) /\ queue[j] \in Ids /\ req[queue[j]].pending = x /\ req[queue[j]].state # "DONE"
          BY <1>1
        <4>2. req[queue[j]].state \in {"FREE", "QUEUED", "PROCESSING", "DONE", "PENDING"}
          BY <4>1 DEF TypeInv, IInv, Request
        <4> QED BY <4>1, <4>2 DEF Held, Unfinished
      <3>2. ItemOf(queue[j]) = ItemOf(x)
        BY <1>1, <2>1, <3>1, LinkFacts
      <3>3. PICK n \in 1..Len(c) : c[n] = queue[j]
        BY <1>1, <2>3, <3>1, <3>2 DEF Chain, In1
      <3>4. req[c[n]].pending = IF n < Len(c) THEN c[n + 1] ELSE None
        BY <2>3 DEF Chain
      <3>5. n < Len(c) /\ c[n + 1] = x
        BY <2>1, <3>1, <3>3, <3>4
      <3>6. n + 1 \in 1..Len(c)
        BY <2>4, <3>5
      <3>7. n + 1 = m
        BY <2>3, <2>5, <3>5, <3>6 DEF Chain, Injective
      <3>8. n = m - 1
        BY <3>7
      <3> QED BY <1>1, <2>9, <3>1, <3>3, <3>8
    <2> HIDE DEF S
    <2>12. Cardinality(S) = IF S = {} THEN 0 ELSE 1
      BY <2>11, AtMostOne
    <2> QED BY <2>10, <2>12 DEF S
  <1>3. ASSUME NEW i \in Items, linked_items[i] # None
        PROVE  Contains(queue, linked_items[i]) /\ req[linked_items[i]].state # "DONE"
    <2>1. linked_items[i] \in Unfinished(req)
      BY <1>1, <1>3, LinkFacts
    <2> QED BY <1>1, <2>1 DEF Contains, In1, Unfinished
  <1> QED BY <1>2, <1>3 DEF LinksLive

(* No value is lost or flushed twice, however the recursive calls of       *)
(* preprocessor_enqueue, preprocessor_set_request_state_done and           *)
(* preprocessing_flush_queue follow one another.                           *)
THEOREM PreprocNothingLost == Spec => []NothingLost
  BY PreprocInvariant, NothingLostHolds, PTL

(* A pending request is woken up by exactly one request that is still to   *)
(* be done, and linked_items never refers to a request that is done        *)
(* (preprocessor_link_items, preprocessor_set_request_state_done).         *)
THEOREM PreprocLinksLive == Spec => []LinksLive
  BY PreprocInvariant, LinksLiveHolds, PTL


(* What is remembered of an item that receives values, and what a worker   *)
(* was sent or answers, comes from a value collected before the ones that  *)
(* are still to be preprocessed; only the values of linked items are       *)
(* remembered.                                                             *)
OldInv ==
    /\ \A i \in TopItems : history_cache[i] # None =>
          /\ history_cache[i].n <= received
          /\ \A x \in Ids : ItemOf(x) = i /\ (x \in Unfinished(req) \/ x \in CallsIn(todo, "enqueue"))
                                => history_cache[i].n < x[1]
    /\ \A w \in Workers : inbox[w] # <<>> /\ inbox[w][1].kind = "request" /\ inbox[w][1].history # None
                          /\ ItemOf(task[w]) \in TopItems
                             => inbox[w][1].history.n < task[w][1]
    /\ \A w \in Workers : outbox[w] # <<>> /\ outbox[w][1].kind = "result" /\ outbox[w][1].history # None
                             => /\ Steps[ItemOf(task[w])] = "linked"
                                /\ ItemOf(task[w]) \in TopItems => outbox[w][1].history.n <= task[w][1]

(* The fields of a preprocessing history.                                  *)
LEMMA HistoryTypes ==
  ASSUME NEW h \in History
  PROVE  h.n \in 1..MaxReceived /\ h.n \in Nat /\ h # None
  <1>1. h # None
    BY IdTypes
  <1> QED BY <1>1 DEF History

(* Steps that send nothing and remember nothing new. *)
LEMMA OldKeep ==
  ASSUME TypeInv, TypeInv', OldInv, UNCHANGED <<inbox, outbox, task>>, received <= received',
         \A i \in Items : history_cache'[i] = history_cache[i] \/ history_cache'[i] = None,
         \A x \in Ids : ItemOf(x) \in TopItems /\ (x \in Unfinished(req') \/ x \in CallsIn(todo', "enqueue")) =>
            x \in Unfinished(req) \/ x \in CallsIn(todo, "enqueue") \/ received < x[1]
  PROVE  OldInv'
  <1>1. /\ TopItems \subseteq Items /\ received \in Nat /\ received' \in Nat
    BY PreprocAssumption DEF TypeInv
  <1>2. ASSUME NEW i \in TopItems, history_cache'[i] # None
        PROVE  /\ history_cache'[i].n <= received'
               /\ \A x \in Ids : ItemOf(x) = i /\ (x \in Unfinished(req') \/ x \in CallsIn(todo', "enqueue"))
                                => history_cache'[i].n < x[1]
    <2>1. history_cache'[i] = history_cache[i] /\ history_cache[i] # None
      BY <1>1, <1>2
    <2>2. history_cache[i] \in History
      BY <1>1, <2>1 DEF TypeInv
    <2>3. history_cache[i].n \in Nat
      BY <2>2, HistoryTypes
    <2>4. /\ history_cache[i].n <= received
          /\ \A x \in Ids : ItemOf(x) = i /\ (x \in Unfinished(req) \/ x \in CallsIn(todo, "enqueue"))
                                => history_cache[i].n < x[1]
      BY <2>1 DEF OldInv
    <2>5. ASSUME NEW x \in Ids, ItemOf(x) = i, x \in Unfinished(req') \/ x \in CallsIn(todo', "enqueue")
          PROVE  history_cache[i].n < x[1]
      <3>1. x[1] \in Nat
        BY IdTypes
      <3>2. x \in Unfinished(req) \/ x \in CallsIn(todo, "enqueue") \/ received < x[1]
        BY <2>5
      <3>3. CASE received < x[1]
        BY <1>1, <2>3, <2>4, <3>1, <3>3
      <3> QED BY <2>4, <2>5, <3>2, <3>3
    <2>6. history_cache[i].n <= received'
      BY <1>1, <2>3, <2>4
    <2> QED BY <2>1, <2>5, <2>6
  <1>3. \A i \in TopItems : history_cache'[i] # None =>
          /\ history_cache'[i].n <= received'
          /\ \A x \in Ids : ItemOf(x) = i /\ (x \in Unfinished(req') \/ x \in CallsIn(todo', "enqueue"))
                                => history_cache'[i].n < x[1]
    BY <1>2
  <1>4. \A w \in Workers : inbox'[w] # <<>> /\ inbox'[w][1].kind = "request" /\ inbox'[w][1].history # None
                          /\ ItemOf(task'[w]) \in TopItems
                             => inbox'[w][1].history.n < task'[w][1]
    BY DEF OldInv
  <1>5. \A w \in Workers : outbox'[w] # <<>> /\ outbox'[w][1].kind = "result" /\ outbox'[w][1].history # None
                             => /\ Steps[ItemOf(task'[w])] = "linked"
                                /\ ItemOf(task'[w]) \in TopItems => outbox'[w][1].history.n <= task'[w][1]
    BY DEF OldInv
  <1> QED BY <1>3, <1>4, <1>5 DEF OldInv

(* Steps that leave the values and the history alone, and change the       *)
(* messages of one worker.                                                 *)
LEMMA OldMessages ==
  ASSUME OldInv, UNCHANGED <<history_cache, received>>,
         NEW w \in Workers,
         \A v \in Workers : v # w => inbox'[v] = inbox[v] /\ outbox'[v] = outbox[v] /\ task'[v] = task[v],
         \A x \in Ids : ItemOf(x) \in TopItems /\ (x \in Unfinished(req') \/ x \in CallsIn(todo', "enqueue")) =>
            x \in Unfinished(req) \/ x \in CallsIn(todo, "enqueue"),
         inbox'[w] # <<>> /\ inbox'[w][1].kind = "request" /\ inbox'[w][1].history # None /\ ItemOf(task'[w]) \in TopItems
                             => inbox'[w][1].history.n < task'[w][1],
         outbox'[w] # <<>> /\ outbox'[w][1].kind = "result" /\ outbox'[w][1].history # None
                             => /\ Steps[ItemOf(task'[w])] = "linked"
                                /\ ItemOf(task'[w]) \in TopItems => outbox'[w][1].history.n <= task'[w][1]
  PROVE  OldInv'
  <1>1. \A i \in TopItems : history_cache'[i] # None =>
          /\ history_cache'[i].n <= received'
          /\ \A x \in Ids : ItemOf(x) = i /\ (x \in Unfinished(req') \/ x \in CallsIn(todo', "enqueue"))
                                => history_cache'[i].n < x[1]
    BY DEF OldInv
  <1>2. \A v \in Workers : inbox'[v] # <<>> /\ inbox'[v][1].kind = "request" /\ inbox'[v][1].history # None
                          /\ ItemOf(task'[v]) \in TopItems
                             => inbox'[v][1].history.n < task'[v][1]
    BY DEF OldInv
  <1>3. \A v \in Workers : outbox'[v] # <<>> /\ outbox'[v][1].kind = "result" /\ outbox'[v][1].history # None
                             => /\ Steps[ItemOf(task'[v])] = "linked"
                                /\ ItemOf(task'[v]) \in TopItems => outbox'[v][1].history.n <= task'[v][1]
    BY DEF OldInv
  <1> QED BY <1>1, <1>2, <1>3 DEF OldInv


(* The calls that enqueue or clear a value are the same. *)
KeepCalls(s, t) ==
    \A c \in CallRecord : c.op \in {"enqueue", "clear"} => (In1(t, c) <=> In1(s, c))

(* A step that moves no value. *)
Quiet ==
    /\ UNCHANGED <<queue, req, refcount, linked_items, priority_tail, flushed, received>>
    /\ KeepCalls(todo, todo')

(* A call that returns is the only one that is no longer pending.          *)
LEMMA KeepTail ==
  ASSUME todo \in Seq(CallRecord), todo # <<>>, todo' = Tail(todo)
  PROVE  /\ \A c : In1(todo, c) <=> c = Head(todo) \/ In1(todo', c)
         /\ Head(todo).op \notin {"enqueue", "clear"} => KeepCalls(todo, todo')
  <1>1. /\ Len(todo) \in Nat /\ 1 \in 1..Len(todo) /\ Len(Tail(todo)) = Len(todo) - 1
        /\ Head(todo) = todo[1] /\ \A k \in 1..(Len(todo) - 1) : Tail(todo)[k] = todo[k + 1]
    OBVIOUS
  <1>2. ASSUME NEW c PROVE In1(todo, c) <=> c = Head(todo) \/ In1(todo', c)
    <2>1. ASSUME NEW k \in 1..Len(todo), todo[k] = c PROVE c = Head(todo) \/ In1(todo', c)
      <3>1. k = 1 \/ k - 1 \in 1..(Len(todo) - 1)
        BY <1>1
      <3>2. k - 1 \in 1..(Len(todo) - 1) => Tail(todo)[k - 1] = todo[k]
        BY <1>1
      <3> QED BY <1>1, <2>1, <3>1, <3>2 DEF In1
    <2>2. ASSUME NEW k \in 1..Len(todo'), todo'[k] = c PROVE In1(todo, c)
      <3>1. k + 1 \in 1..Len(todo) /\ todo[k + 1] = c
        BY <1>1, <2>2
      <3> QED BY <3>1 DEF In1
    <2> QED BY <1>1, <2>1, <2>2 DEF In1
  <1> QED BY <1>2 DEF KeepCalls

(* The elements of two lists one after the other.                          *)
LEMMA InConcat ==
  ASSUME NEW S, NEW s \in Seq(S), NEW t \in Seq(S)
  PROVE  \A c : In1(s \o t, c) <=> In1(s, c) \/ In1(t, c)
  <1>1. /\ Len(s) \in Nat /\ Len(t) \in Nat /\ Len(s \o t) = Len(s) + Len(t)
        /\ \A k \in 1..(Len(s) + Len(t)) : (s \o t)[k] = IF k <= Len(s) THEN s[k] ELSE t[k - Len(s)]
    BY ConcatProperties, LenProperties, Zenon
  <1> DEFINE u == s \o t
  <1> HIDE DEF u
  <1>2. /\ Len(u) = Len(s) + Len(t)
        /\ \A k \in 1..(Len(s) + Len(t)) : u[k] = IF k <= Len(s) THEN s[k] ELSE t[k - Len(s)]
    BY <1>1 DEF u
  <1>3. ASSUME NEW k \in 1..Len(u) PROVE (k \in 1..Len(s) /\ u[k] = s[k]) \/ (k - Len(s) \in 1..Len(t) /\ u[k] = t[k - Len(s)])
    BY <1>1, <1>2
  <1>4. ASSUME NEW k \in 1..Len(s) PROVE k \in 1..Len(u) /\ u[k] = s[k]
    BY <1>1, <1>2
  <1>5. ASSUME NEW k \in 1..Len(t) PROVE k + Len(s) \in 1..Len(u) /\ u[k + Len(s)] = t[k]
    <2>1. k + Len(s) \in 1..(Len(s) + Len(t)) /\ ~(k + Len(s) <= Len(s)) /\ (k + Len(s)) - Len(s) = k
      BY <1>1
    <2> QED BY <1>2, <2>1
  <1>6. ASSUME NEW c PROVE In1(u, c) <=> In1(s, c) \/ In1(t, c)
    BY <1>3, <1>4, <1>5 DEF In1
  <1> QED BY <1>6 DEF u

(* Plain calls before others enqueue and clear nothing.                    *)
LEMMA KeepPlain ==
  ASSUME NEW t \in Seq(CallRecord), NEW s, Plain(s)
  PROVE  \A c \in CallRecord : c.op \in {"enqueue", "clear"} => (In1(s \o t, c) <=> In1(t, c))
  <1>1. s \in Seq(CallRecord) /\ \A c : In1(s, c) => c.op \notin {"enqueue", "clear"}
    BY DEF Plain, In1
  <1> QED BY <1>1, InConcat, Zenon

(* Neither do they alone.                                                  *)
LEMMA KeepFirst ==
  ASSUME todo = <<>>, NEW s, Plain(s), todo' = s
  PROVE  KeepCalls(todo, todo')
  <1>1. \A c : In1(s, c) => c.op \notin {"enqueue", "clear"}
    BY DEF Plain, In1
  <1>2. \A c : ~In1(todo, c)
    BY DEF In1
  <1> QED BY <1>1, <1>2 DEF KeepCalls

(* The steps that move no value. *)
QuietStep ==
    \/ enqueue_end \/ AssignReturn \/ (\E w : AssignTest(w)) \/ DependentsNone \/ FlushNone
    \/ result_end \/ flush_history \/ recv_timeout
    \/ \E w \in Workers : preprocessor_register_worker(w) \/ preprocessor_flush_test_result(w) \/ Worker(w)
    \/ \E t \in Tests : preprocessor_add_test_request(t) \/ client_close(t)
    \/ \E i \in Items, present \in BOOLEAN : config_change(i, present)

(* The quiet steps keep the values, the queue, the history of the items    *)
(* and what is to be enqueued or cleared.                                  *)
LEMMA QuietSteps ==
  ASSUME IInv, QuietStep
  PROVE  Quiet
  <1>0. todo \in Seq(CallRecord)
    BY DEF IInv, TypeInv
  <1>1. ASSUME enqueue_end \/ AssignReturn \/ DependentsNone \/ FlushNone \/ result_end \/ flush_history PROVE Quiet
    <2>1. /\ todo # <<>> /\ todo' = Tail(todo) /\ Head(todo).op \notin {"enqueue", "clear"}
      BY <1>1 DEF enqueue_end, AssignReturn, DependentsNone, FlushNone, result_end, flush_history, Calling, Return
    <2>2. UNCHANGED <<queue, req, refcount, linked_items, priority_tail, flushed, received>>
      BY <1>1 DEF enqueue_end, AssignReturn, DependentsNone, FlushNone, result_end, flush_history, qvars, ovars
    <2>3. KeepCalls(todo, todo')
      BY <1>0, <2>1, KeepTail
    <2> QED BY <2>2, <2>3 DEF Quiet
  <1>2. ASSUME recv_timeout \/ (\E w \in Workers : preprocessor_register_worker(w) \/ preprocessor_flush_test_result(w))
               \/ (\E t \in Tests : preprocessor_add_test_request(t))
        PROVE  Quiet
    <2>1. /\ todo = <<>> /\ todo' \in {<<FlushHistory>>, <<Assign(1), FlushHistory>>, <<Assign(1), Flush, FlushHistory>>}
      BY <1>2 DEF recv_timeout, preprocessor_register_worker, preprocessor_flush_test_result, preprocessor_add_test_request
    <2>2. UNCHANGED <<queue, req, refcount, linked_items, priority_tail, flushed, received>>
      BY <1>2 DEF recv_timeout, preprocessor_register_worker, preprocessor_flush_test_result,
                  preprocessor_add_test_request, qvars, ovars
    <2>3. Plain(todo')
      BY <2>1, PlainLists
    <2>4. KeepCalls(todo, todo')
      BY <2>1, <2>3, KeepFirst
    <2> QED BY <2>2, <2>4 DEF Quiet
  <1>3. ASSUME (\E w : AssignTest(w)) \/ (\E w \in Workers : Worker(w)) \/ (\E t \in Tests : client_close(t))
               \/ (\E i \in Items, present \in BOOLEAN : config_change(i, present))
        PROVE  Quiet
    <2>1. UNCHANGED <<queue, req, refcount, linked_items, priority_tail, flushed, received>> /\ todo' = todo
      BY <1>3 DEF AssignTest, Worker, worker_start, worker_preprocess_value, worker_test_value, client_close, config_change,
                  qvars, ovars
    <2> QED BY <2>1 DEF Quiet, KeepCalls
  <1> QED BY <1>1, <1>2, <1>3 DEF QuietStep

(* What is kept among the calls is kept among the values they are about.   *)
LEMMA KeepCallsIn ==
  ASSUME NEW s \in Seq(CallRecord), NEW t \in Seq(CallRecord), KeepCalls(s, t), NEW op \in {"enqueue", "clear"}
  PROVE  \A x : x \in CallsIn(t, op) <=> x \in CallsIn(s, op)
  <1>1. /\ \A k \in 1..Len(s) : s[k] \in CallRecord
        /\ \A k \in 1..Len(t) : t[k] \in CallRecord
    BY ElementOfSeq, Zenon
  <1>2. ASSUME NEW x, x \in CallsIn(t, op) PROVE x \in CallsIn(s, op)
    <2>1. PICK k \in 1..Len(t) : t[k].op = op /\ t[k].id = x
      BY <1>2 DEF CallsIn
    <2>2. In1(s, t[k])
      BY <1>1, <2>1 DEF KeepCalls, In1
    <2> QED BY <1>2, <2>1, <2>2 DEF CallsIn, In1
  <1>3. ASSUME NEW x, x \in CallsIn(s, op) PROVE x \in CallsIn(t, op)
    <2>1. PICK k \in 1..Len(s) : s[k].op = op /\ s[k].id = x
      BY <1>3 DEF CallsIn
    <2>2. In1(t, s[k])
      BY <1>1, <2>1 DEF KeepCalls, In1
    <2> QED BY <1>3, <2>1, <2>2 DEF CallsIn, In1
  <1> QED BY <1>2, <1>3


(* A step is quiet or one of nine that are not.                            *)
LEMMA NextCases ==
  ASSUME IInv, Next
  PROVE  \/ QuietStep
         \/ preproc_item_value_clear
         \/ \E id : EnqueueNow(id)
         \/ \E id, master, done, r : EnqueueQueued(id, master, done, r)
         \/ \E id, s : DependentsDerived(id, s)
         \/ \E k, id : AssignUnsupported(k, id)
         \/ \E w, id : AssignValue(w, id)
         \/ \E ids : FlushFirst(ids)
         \/ \E batch \in Batches : preprocessor_add_request(batch)
         \/ \E w \in Workers : preprocessor_add_result(w)
  <1>0. TypeInv
    BY DEF IInv
  <1>1. CASE Calls
    <2>1. CASE preprocessor_enqueue
      BY <2>1, EnqueueCases
    <2>2. CASE preprocessor_enqueue_dependent
      BY <2>2, DependentsCases DEF QuietStep
    <2>3. CASE preprocessor_assign_tasks
      BY <1>0, <2>3, AssignCases DEF QuietStep
    <2>4. CASE preprocessing_flush_queue
      BY <2>4, FlushCases DEF QuietStep
    <2> QED BY <1>1, <2>1, <2>2, <2>3, <2>4 DEF Calls, QuietStep
  <1>2. CASE Replies
    BY <1>2 DEF Replies, QuietStep
  <1>3. CASE recv_timeout \/ (\E t \in Tests : preprocessor_add_test_request(t) \/ client_close(t))
             \/ (\E w \in Workers : Worker(w)) \/ (\E i \in Items, present \in BOOLEAN : config_change(i, present))
    BY <1>3 DEF QuietStep
  <1>4. CASE \E batch \in Batches : preprocessor_add_request(batch)
    BY <1>4
  <1> QED BY <1>1, <1>2, <1>3, <1>4 DEF Next

(* Steps that change neither the history nor the workers. *)
LEMMA OldSame ==
  ASSUME IInv, TypeInv', OldInv, UNCHANGED <<inbox, outbox, task, history_cache, received>>,
         \A x \in Ids : ItemOf(x) \in TopItems /\ (x \in Unfinished(req') \/ x \in CallsIn(todo', "enqueue")) =>
            x \in Unfinished(req) \/ x \in CallsIn(todo, "enqueue")
  PROVE  OldInv'
  <1>1. TypeInv /\ received \in Nat
    BY PreprocAssumption DEF IInv, TypeInv
  <1>2. received <= received'
    BY <1>1
  <1>3. \A i \in Items : history_cache'[i] = history_cache[i]
    OBVIOUS
  <1> QED BY <1>1, <1>2, <1>3, OldKeep

(* A quiet step keeps the unfinished values and those that are to be       *)
(* enqueued.                                                               *)
LEMMA QuietCalls ==
  ASSUME IInv, IInv', Quiet
  PROVE  /\ \A x \in Ids : x \in Unfinished(req') <=> x \in Unfinished(req)
         /\ \A x : x \in CallsIn(todo', "enqueue") <=> x \in CallsIn(todo, "enqueue")
         /\ \A x : x \in CallsIn(todo', "clear") <=> x \in CallsIn(todo, "clear")
         /\ todo \in Seq(CallRecord) /\ todo' \in Seq(CallRecord)
  <1>1. todo \in Seq(CallRecord) /\ todo' \in Seq(CallRecord)
    BY DEF IInv, TypeInv
  <1> QED BY <1>1, KeepCallsIn DEF Quiet

(* A quiet step keeps the histories old.                                   *)
LEMMA OldQuiet ==
  ASSUME IInv, IInv', OldInv, QuietStep
  PROVE  OldInv'
  <1>1. Quiet /\ received' = received
    BY QuietSteps DEF Quiet
  <1>2. \A x \in Ids : ItemOf(x) \in TopItems /\ (x \in Unfinished(req') \/ x \in CallsIn(todo', "enqueue")) =>
            x \in Unfinished(req) \/ x \in CallsIn(todo, "enqueue")
    BY <1>1, QuietCalls
  <1>3. TypeInv /\ TypeInv' /\ WorkInv
    BY DEF IInv
  <1>4. CASE UNCHANGED <<inbox, outbox, task, history_cache>>
    BY <1>1, <1>2, <1>3, <1>4, OldSame
  <1>5. CASE result_end
    <2> DEFINE w == Head(todo).worker
    <2>1. /\ UNCHANGED <<inbox, outbox, history_cache>> /\ task' = [task EXCEPT ![w] = None]
      BY <1>5 DEF result_end, wvars, qvars
    <2>2. w \in ReleasesIn(todo) /\ w \in Workers
      <3>1. todo # <<>> /\ todo' = Tail(todo) /\ Head(todo).op = "release"
        BY <1>5 DEF result_end, Calling, Return
      <3>2. todo \in Seq(CallRecord) /\ CallInv(todo)
        BY DEF IInv, TypeInv
      <3>3. w \in ReleasesIn(todo)
        BY <3>1, <3>2, TodoReturn
      <3> QED BY <3>3 DEF ReleasesIn
    <2>3. inbox[w] = <<>> /\ outbox[w] = <<>>
      BY <1>3, <2>2, WorkerFacts DEF WorkerInv
    <2> HIDE DEF w
    <2>4. \A v \in Workers : v # w => inbox'[v] = inbox[v] /\ outbox'[v] = outbox[v] /\ task'[v] = task[v]
      BY <1>3, <2>1 DEF TypeInv
    <2> QED BY <1>1, <1>2, <2>1, <2>2, <2>3, <2>4, OldMessages
  <1>6. ASSUME NEW w, AssignTest(w) PROVE OldInv'
    <2>1. /\ UNCHANGED <<outbox, history_cache>> /\ FreeWorker # 0 /\ w = workers[FreeWorker]
          /\ task' = [task EXCEPT ![w] = Head(direct_queue)]
          /\ inbox' = [inbox EXCEPT ![w] = Append(@, [kind |-> "test"])]
      BY <1>6 DEF AssignTest, qvars
    <2>2. w \in Workers /\ In1(workers, w) /\ task[w] = None
      BY <1>3, <2>1, FreeWorkerProperties DEF TypeInv
    <2>3. inbox[w] = <<>> /\ outbox[w] = <<>>
      BY <1>3, <2>2, WorkerFacts DEF WorkerInv
    <2> DEFINE a == [kind |-> "test"]
    <2>a. a.kind = "test" /\ Append(<<>>, a) = <<a>> /\ <<a>>[1] = a
      OBVIOUS
    <2> HIDE DEF a
    <2>4. inbox'[w] = <<a>> /\ \A v \in Workers : v # w => inbox'[v] = inbox[v] /\ task'[v] = task[v]
      BY <1>3, <2>1, <2>2, <2>3, <2>a DEF TypeInv, a
    <2>5. inbox'[w][1].kind = "test"
      BY <2>a, <2>4
    <2> QED BY <1>1, <1>2, <2>1, <2>2, <2>3, <2>4, <2>5, OldMessages
  <1>7. ASSUME NEW w \in Workers, preprocessor_register_worker(w) \/ preprocessor_flush_test_result(w)
        PROVE  OldInv'
    <2>1. /\ UNCHANGED <<inbox, history_cache>> /\ outbox[w] # <<>> /\ outbox' = [outbox EXCEPT ![w] = Tail(@)]
          /\ \A v \in Workers : v # w => task'[v] = task[v]
      BY <1>3, <1>7 DEF preprocessor_register_worker, preprocessor_flush_test_result, qvars, TypeInv
    <2>2. inbox[w] = <<>> /\ Tail(outbox[w]) = <<>>
      BY <1>3, <2>1, WorkerFacts
    <2>3. outbox'[w] = <<>> /\ inbox'[w] = <<>> /\ \A v \in Workers : v # w => outbox'[v] = outbox[v]
      BY <1>3, <2>1, <2>2 DEF TypeInv
    <2> QED BY <1>1, <1>2, <2>1, <2>3, OldMessages
  <1>8. ASSUME NEW w \in Workers, worker_start(w) PROVE OldInv'
    <2>1. /\ UNCHANGED <<inbox, task, history_cache>> /\ w \notin started
          /\ outbox' = [outbox EXCEPT ![w] = Append(@, [kind |-> "register"])]
      BY <1>8 DEF worker_start, qvars
    <2>2. inbox[w] = <<>> /\ outbox[w] = <<>>
      BY <1>3, <2>1, WorkerFacts DEF WorkerInv
    <2>3. outbox'[w] = <<[kind |-> "register"]>> /\ \A v \in Workers : v # w => outbox'[v] = outbox[v]
      BY <1>3, <2>1, <2>2 DEF TypeInv
    <2>4. outbox'[w][1].kind = "register"
      BY <2>3
    <2> QED BY <1>1, <1>2, <2>1, <2>2, <2>3, <2>4, OldMessages
  <1>9. ASSUME NEW w \in Workers, worker_test_value(w) PROVE OldInv'
    <2>1. /\ UNCHANGED <<task, history_cache>> /\ inbox[w] # <<>>
          /\ inbox' = [inbox EXCEPT ![w] = Tail(@)]
          /\ outbox' = [outbox EXCEPT ![w] = Append(@, [kind |-> "test_result"])]
      BY <1>9 DEF worker_test_value, qvars
    <2>2. Tail(inbox[w]) = <<>> /\ outbox[w] = <<>>
      BY <1>3, <2>1, WorkerFacts
    <2> DEFINE a == [kind |-> "test_result"]
    <2>a. a.kind = "test_result" /\ Append(<<>>, a) = <<a>> /\ <<a>>[1] = a
      OBVIOUS
    <2> HIDE DEF a
    <2>3. /\ inbox'[w] = <<>> /\ outbox'[w] = <<a>>
          /\ \A v \in Workers : v # w => outbox'[v] = outbox[v] /\ inbox'[v] = inbox[v]
      BY <1>3, <2>1, <2>2, <2>a DEF TypeInv, a
    <2>4. outbox'[w][1].kind = "test_result"
      BY <2>a, <2>3
    <2> QED BY <1>1, <1>2, <2>1, <2>3, <2>4, OldMessages
  <1>10. ASSUME NEW w \in Workers, worker_preprocess_value(w) PROVE OldInv'
    <2>1. /\ UNCHANGED <<task, history_cache>> /\ inbox[w] # <<>> /\ Head(inbox[w]).kind = "request"
          /\ inbox' = [inbox EXCEPT ![w] = Tail(@)]
      BY <1>10 DEF worker_preprocess_value, qvars
    <2>2. PICK o \in Outcomes(Head(inbox[w])) :
            outbox' = [outbox EXCEPT ![w] = Append(@, [kind |-> "result", outcome |-> o[1], history |-> o[2]])]
      BY <1>10 DEF worker_preprocess_value
    <2> DEFINE m == Head(inbox[w])
               a == [kind |-> "result", outcome |-> o[1], history |-> o[2]]
    <2>3. /\ Tail(inbox[w]) = <<>> /\ outbox[w] = <<>> /\ m = inbox[w][1] /\ m \in Sent
          /\ WorkerInv(inbox[w], outbox[w], task[w], w \in started, In1(workers, w),
                        w \in ReleasesIn(todo), req, CallsIn(todo, "enqueue"))
      BY <1>3, <2>1, WorkerFacts
    <2>4. task[w] = m.id /\ m.kind = "request"
      BY <2>1, <2>3 DEF WorkerInv
    <2>5. m.id \in Ids /\ m.ver \in 0..MaxConfigChanges /\ m.history \in History \cup {None}
      BY <2>3, <2>4, SentTypes
    <2>6. a.history = o[2] /\ Append(<<>>, a) = <<a>> /\ <<a>>[1] = a
      OBVIOUS
    <2>7. /\ Steps[ItemOf(m.id)] # "linked" => o[2] = None
          /\ o[2] # None => o[2] = m.history \/ o[2].n = m.id[1]
      <3> DEFINE remembered == [n |-> m.id[1], ver |-> m.ver]
      <3>1. o \in IF Steps[ItemOf(m.id)] = "linked"
                  THEN ({"value", "none", "error"} \X {remembered, None}) \cup {<<"none", m.history>>}
                  ELSE {"value", "none", "error"} \X {None}
        BY <2>2 DEF Outcomes
      <3>2. remembered.n = m.id[1]
        OBVIOUS
      <3> HIDE DEF remembered, m
      <3> QED BY <3>1, <3>2
    <2>8. ASSUME ItemOf(task[w]) \in TopItems, o[2] # None PROVE o[2].n <= task[w][1]
      <3>1. task[w][1] \in Nat
        BY <2>4, <2>5, IdTypes
      <3>2. CASE o[2] = m.history
        <4>1. m.history.n < task[w][1]
          BY <2>1, <2>3, <2>4, <2>8, <3>2 DEF OldInv
        <4>2. m.history.n \in Nat
          BY <2>5, <2>8, <3>2, HistoryTypes
        <4> QED BY <3>1, <3>2, <4>1, <4>2
      <3>3. CASE o[2].n = m.id[1]
        BY <2>4, <3>1, <3>3
      <3> QED BY <2>7, <2>8, <3>2, <3>3
    <2> HIDE DEF m, a
    <2>9. /\ inbox'[w] = <<>> /\ outbox'[w] = <<a>>
          /\ \A v \in Workers : v # w => outbox'[v] = outbox[v] /\ inbox'[v] = inbox[v]
      BY <1>3, <2>1, <2>2, <2>3, <2>6 DEF TypeInv, a
    <2>10. outbox'[w][1] = a
      BY <2>6, <2>9
    <2>11. outbox'[w][1].history # None
              => /\ Steps[ItemOf(task'[w])] = "linked"
                 /\ ItemOf(task'[w]) \in TopItems => outbox'[w][1].history.n <= task'[w][1]
      BY <2>1, <2>4, <2>6, <2>7, <2>8, <2>10
    <2> QED BY <1>1, <1>2, <2>1, <2>9, <2>11, OldMessages
  <1>11. CASE \/ enqueue_end \/ AssignReturn \/ DependentsNone \/ FlushNone \/ flush_history \/ recv_timeout
              \/ (\E t \in Tests : preprocessor_add_test_request(t) \/ client_close(t))
              \/ (\E i \in Items, present \in BOOLEAN : config_change(i, present))
    <2>1. UNCHANGED <<inbox, outbox, task, history_cache>>
      BY <1>11 DEF enqueue_end, AssignReturn, DependentsNone, FlushNone, flush_history, recv_timeout,
                   preprocessor_add_test_request, client_close, config_change, qvars, wvars
    <2> QED BY <1>4, <2>1
  <1> QED BY <1>5, <1>6, <1>7, <1>8, <1>9, <1>10, <1>11 DEF QuietStep, Worker


(* The elements of a list are the first and those of its tail.             *)
LEMMA TailIn ==
  ASSUME NEW s \in Seq(CallRecord), s # <<>>
  PROVE  \A c : In1(s, c) <=> c = Head(s) \/ In1(Tail(s), c)
  <1>1. /\ Len(s) \in Nat /\ 1 \in 1..Len(s) /\ Len(Tail(s)) = Len(s) - 1
        /\ Head(s) = s[1] /\ \A k \in 1..(Len(s) - 1) : Tail(s)[k] = s[k + 1]
    OBVIOUS
  <1>2. ASSUME NEW c, NEW k \in 1..Len(s), s[k] = c PROVE c = Head(s) \/ In1(Tail(s), c)
    <2>1. k = 1 \/ k - 1 \in 1..(Len(s) - 1)
      BY <1>1
    <2>2. k - 1 \in 1..(Len(s) - 1) => Tail(s)[k - 1] = s[k]
      BY <1>1
    <2> QED BY <1>1, <1>2, <2>1, <2>2 DEF In1
  <1>3. ASSUME NEW c, NEW k \in 1..Len(Tail(s)), Tail(s)[k] = c PROVE In1(s, c)
    <2>1. k + 1 \in 1..Len(s) /\ s[k + 1] = c
      BY <1>1, <1>3
    <2> QED BY <2>1 DEF In1
  <1> QED BY <1>1, <1>2, <1>3 DEF In1

(* A call is replaced by calls that enqueue and clear nothing. *)
LEMMA KeepHead ==
  ASSUME todo \in Seq(CallRecord), todo # <<>>, NEW s, Plain(s), todo' = s \o Tail(todo),
         Head(todo).op \notin {"enqueue", "clear"}
  PROVE  KeepCalls(todo, todo')
  <1>1. Tail(todo) \in Seq(CallRecord)
    OBVIOUS
  <1>2. \A c \in CallRecord : c.op \in {"enqueue", "clear"} => (In1(todo', c) <=> In1(Tail(todo), c))
    BY <1>1, KeepPlain
  <1> QED BY <1>2, TailIn DEF KeepCalls

(* preprocessor_assign_tasks enqueues and clears nothing when it finishes  *)
(* a value.                                                                *)
LEMMA AssignUnsupportedCalls ==
  ASSUME todo \in Seq(CallRecord), NEW k, NEW id, AssignUnsupported(k, id)
  PROVE  KeepCalls(todo, todo')
  <1>1. /\ k \in Nat \ {0}
        /\ todo # <<>> /\ Head(todo).op = "assign" /\ todo' = <<Assign(IF k = 1 THEN 2 ELSE k)>> \o Tail(todo)
    BY DEF AssignUnsupported, Call, Calling
  <1>2. Plain(<<Assign(IF k = 1 THEN 2 ELSE k)>>)
    <2>1. (IF k = 1 THEN 2 ELSE k) \in Nat \ {0}
      BY <1>1
    <2> QED BY <2>1, PlainLists
  <1> QED BY <1>1, <1>2, KeepHead

(* Neither does it when it sends one.                                      *)
LEMMA AssignValueCalls ==
  ASSUME todo \in Seq(CallRecord), NEW w, NEW id, AssignValue(w, id)
  PROVE  KeepCalls(todo, todo')
  <1>1. /\ todo # <<>> /\ Head(todo).op = "assign" /\ todo' = <<Assign(1)>> \o Tail(todo)
    BY DEF AssignValue, Call, Calling
  <1>2. Plain(<<Assign(1)>>)
    <2>1. 1 \in Nat \ {0}
      OBVIOUS
    <2> QED BY <2>1, PlainLists
  <1> QED BY <1>1, <1>2, KeepHead

(* The elements of a list of five.                                         *)
LEMMA FiveCalls ==
  ASSUME NEW a, NEW b, NEW x, NEW y, NEW z
  PROVE  \A c : In1(<<a>> \o <<b, x, y, z>>, c) => c \in {a, b, x, y, z}
  <1> DEFINE S == {a, b, x, y, z}
             u == <<a>>
             v == <<b, x, y, z>>
  <1>1. u \in Seq(S) /\ v \in Seq(S)
    OBVIOUS
  <1>2. \A c : In1(u, c) \/ In1(v, c) => c \in S
    BY DEF In1
  <1> HIDE DEF S, u, v
  <1>3. \A c : In1(u \o v, c) => c \in S
    BY <1>1, <1>2, InConcat
  <1> QED BY <1>3 DEF S, u, v

(* preprocessor_add_result is called for the request its worker has, and   *)
(* enqueues nothing itself.                                                *)
LEMMA AddResultCalls ==
  ASSUME IInv, NEW w \in Workers, preprocessor_add_result(w)
  PROVE  /\ KeepCalls(todo, todo') /\ task[w] \in Ids /\ req[task[w]].state = "PROCESSING"
         /\ todo = <<>> /\ todo' = ResultCalls(w, task[w], Head(outbox[w]).outcome)
  <1> DEFINE id == task[w]
             outcome == Head(outbox[w]).outcome
             s == ResultCalls(w, id, outcome)
  <1>1. /\ todo = <<>> /\ outbox[w] # <<>> /\ Head(outbox[w]).kind = "result" /\ todo' = s
    BY DEF preprocessor_add_result, ResultCalls
  <1>2. TypeInv /\ WorkInv
    BY DEF IInv
  <1>3. id \in Ids /\ req[id].state = "PROCESSING"
    BY <1>1, <1>2, WorkerFacts DEF WorkerInv
  <1> HIDE DEF id, outcome
  <1>4. \A c : In1(s, c) => c.op \notin {"enqueue", "clear"}
    <2>1. CASE outcome = "value"
      <3> DEFINE a == Dependents(id, NewPosition(id))
                 b == Release(w)
      <3>1. s = <<a>> \o <<b, Assign(1), Flush, FlushHistory>>
        BY <2>1 DEF ResultCalls
      <3>2. a.op = "dependents" /\ b.op = "release"
        BY DEF Dependents, Release
      <3> HIDE DEF a, b, s
      <3>3. \A c : In1(s, c) => c \in {a, b, Assign(1), Flush, FlushHistory}
        BY <3>1, FiveCalls
      <3> QED BY <3>2, <3>3 DEF Assign, Flush, FlushHistory
    <2>2. CASE outcome # "value"
      <3> DEFINE b == Release(w)
      <3>1. s = <<b, Assign(1), Flush, FlushHistory>>
        BY <2>2 DEF ResultCalls
      <3>2. b.op = "release"
        BY DEF Release
      <3> HIDE DEF b
      <3>3. \A k \in 1..Len(s) : s[k].op \notin {"enqueue", "clear"}
        <4>1. Len(s) = 4 /\ s[1] = b /\ s[2] = Assign(1) /\ s[3] = Flush /\ s[4] = FlushHistory
          BY <3>1
        <4>2. \A k \in 1..4 : k = 1 \/ k = 2 \/ k = 3 \/ k = 4
          OBVIOUS
        <4> QED BY <3>2, <4>1, <4>2 DEF Assign, Flush, FlushHistory
      <3> QED BY <3>3 DEF In1
    <2> QED BY <2>1, <2>2
  <1>5. \A c : ~In1(todo, c)
    BY <1>1 DEF In1
  <1>6. KeepCalls(todo, s)
    BY <1>4, <1>5 DEF KeepCalls
  <1> QED BY <1>1, <1>3, <1>6 DEF id, outcome

(* preprocessor_enqueue of a value that is queued leaves the other values  *)
(* to be enqueued or cleared.                                              *)
LEMMA EnqueueQueuedCallsKept ==
  ASSUME IInv, NEW id, NEW master, NEW done, NEW r, EnqueueQueued(id, master, done, r)
  PROVE  /\ KeepCalls(Tail(todo), todo') /\ Head(todo) = Enqueue(id, master) /\ id \in Ids /\ master \in Ids \cup {None}
         /\ done \in BOOLEAN
         /\ \A x : x \in CallsIn(todo', "enqueue") <=> x \in CallsIn(todo, "enqueue") /\ x # id
         /\ \A x : x \in CallsIn(todo', "clear") <=> x \in CallsIn(todo, "clear")
         /\ id \in CallsIn(todo, "enqueue")
  <1> DEFINE s == EnqueueCall(id, done)
             t == Tail(todo)
  <1>1. /\ Calling("enqueue") /\ id = Head(todo).id /\ master = Head(todo).master
        /\ todo' = s \o t
    BY DEF EnqueueQueued
  <1>2. /\ id \in Ids /\ master \in Ids \cup {None} /\ Head(todo).op = "enqueue" /\ todo # <<>>
        /\ id \in CallsIn(todo, "enqueue")
        /\ t \in Seq(CallRecord)
        /\ \A op, x : x \in CallsIn(t, op) => x \in CallsIn(todo, op)
        /\ \A op, x : x \in CallsIn(todo, op) => x \in CallsIn(t, op) \/ (op = "enqueue" /\ x = id)
        /\ id \notin CallsIn(t, "enqueue") /\ id \notin CallsIn(t, "clear")
    BY <1>1, EnqueueFacts
  <1>3. done \in BOOLEAN
    <2>1. done = NeedsNoPreprocessing(id)
      BY DEF EnqueueQueued
    <2> QED BY <2>1 DEF NeedsNoPreprocessing
  <1>4. /\ s \in Seq(CallRecord)
        /\ \A x : x \notin CallsIn(s, "enqueue") /\ x \notin CallsIn(s, "clear")
    BY <1>2, <1>3, EnqueueQueuedCalls
  <1>5. Head(todo) = Enqueue(id, master)
    <2>1. Head(todo) \in CallRecord
      <3>1. todo \in Seq(CallRecord)
        BY DEF IInv, TypeInv
      <3> QED BY <1>2, <3>1
    <2>2. Head(todo) \in [op : {"enqueue", "dependents"}, id : Ids, master : Ids \cup {None}]
      BY <1>2, <2>1 DEF CallRecord
    <2> QED BY <1>1, <1>2, <2>2 DEF Enqueue
  <1> HIDE DEF t
  <1>6. \A c \in CallRecord : c.op \in {"enqueue", "clear"} => ~In1(s, c)
    <2>1. ASSUME NEW c \in CallRecord, c.op \in {"enqueue", "clear"}, In1(s, c) PROVE FALSE
      <3>1. c.id \in Ids
        BY <2>1, CallTypes
      <3>2. c.id \in CallsIn(s, c.op)
        BY <2>1, <3>1 DEF CallsIn, In1
      <3> QED BY <1>4, <2>1, <3>2
    <2> QED BY <2>1
  <1> HIDE DEF s
  <1>7. KeepCalls(t, todo')
    <2>1. \A c : In1(s \o t, c) <=> In1(s, c) \/ In1(t, c)
      BY <1>2, <1>4, InConcat
    <2> QED BY <1>1, <1>6, <2>1 DEF KeepCalls
  <1>8. todo' \in Seq(CallRecord)
    BY <1>1, <1>2, <1>4
  <1>9. \A op \in {"enqueue", "clear"} : \A x : x \in CallsIn(todo', op) <=> x \in CallsIn(t, op)
    BY <1>2, <1>7, <1>8, KeepCallsIn
  <1> QED BY <1>2, <1>3, <1>5, <1>7, <1>9 DEF t

(* preprocessor_enqueue of a value that is flushed at once leaves it to be *)
(* cleared.                                                                *)
LEMMA EnqueueNowCallsKept ==
  ASSUME IInv, NEW id, EnqueueNow(id)
  PROVE  /\ id \in Ids /\ Head(todo).op = "enqueue" /\ Head(todo).id = id /\ todo # <<>>
         /\ \A c \in CallRecord : c.op = "enqueue" => (In1(todo', c) <=> In1(Tail(todo), c))
         /\ \A x : x \in CallsIn(todo', "enqueue") <=> x \in CallsIn(todo, "enqueue") /\ x # id
         /\ \A x : x \in CallsIn(todo', "clear") <=> x \in CallsIn(todo, "clear") \/ x = id
         /\ id \in CallsIn(todo, "enqueue")
  <1> DEFINE s == <<Dependents(id, None), Clear(id)>>
             t == Tail(todo)
  <1>1. /\ Calling("enqueue") /\ id = Head(todo).id
        /\ todo' = s \o t
    BY DEF EnqueueNow
  <1>2. /\ id \in Ids /\ Head(todo).op = "enqueue" /\ todo # <<>>
        /\ id \in CallsIn(todo, "enqueue")
        /\ t \in Seq(CallRecord)
        /\ \A op, x : x \in CallsIn(t, op) => x \in CallsIn(todo, op)
        /\ \A op, x : x \in CallsIn(todo, op) => x \in CallsIn(t, op) \/ (op = "enqueue" /\ x = id)
        /\ id \notin CallsIn(t, "enqueue") /\ id \notin CallsIn(t, "clear")
    BY <1>1, EnqueueFacts
  <1>3. /\ s \in Seq(CallRecord)
        /\ \A x : x \in CallsIn(s, "clear") <=> x = id
        /\ \A x : x \notin CallsIn(s, "enqueue")
    BY <1>2, EnqueueNowCalls
  <1> HIDE DEF s, t
  <1>4. \A op, x : x \in CallsIn(s \o t, op) <=> x \in CallsIn(s, op) \/ x \in CallsIn(t, op)
    BY <1>2, <1>3, ConcatCalls
  <1>5. \A c \in CallRecord : c.op = "enqueue" => (In1(todo', c) <=> In1(t, c))
    <2>1. ASSUME NEW c \in CallRecord, c.op = "enqueue", In1(s, c) PROVE FALSE
      <3>1. c.id \in Ids
        BY <2>1, CallTypes
      <3>2. c.id \in CallsIn(s, "enqueue")
        BY <2>1, <3>1 DEF CallsIn, In1
      <3> QED BY <1>3, <3>2
    <2>2. \A c : In1(s \o t, c) <=> In1(s, c) \/ In1(t, c)
      BY <1>2, <1>3, InConcat
    <2> QED BY <1>1, <2>1, <2>2
  <1> QED BY <1>1, <1>2, <1>3, <1>4, <1>5 DEF t


(* The values of a linked item are preprocessed one at a time: the others  *)
(* wait for the one that does not, and were collected later.               *)
LEMMA ChainFirst ==
  ASSUME NEW r, NEW l, NEW s, ChainInv(r, l, s), NEW x \in Unfinished(r), r[x].state # "PENDING",
         Steps[ItemOf(x)] = "linked", NEW y \in Unfinished(r), y # x, ItemOf(y) = ItemOf(x)
  PROVE  r[y].state = "PENDING" /\ (ItemOf(x) \in TopItems => x[1] < y[1])
  <1>1. x \in Ids /\ y \in Ids /\ ItemOf(x) \in Items
    BY IdTypes DEF Unfinished
  <1>2. PICK c \in Seq(Ids) : /\ Chain(ItemOf(x), c, r, l)
                              /\ ItemOf(x) \in TopItems => ChainOrder(ItemOf(x), c, CallsIn(s, "enqueue"))
    BY <1>1 DEF ChainInv
  <1>3. PICK j \in 1..Len(c) : c[j] = x
    BY <1>1, <1>2 DEF Chain, In1
  <1>4. PICK k \in 1..Len(c) : c[k] = y
    BY <1>1, <1>2 DEF Chain, In1
  <1>5. Len(c) \in Nat
    BY <1>2, ChainElement
  <1>6. ~(j > 1) /\ k # j
    BY <1>2, <1>3, <1>4 DEF Chain
  <1>7. j < k /\ k > 1
    BY <1>5, <1>6
  <1>8. r[y].state = "PENDING"
    BY <1>2, <1>4, <1>7 DEF Chain
  <1>9. ItemOf(x) \in TopItems => x[1] < y[1]
    BY <1>2, <1>3, <1>4, <1>7 DEF ChainOrder
  <1> QED BY <1>8, <1>9

(* A request of a linked item that is processed, or can be, is the first   *)
(* of its chain: the others wait, and were collected later.                *)
LEMMA ProcessingFirst ==
  ASSUME IInv, NEW id \in Ids, req[id].state \in {"PROCESSING", "QUEUED"}, Steps[ItemOf(id)] = "linked"
  PROVE  /\ id \in Unfinished(req)
         /\ \A x \in Ids : x # id /\ ItemOf(x) = ItemOf(id) /\ x \in Unfinished(req) =>
               req[x].state = "PENDING" /\ (ItemOf(id) \in TopItems => id[1] < x[1])
  <1>1. ChainInv(req, linked_items, todo) /\ id \in Unfinished(req) /\ req[id].state # "PENDING"
    BY DEF IInv, Unfinished
  <1> QED BY <1>1, ChainFirst

(* preproc_item_value_clear keeps the histories old.                       *)
LEMMA OldClear ==
  ASSUME IInv, IInv', OldInv, preproc_item_value_clear
  PROVE  OldInv'
  <1>1. /\ UNCHANGED <<req, inbox, outbox, task, history_cache, received>>
        /\ todo # <<>> /\ todo' = Tail(todo)
    BY DEF preproc_item_value_clear, wvars, Calling, Return
  <1>2. todo \in Seq(CallRecord) /\ CallInv(todo)
    BY DEF IInv, TypeInv
  <1>3. \A op, x : x \in CallsIn(todo', op) => x \in CallsIn(todo, op)
    BY <1>1, <1>2, TodoReturn
  <1>4. \A x \in Ids : x \in Unfinished(req') => x \in Unfinished(req)
    BY <1>1 DEF Unfinished
  <1>5. TypeInv'
    BY DEF IInv
  <1> QED BY <1>1, <1>3, <1>4, <1>5, OldSame

(* So does preprocessor_enqueue of a value that is flushed at once.        *)
LEMMA OldEnqueueNow ==
  ASSUME IInv, IInv', OldInv, NEW id, EnqueueNow(id)
  PROVE  OldInv'
  <1>1. UNCHANGED <<req, inbox, outbox, task, history_cache, received>>
    BY DEF EnqueueNow, wvars
  <1>2. \A x : x \in CallsIn(todo', "enqueue") => x \in CallsIn(todo, "enqueue")
    BY EnqueueNowCallsKept
  <1>3. \A x \in Ids : x \in Unfinished(req') => x \in Unfinished(req)
    BY <1>1 DEF Unfinished
  <1>4. TypeInv'
    BY DEF IInv
  <1> QED BY <1>1, <1>2, <1>3, <1>4, OldSame

(* So does preprocessor_enqueue of a value that is queued.                 *)
LEMMA OldEnqueueQueued ==
  ASSUME IInv, IInv', OldInv, NEW id, NEW master, NEW done, NEW r, EnqueueQueued(id, master, done, r)
  PROVE  OldInv'
  <1>1. UNCHANGED <<inbox, outbox, task, history_cache, received>>
    BY DEF EnqueueQueued, wvars
  <1>2. /\ \A x : x \in CallsIn(todo', "enqueue") => x \in CallsIn(todo, "enqueue")
        /\ id \in CallsIn(todo, "enqueue")
    BY EnqueueQueuedCallsKept
  <1>3. \A x \in Ids : x # id => req'[x].state = req[x].state
    BY QueuedFields
  <1>4. \A x \in Ids : x \in Unfinished(req') => x \in Unfinished(req) \/ x = id
    BY <1>3 DEF Unfinished
  <1>5. TypeInv'
    BY DEF IInv
  <1> QED BY <1>1, <1>2, <1>4, <1>5, OldSame

(* So does preprocessor_enqueue_dependent: derived values are of items     *)
(* that receive none.                                                      *)
LEMMA OldDerived ==
  ASSUME IInv, IInv', OldInv, NEW id, NEW s, DependentsDerived(id, s)
  PROVE  OldInv'
  <1>1. UNCHANGED <<inbox, outbox, task, history_cache, received>>
    BY DEF DependentsDerived, wvars
  <1>2. TypeInv' /\ todo \in Seq(CallRecord) /\ CallInv(todo) /\ req \in [Ids -> Request]
    BY DEF IInv, TypeInv
  <1>3. /\ id \in Ids /\ DerivedIds(id) \subseteq Children(id)
        /\ \A x : x \in CallsIn(todo', "enqueue") <=> x \in DerivedIds(id) \/ x \in CallsIn(todo, "enqueue")
    BY <1>2, DerivedCalls
  <1>4. \A x \in Ids : req'[x].state = req[x].state
    BY <1>2, <1>3, DerivedFields
  <1>5. \A x \in Ids : x \in Unfinished(req') => x \in Unfinished(req)
    BY <1>4 DEF Unfinished
  <1>6. \A x \in DerivedIds(id) : ItemOf(x) \notin TopItems
    BY <1>3, ChildFacts
  <1> QED BY <1>1, <1>2, <1>3, <1>5, <1>6, OldSame

(* So does preprocessing_flush_queue.                                      *)
LEMMA OldFlush ==
  ASSUME IInv, IInv', OldInv, NEW ids, FlushFirst(ids)
  PROVE  OldInv'
  <1>1. UNCHANGED <<todo, inbox, outbox, task, history_cache, received>>
    BY DEF FlushFirst, wvars
  <1>2. \A x \in Ids : req'[x].state = "FREE" \/ req'[x].state = req[x].state
    BY FlushFields
  <1>3. \A x \in Ids : x \in Unfinished(req') => x \in Unfinished(req)
    BY <1>2 DEF Unfinished
  <1>4. TypeInv' /\ \A x : x \in CallsIn(todo', "enqueue") => x \in CallsIn(todo, "enqueue")
    BY <1>1 DEF IInv
  <1> QED BY <1>1, <1>3, <1>4, OldSame

(* So does preprocessor_assign_tasks for a value that is not supported: it *)
(* drops the history.                                                      *)
LEMMA OldUnsupported ==
  ASSUME IInv, IInv', OldInv, NEW k, NEW id, AssignUnsupported(k, id)
  PROVE  OldInv'
  <1>1. /\ UNCHANGED <<inbox, outbox, task, received>>
        /\ history_cache' = [history_cache EXCEPT ![ItemOf(id)] = None]
    BY DEF AssignUnsupported, ovars
  <1>2. TypeInv /\ TypeInv' /\ todo \in Seq(CallRecord) /\ todo' \in Seq(CallRecord) /\ received \in Nat
    BY PreprocAssumption DEF IInv, TypeInv
  <1>3. \A x : x \in CallsIn(todo', "enqueue") <=> x \in CallsIn(todo, "enqueue")
    BY <1>2, AssignUnsupportedCalls, KeepCallsIn
  <1>4. \A x \in Ids : x \in Unfinished(req') => x \in Unfinished(req)
    BY AssignUnsupportedStep DEF ValuesEffect
  <1>5. \A i \in Items : history_cache'[i] = history_cache[i] \/ history_cache'[i] = None
    BY <1>1, <1>2 DEF TypeInv
  <1>6. received <= received'
    BY <1>1, <1>2
  <1> QED BY <1>1, <1>2, <1>3, <1>4, <1>5, <1>6, OldKeep

(* So does preprocessor_add_request: the received values are the latest.   *)
LEMMA OldAddRequest ==
  ASSUME IInv, IInv', OldInv, NEW batch \in Batches, preprocessor_add_request(batch)
  PROVE  OldInv'
  <1>1. /\ UNCHANGED <<inbox, outbox, task>> /\ received' = received + Len(batch)
        /\ preprocessor_sync_configuration
    BY DEF preprocessor_add_request, wvars
  <1>2. TypeInv /\ TypeInv'
    BY DEF IInv
  <1>3. /\ received + Len(batch) <= MaxReceived
        /\ \A x \in Ids : req'[x].state = req[x].state
    BY <1>2, BatchFields
  <1>4. /\ Len(batch) \in Nat /\ received \in Nat
        /\ \A x \in BatchIds(batch) : x[1] > received
    BY <1>2, <1>3, BatchProperties
  <1>5. \A x : x \in CallsIn(todo', "enqueue") <=> x \in BatchIds(batch)
    BY <1>2, BatchCalls
  <1>6. received <= received'
    BY <1>1, <1>4
  <1>7. \A x \in Ids : x \in Unfinished(req') => x \in Unfinished(req)
    BY <1>3 DEF Unfinished
  <1>8. \A i \in Items : history_cache'[i] = history_cache[i] \/ history_cache'[i] = None
    BY <1>1 DEF preprocessor_sync_configuration
  <1>9. \A x \in Ids : x \in CallsIn(todo', "enqueue") => received < x[1]
    <2>1. \A x \in Ids : x[1] \in Nat
      BY IdTypes
    <2> QED BY <1>4, <1>5, <2>1
  <1> QED BY <1>1, <1>2, <1>6, <1>7, <1>8, <1>9, OldKeep


(* So does preprocessor_assign_tasks: the history that is sent to the      *)
(* worker is older than the value.                                         *)
LEMMA OldAssignValue ==
  ASSUME IInv, IInv', OldInv, NEW w, NEW id, AssignValue(w, id)
  PROVE  OldInv'
  <1>1. TypeInv /\ WorkInv /\ todo \in Seq(CallRecord) /\ todo' \in Seq(CallRecord) /\ req \in [Ids -> Request]
    BY DEF IInv, TypeInv
  <1> DEFINE a == [kind |-> "request", id |-> id, ver |-> req[id].ver, history |-> history_cache[ItemOf(id)]]
  <1>2. /\ UNCHANGED <<outbox, history_cache, received>> /\ FreeWorker # 0 /\ w = workers[FreeWorker]
        /\ id \in Ids /\ req[id].state = "QUEUED"
        /\ req' = [req EXCEPT ![id].state = "PROCESSING"]
        /\ task' = [task EXCEPT ![w] = id]
        /\ inbox' = [inbox EXCEPT ![w] = Append(@, a)]
    BY DEF AssignValue, ovars
  <1>3. w \in Workers /\ In1(workers, w) /\ task[w] = None
    BY <1>1, <1>2, FreeWorkerProperties DEF TypeInv
  <1>4. inbox[w] = <<>> /\ outbox[w] = <<>>
    BY <1>1, <1>3, WorkerFacts DEF WorkerInv
  <1>5. a.history = history_cache[ItemOf(id)] /\ Append(<<>>, a) = <<a>> /\ <<a>>[1] = a
    OBVIOUS
  <1> HIDE DEF a
  <1>6. /\ inbox'[w] = <<a>> /\ task'[w] = id
        /\ \A v \in Workers : v # w => inbox'[v] = inbox[v] /\ task'[v] = task[v]
    BY <1>1, <1>2, <1>3, <1>4, <1>5 DEF TypeInv
  <1>7. \A x \in Ids : x # id => req'[x].state = req[x].state
    BY <1>1, <1>2
  <1>8. id \in Unfinished(req)
    BY <1>2 DEF Unfinished
  <1>9. \A x \in Ids : x \in Unfinished(req') => x \in Unfinished(req)
    BY <1>7, <1>8 DEF Unfinished
  <1>10. \A x : x \in CallsIn(todo', "enqueue") <=> x \in CallsIn(todo, "enqueue")
    BY <1>1, AssignValueCalls, KeepCallsIn
  <1>11. inbox'[w] # <<>> /\ inbox'[w][1].history # None /\ ItemOf(task'[w]) \in TopItems
            => inbox'[w][1].history.n < task'[w][1]
    BY <1>2, <1>5, <1>6, <1>8 DEF OldInv
  <1> QED BY <1>2, <1>3, <1>4, <1>6, <1>9, <1>10, <1>11, OldMessages

(* So does preprocessor_add_result: what is remembered comes before the    *)
(* values of the item that are still to be processed.                      *)
LEMMA OldAddResult ==
  ASSUME IInv, IInv', OldInv, NEW w \in Workers, preprocessor_add_result(w)
  PROVE  OldInv'
  <1> DEFINE id == task[w]
             h == Head(outbox[w]).history
  <1>1. /\ UNCHANGED <<inbox, task, received>> /\ outbox[w] # <<>> /\ Head(outbox[w]).kind = "result"
        /\ outbox' = [outbox EXCEPT ![w] = Tail(@)]
        /\ history_cache' = [history_cache EXCEPT ![ItemOf(id)] = h]
    BY DEF preprocessor_add_result
  <1>2. TypeInv /\ WorkInv /\ ValueInv(req, flushed, todo, received) /\ todo' \in Seq(CallRecord) /\ todo \in Seq(CallRecord)
        /\ received \in Nat
    <2>1. IInv /\ IInv'
      OBVIOUS
    <2>2. TypeInv /\ WorkInv /\ ValueInv(req, flushed, todo, received) /\ TypeInv'
      BY <2>1 DEF IInv
    <2>3. todo' \in Seq(CallRecord) /\ todo \in Seq(CallRecord) /\ received \in Nat
      BY <2>2, PreprocAssumption DEF TypeInv
    <2> QED BY <2>2, <2>3
  <1>3. /\ id \in Ids /\ req[id].state = "PROCESSING" /\ KeepCalls(todo, todo')
    BY AddResultCalls
  <1>4. /\ Tail(outbox[w]) = <<>> /\ Head(outbox[w]) = outbox[w][1] /\ outbox[w][1] \in Reply
    BY <1>1, <1>2, WorkerFacts
  <1>5. h \in History \cup {None} /\ h = outbox[w][1].history
    BY <1>1, <1>4, ReplyTypes
  <1>6. \A x : x \in CallsIn(todo', "enqueue") <=> x \in CallsIn(todo, "enqueue")
    BY <1>2, <1>3, KeepCallsIn
  <1>7. \A x \in Ids : x \in Unfinished(req') <=> x \in Unfinished(req) /\ x # id
    BY AddResult DEF ValuesEffect
  <1>8. \A x : x \notin CallsIn(todo, "enqueue")
    BY AddResultCalls, NoCalls
  <1>9. h # None => /\ Steps[ItemOf(id)] = "linked"
                    /\ ItemOf(id) \in TopItems => h.n <= id[1]
    BY <1>1, <1>4, <1>5 DEF OldInv
  <1>10. id[1] <= received /\ id[1] \in Nat
    <2>1. id \in Known(req)
      BY <1>2, <1>3, ValueFacts DEF Unfinished
    <2> QED BY <1>2, <1>3, <2>1, IdTypes DEF ValueInv
  <1>11. \A v \in Workers : outbox'[v] = IF v = w THEN <<>> ELSE outbox[v]
    BY <1>1, <1>2, <1>4 DEF TypeInv
  <1>12. \A i \in Items : history_cache'[i] = IF i = ItemOf(id) THEN h ELSE history_cache[i]
    BY <1>1, <1>2 DEF TypeInv
  <1> HIDE DEF h, id
  <1>13. ASSUME ItemOf(id) \in TopItems, h # None, NEW x \in Ids, ItemOf(x) = ItemOf(id), x \in Unfinished(req')
         PROVE  h.n < x[1]
    <2>1. x \in Unfinished(req) /\ x # id
      BY <1>7, <1>13
    <2>2. id[1] < x[1]
      BY <1>3, <1>9, <1>13, <2>1, ProcessingFirst
    <2>3. h.n \in Nat /\ x[1] \in Nat
      BY <1>5, <1>13, HistoryTypes, IdTypes
    <2> QED BY <1>9, <1>10, <1>13, <2>2, <2>3
  <1>14. ASSUME NEW i \in TopItems, history_cache'[i] # None
         PROVE  /\ history_cache'[i].n <= received'
                /\ \A x \in Ids : ItemOf(x) = i /\ (x \in Unfinished(req') \/ x \in CallsIn(todo', "enqueue"))
                                => history_cache'[i].n < x[1]
    <2>1. i \in Items
      BY PreprocAssumption
    <2>2. CASE i = ItemOf(id)
      <3>1. history_cache'[i] = h /\ h # None /\ h.n \in Nat
        BY <1>5, <1>12, <1>14, <2>1, <2>2, HistoryTypes
      <3>2. h.n <= received'
        BY <1>1, <1>2, <1>9, <1>10, <2>2, <3>1
      <3> QED BY <1>6, <1>8, <1>13, <2>2, <3>1, <3>2
    <2>3. CASE i # ItemOf(id)
      <3>1. history_cache'[i] = history_cache[i] /\ history_cache[i] # None
        BY <1>12, <1>14, <2>1, <2>3
      <3> QED BY <1>1, <1>6, <1>7, <3>1 DEF OldInv
    <2> QED BY <2>2, <2>3
  <1>15. \A v \in Workers : inbox'[v] # <<>> /\ inbox'[v][1].kind = "request" /\ inbox'[v][1].history # None
                          /\ ItemOf(task'[v]) \in TopItems
                             => inbox'[v][1].history.n < task'[v][1]
    BY <1>1 DEF OldInv
  <1>16. \A v \in Workers : outbox'[v] # <<>> /\ outbox'[v][1].kind = "result" /\ outbox'[v][1].history # None
                             => /\ Steps[ItemOf(task'[v])] = "linked"
                                /\ ItemOf(task'[v]) \in TopItems => outbox'[v][1].history.n <= task'[v][1]
    BY <1>1, <1>11 DEF OldInv
  <1> QED BY <1>14, <1>15, <1>16 DEF OldInv

(* No history is remembered when the manager starts.                       *)
LEMMA OldInit == Init => OldInv
  <1> SUFFICES ASSUME Init PROVE OldInv
    OBVIOUS
  <1>1. TopItems \subseteq Items
    BY PreprocAssumption
  <1>2. /\ \A i \in Items : history_cache[i] = None
        /\ \A w \in Workers : inbox[w] = <<>> /\ outbox[w] = <<>>
    BY DEF Init
  <1> QED BY <1>1, <1>2 DEF OldInv

(* Every step keeps the histories old.                                     *)
LEMMA OldNext ==
  ASSUME IInv, IInv', OldInv, [Next]_vars
  PROVE  OldInv'
  <1>1. CASE Next
    BY <1>1, NextCases, OldQuiet, OldClear, OldEnqueueNow, OldEnqueueQueued, OldDerived, OldUnsupported,
       OldAssignValue, OldFlush, OldAddRequest, OldAddResult
  <1>2. CASE UNCHANGED vars
    <2>1. UNCHANGED <<todo, req, inbox, outbox, task, history_cache, received>>
      BY <1>2 DEF vars, qvars, wvars
    <2> QED BY <2>1 DEF OldInv, Unfinished
  <1> QED BY <1>1, <1>2

(* The order of a chain and the age of the histories give the order in     *)
(* which a linked item is preprocessed.                                    *)
LEMMA LinkedInOrderHolds == IInv /\ OldInv => LinkedInOrder
  <1> SUFFICES ASSUME IInv, OldInv PROVE LinkedInOrder
    OBVIOUS
  <1>1. TypeInv /\ WorkInv
    BY DEF IInv
  <1>2. ASSUME NEW w \in Workers, NEW k \in DOMAIN inbox[w], inbox[w][k].kind = "request",
               inbox[w][k].history # None, ItemOf(inbox[w][k].id) \in TopItems
        PROVE  inbox[w][k].history.n < inbox[w][k].id[1]
    <2>1. /\ inbox[w] \in Seq(Sent) /\ outbox[w] \in Seq(Reply)
          /\ WorkerInv(inbox[w], outbox[w], task[w], w \in started, In1(workers, w),
                       w \in ReleasesIn(todo), req, CallsIn(todo, "enqueue"))
      BY <1>1, WorkerFacts
    <2>a. DOMAIN inbox[w] = 1..Len(inbox[w]) /\ Len(inbox[w]) \in Nat /\ Len(outbox[w]) \in Nat
      BY <2>1
    <2>b. Len(inbox[w]) + Len(outbox[w]) <= 1
      BY ONLY <2>1 DEF WorkerInv
    <2>c. k \in 1..Len(inbox[w])
      BY <2>a
    <2>d. k = 1
      <3>1. \A m, n \in Nat : m + n <= 1 => \A j \in 1..m : j = 1
        OBVIOUS
      <3> QED BY <2>a, <2>b, <2>c, <3>1, Zenon
    <2>3. k = 1 /\ inbox[w] # <<>>
      <3>1. inbox[w] # <<>>
        BY <2>1, <2>c
      <3> QED BY <2>d, <3>1
    <2>4. task[w] = inbox[w][1].id
      BY <1>2, <2>1, <2>3 DEF WorkerInv
    <2> QED BY <1>2, <2>3, <2>4 DEF OldInv
  <1>3. ASSUME NEW id \in Ids, req[id].state = "PROCESSING", Steps[ItemOf(id)] = "linked",
               NEW x \in Ids \ {id}, ItemOf(x) = ItemOf(id)
        PROVE  /\ req[x].state # "PROCESSING"
               /\ ItemOf(id) \in TopItems /\ x[1] < id[1] => req[x].state \in {"DONE", "FREE"}
    <2>1. x \in Unfinished(req) => req[x].state = "PENDING" /\ (ItemOf(id) \in TopItems => id[1] < x[1])
      BY <1>3, ProcessingFirst
    <2>2. req[x].state \in {"FREE", "QUEUED", "PROCESSING", "DONE", "PENDING"}
      BY <1>1 DEF TypeInv, Request
    <2>3. x[1] \in Nat /\ id[1] \in Nat
      BY IdTypes
    <2> QED BY <2>1, <2>2, <2>3 DEF Unfinished
  <1> QED BY <1>2, <1>3 DEF LinkedInOrder

(* The values of an item with change or throttling steps are preprocessed  *)
(* one at a time, and the collected ones in the order of collection with   *)
(* the history of an earlier value, by any number of workers               *)
(* (preprocessor_link_items, preprocessor_assign_tasks).                   *)
THEOREM PreprocLinkedInOrder == Spec => []LinkedInOrder
  <1>1. Init => OldInv
    BY OldInit
  <1>2. IInv /\ IInv' /\ OldInv /\ [Next]_vars => OldInv'
    BY OldNext
  <1> QED BY <1>1, <1>2, PreprocInvariant, LinkedInOrderHolds, PTL DEF Spec


(* A result belongs to a value that is known; the one preprocessing made   *)
(* for a value is used only when the value is done, by itself and by the   *)
(* values derived from it; only supported values are preprocessed.         *)
ResultInv ==
    /\ \A x \in Known(req) : req[x].res[1] \in Known(req)
    /\ \A x, y \in Ids : req[y].res = <<x, "made">> => x \notin Unfinished(req) /\ x \notin CallsIn(todo, "enqueue")
    /\ \A x \in Ids : req[x].state = "PROCESSING" => req[x].supported

(* What keeps the results, and makes no value unfinished, keeps ResultInv. *)
LEMMA ResultKeep ==
  ASSUME ResultInv,
         \A x \in Ids : req'[x].res = req[x].res /\ req'[x].supported = req[x].supported,
         \A x \in Ids : x \in Unfinished(req') \/ x \in CallsIn(todo', "enqueue") =>
                           x \in Unfinished(req) \/ x \in CallsIn(todo, "enqueue"),
         \A x \in Ids : req'[x].state = "PROCESSING" => req[x].state = "PROCESSING" \/ req[x].supported
  PROVE  ResultInv'
  <1>1. \A x : x \in Known(req') <=> x \in Known(req)
    BY DEF Known
  <1>2. \A x \in Known(req') : req'[x].res[1] \in Known(req')
    BY <1>1 DEF ResultInv, Known
  <1>3. \A x, y \in Ids : req'[y].res = <<x, "made">> => x \notin Unfinished(req') /\ x \notin CallsIn(todo', "enqueue")
    BY DEF ResultInv
  <1>4. \A x \in Ids : req'[x].state = "PROCESSING" => req'[x].supported
    BY DEF ResultInv
  <1> QED BY <1>2, <1>3, <1>4 DEF ResultInv

(* A quiet step keeps it.                                                  *)
LEMMA ResultQuiet ==
  ASSUME IInv, IInv', ResultInv, QuietStep
  PROVE  ResultInv'
  <1>1. Quiet /\ req' = req
    BY QuietSteps DEF Quiet
  <1>2. \A x \in Ids : x \in Unfinished(req') \/ x \in CallsIn(todo', "enqueue") =>
                           x \in Unfinished(req) \/ x \in CallsIn(todo, "enqueue")
    BY <1>1, QuietCalls
  <1> QED BY <1>1, <1>2, ResultKeep

(* preproc_item_value_clear keeps it.                                      *)
LEMMA ResultClear ==
  ASSUME IInv, ResultInv, preproc_item_value_clear
  PROVE  ResultInv'
  <1>1. req' = req /\ todo # <<>> /\ todo' = Tail(todo)
    BY DEF preproc_item_value_clear, Calling, Return
  <1>2. todo \in Seq(CallRecord) /\ CallInv(todo)
    BY DEF IInv, TypeInv
  <1>3. \A op, x : x \in CallsIn(todo', op) => x \in CallsIn(todo, op)
    BY <1>1, <1>2, TodoReturn
  <1> QED BY <1>1, <1>3, ResultKeep

(* preprocessor_enqueue keeps it for a value that is flushed at once.      *)
LEMMA ResultEnqueueNow ==
  ASSUME IInv, ResultInv, NEW id, EnqueueNow(id)
  PROVE  ResultInv'
  <1>1. req' = req
    BY DEF EnqueueNow
  <1>2. \A x : x \in CallsIn(todo', "enqueue") => x \in CallsIn(todo, "enqueue")
    BY EnqueueNowCallsKept
  <1> QED BY <1>1, <1>2, ResultKeep

(* preprocessor_enqueue keeps it for a value that is queued.               *)
LEMMA ResultEnqueueQueued ==
  ASSUME IInv, ResultInv, NEW id, NEW master, NEW done, NEW r, EnqueueQueued(id, master, done, r)
  PROVE  ResultInv'
  <1>1. /\ \A x : x \in CallsIn(todo', "enqueue") => x \in CallsIn(todo, "enqueue")
        /\ id \in CallsIn(todo, "enqueue")
    BY EnqueueQueuedCallsKept
  <1>2. /\ \A x \in Ids : x # id => req'[x].state = req[x].state
        /\ \A x \in Ids : req'[x].res = req[x].res /\ req'[x].supported = req[x].supported
        /\ \A x \in Ids : x = id => req'[x].state # "PROCESSING"
    BY QueuedFields
  <1>3. \A x \in Ids : x \in Unfinished(req') => x \in Unfinished(req) \/ x = id
    BY <1>2 DEF Unfinished
  <1> QED BY <1>1, <1>2, <1>3, ResultKeep

(* preprocessing_flush_queue keeps it.                                     *)
LEMMA ResultFlush ==
  ASSUME IInv, ResultInv, NEW ids, FlushFirst(ids)
  PROVE  ResultInv'
  <1>1. todo' = todo
    BY DEF FlushFirst
  <1>2. /\ \A x \in Ids : req'[x].state = "FREE" \/ req'[x].state = req[x].state
        /\ \A x \in Ids : req'[x].res = req[x].res /\ req'[x].supported = req[x].supported
    BY FlushFields
  <1>3. \A x \in Ids : x \in Unfinished(req') => x \in Unfinished(req)
    BY <1>2 DEF Unfinished
  <1> QED BY <1>1, <1>2, <1>3, ResultKeep

(* preprocessor_assign_tasks keeps it for a value that is not supported.   *)
LEMMA ResultUnsupported ==
  ASSUME IInv, IInv', ResultInv, NEW k, NEW id, AssignUnsupported(k, id)
  PROVE  ResultInv'
  <1>1. todo \in Seq(CallRecord) /\ todo' \in Seq(CallRecord)
    BY DEF IInv, TypeInv
  <1>2. \A x : x \in CallsIn(todo', "enqueue") <=> x \in CallsIn(todo, "enqueue")
    BY <1>1, AssignUnsupportedCalls, KeepCallsIn
  <1>3. /\ \A x \in Ids : x \in Unfinished(req') => x \in Unfinished(req)
        /\ \A x \in Ids : req'[x].res = req[x].res /\ req'[x].supported = req[x].supported
        /\ \A x \in Ids : req'[x].state \in {"DONE", "QUEUED"} \/ req'[x].state = req[x].state
    BY AssignUnsupportedStep DEF ValuesEffect
  <1> QED BY <1>2, <1>3, ResultKeep

(* A value is sent to a worker. *)
LEMMA AssignValueFields ==
  ASSUME IInv, NEW w, NEW id, AssignValue(w, id)
  PROVE  /\ id \in Ids /\ req[id].state = "QUEUED" /\ req[id].supported
         /\ \A x \in Ids : /\ req'[x].state = IF x = id THEN "PROCESSING" ELSE req[x].state
                           /\ req'[x].res = req[x].res /\ req'[x].supported = req[x].supported
                           /\ req'[x].flush = req[x].flush /\ req'[x].pending = req[x].pending
  <1>1. req \in [Ids -> Request] /\ id \in Ids /\ req[id].state = "QUEUED" /\ req[id].supported
        /\ req' = [req EXCEPT ![id].state = "PROCESSING"]
    BY DEF IInv, TypeInv, AssignValue
  <1>2. ASSUME NEW x \in Ids
        PROVE  /\ req'[x].state = IF x = id THEN "PROCESSING" ELSE req[x].state
               /\ req'[x].res = req[x].res /\ req'[x].supported = req[x].supported
               /\ req'[x].flush = req[x].flush /\ req'[x].pending = req[x].pending
    <2>1. req[x] \in Request
      BY <1>1
    <2>2. CASE x = id
      <3>1. req'[x] = [req[x] EXCEPT !.state = "PROCESSING"]
        BY <1>1, <2>2
      <3> QED BY ONLY <2>1, <2>2, <3>1 DEF Request
    <2>3. CASE x # id
      <3>1. req'[x] = req[x]
        BY <1>1, <2>3
      <3> QED BY ONLY <2>3, <3>1
    <2> QED BY <2>2, <2>3
  <1> QED BY <1>1, <1>2

(* preprocessor_assign_tasks keeps it for a value that is sent: it is      *)
(* supported.                                                              *)
LEMMA ResultAssignValue ==
  ASSUME IInv, IInv', ResultInv, NEW w, NEW id, AssignValue(w, id)
  PROVE  ResultInv'
  <1>1. todo \in Seq(CallRecord) /\ todo' \in Seq(CallRecord)
    BY DEF IInv, TypeInv
  <1>2. \A x : x \in CallsIn(todo', "enqueue") <=> x \in CallsIn(todo, "enqueue")
    BY <1>1, AssignValueCalls, KeepCallsIn
  <1>3. /\ req[id].supported /\ id \in Unfinished(req)
        /\ \A x \in Ids : x # id => req'[x].state = req[x].state
        /\ \A x \in Ids : req'[x].res = req[x].res /\ req'[x].supported = req[x].supported
    BY AssignValueFields DEF Unfinished
  <1>4. \A x \in Ids : x \in Unfinished(req') => x \in Unfinished(req)
    BY <1>3 DEF Unfinished
  <1>5. \A x \in Ids : req'[x].state = "PROCESSING" => req[x].state = "PROCESSING" \/ req[x].supported
    BY <1>3
  <1> QED BY <1>2, <1>3, <1>4, <1>5, ResultKeep


(* preprocessor_enqueue_dependent: the derived values are new, take the    *)
(* result of their master's value, and are to be enqueued.                 *)
LEMMA DerivedFacts ==
  ASSUME IInv, NEW id, NEW s, DependentsDerived(id, s)
  PROVE  /\ id \in Ids /\ id \in Known(req) /\ req[id].res \in Results
         /\ \A x \in DerivedIds(id) : x \in Ids /\ x \notin Known(req) /\ req[x].state = "FREE" /\ x # id
         /\ \A x \in Ids : /\ req'[x].state = req[x].state
                           /\ req'[x].res = IF x \in DerivedIds(id) THEN req[id].res ELSE req[x].res
                           /\ req'[x].supported = IF x \in DerivedIds(id) THEN req[id].supported ELSE req[x].supported
         /\ \A x : x \in CallsIn(todo', "enqueue") <=> x \in DerivedIds(id) \/ x \in CallsIn(todo, "enqueue")
  <1>1. todo \in Seq(CallRecord) /\ CallInv(todo) /\ req \in [Ids -> Request] /\ ValueInv(req, flushed, todo, received)
    BY DEF IInv, TypeInv
  <1>2. /\ id \in Ids /\ DerivedIds(id) \subseteq Children(id) /\ id \in CallsIn(todo, "dependents")
        /\ \A x : x \in CallsIn(todo', "enqueue") <=> x \in DerivedIds(id) \/ x \in CallsIn(todo, "enqueue")
    BY <1>1, DerivedCalls
  <1>3. id \in Known(req) /\ \A x \in Children(id) : x \notin Known(req)
    BY <1>1, <1>2 DEF ValueInv
  <1>4. req[id].res \in Results
    <2>1. req[id].res \in Results \cup {None}
      BY <1>1, <1>2 DEF Request
    <2> QED BY <1>3, <2>1 DEF Known
  <1>5. \A x \in DerivedIds(id) : x \in Ids /\ x \notin Known(req) /\ req[x].state = "FREE" /\ x # id
    <2>1. \A x \in DerivedIds(id) : x \in Ids /\ x \notin Known(req) /\ x # id
      BY <1>2, <1>3, ChildFacts
    <2> QED BY <1>1, <2>1 DEF ValueInv
  <1>6. \A x \in Ids : /\ req'[x].state = req[x].state
                       /\ req'[x].res = IF x \in DerivedIds(id) THEN req[id].res ELSE req[x].res
                       /\ req'[x].supported = IF x \in DerivedIds(id) THEN req[id].supported ELSE req[x].supported
    BY <1>1, <1>2, DerivedFields
  <1> QED BY <1>2, <1>3, <1>4, <1>5, <1>6

(* preprocessor_enqueue_dependent keeps ResultInv: the result belongs to a *)
(* value that is done.                                                     *)
LEMMA ResultDerived ==
  ASSUME IInv, ResultInv, NEW id, NEW s, DependentsDerived(id, s)
  PROVE  ResultInv'
  <1> DEFINE D == DerivedIds(id)
  <1>1. /\ id \in Ids /\ id \in Known(req) /\ req[id].res # None
        /\ \A x \in D : x \in Ids /\ x \notin Known(req) /\ req[x].state = "FREE" /\ x # id
        /\ \A x \in Ids : /\ req'[x].state = req[x].state
                          /\ req'[x].res = IF x \in D THEN req[id].res ELSE req[x].res
                          /\ req'[x].supported = IF x \in D THEN req[id].supported ELSE req[x].supported
        /\ \A x : x \in CallsIn(todo', "enqueue") <=> x \in D \/ x \in CallsIn(todo, "enqueue")
    BY DerivedFacts DEF Known
  <1> HIDE DEF D
  <1>2. \A x \in Ids : x \in Known(req') <=> x \in Known(req) \/ x \in D
    BY <1>1 DEF Known
  <1>3. \A x \in Known(req') : req'[x].res[1] \in Known(req')
    <2>1. ASSUME NEW x \in Known(req') PROVE req'[x].res[1] \in Known(req)
      <3>1. x \in Ids
        BY DEF Known
      <3>2. CASE x \in D
        BY <1>1, <3>1, <3>2 DEF ResultInv
      <3>3. CASE x \notin D
        <4>1. x \in Known(req) /\ req'[x].res = req[x].res
          BY <1>1, <1>2, <2>1, <3>1, <3>3
        <4> QED BY <4>1 DEF ResultInv
      <3> QED BY <3>2, <3>3
    <2> QED BY <1>2, <2>1 DEF Known
  <1>4. ASSUME NEW x \in Ids, NEW y \in Ids, req'[y].res = <<x, "made">>
        PROVE  x \notin Unfinished(req') /\ x \notin CallsIn(todo', "enqueue")
    <2>1. PICK z \in Ids : z \in Known(req) /\ req[z].res = <<x, "made">>
      <3>1. CASE y \in D
        BY <1>1, <1>4, <3>1
      <3>2. CASE y \notin D
        <4>1. req[y].res = <<x, "made">> /\ <<x, "made">> # None
          BY <1>1, <1>4, <3>2, IdTypes
        <4> QED BY <4>1 DEF Known
      <3> QED BY <3>1, <3>2
    <2>2. x \notin Unfinished(req) /\ x \notin CallsIn(todo, "enqueue")
      BY <2>1 DEF ResultInv
    <2>3. x \in Known(req)
      <3>1. <<x, "made">>[1] = x
        OBVIOUS
      <3> QED BY <2>1, <3>1 DEF ResultInv
    <2> QED BY <1>1, <2>2, <2>3 DEF Unfinished
  <1>5. \A x \in Ids : req'[x].state = "PROCESSING" => req'[x].supported
    BY <1>1 DEF ResultInv
  <1> QED BY <1>3, <1>4, <1>5 DEF ResultInv

(* preprocessor_add_request: the received values are new, have results of  *)
(* their own, and are to be enqueued.                                      *)
LEMMA BatchFacts ==
  ASSUME IInv, NEW batch \in Batches, preprocessor_add_request(batch)
  PROVE  /\ todo = <<>> /\ received + Len(batch) <= MaxReceived
         /\ \A x \in BatchIds(batch) : x \in Ids /\ x \notin Known(req) /\ req[x].state = "FREE"
         /\ \A x \in Ids : /\ req'[x].state = req[x].state
                           /\ req'[x].res = IF x \in BatchIds(batch) THEN <<x, "collected">> ELSE req[x].res
                           /\ x \notin BatchIds(batch) => req'[x].supported = req[x].supported
         /\ \A x : x \in CallsIn(todo', "enqueue") <=> x \in BatchIds(batch)
         /\ \A x : x \notin CallsIn(todo', "clear")
         /\ \A op, x : x \notin CallsIn(todo, op)
  <1>1. TypeInv /\ ValueInv(req, flushed, todo, received) /\ todo = <<>>
    BY DEF IInv, preprocessor_add_request
  <1>2. /\ received + Len(batch) <= MaxReceived
        /\ \A x \in Ids : /\ req'[x].state = req[x].state
                          /\ req'[x].res = IF x \in BatchIds(batch) THEN <<x, "collected">> ELSE req[x].res
                          /\ x \notin BatchIds(batch) => req'[x].supported = req[x].supported
    BY <1>1, BatchFields
  <1>3. received \in Nat /\ \A x \in BatchIds(batch) : x \in Ids /\ x[1] > received
    BY <1>1, <1>2, BatchProperties
  <1>4. \A x \in BatchIds(batch) : x \notin Known(req)
    <2>1. ASSUME NEW x \in BatchIds(batch), x \in Known(req) PROVE FALSE
      <3>1. x \in Ids /\ x[1] > received /\ x[1] <= received /\ x[1] \in Nat
        BY <1>1, <1>3, <2>1, IdTypes DEF ValueInv
      <3> QED BY <1>3, <3>1
    <2> QED BY <2>1
  <1>5. \A x \in BatchIds(batch) : req[x].state = "FREE"
    BY <1>1, <1>3, <1>4 DEF ValueInv
  <1>6. /\ \A x : x \in CallsIn(todo', "enqueue") <=> x \in BatchIds(batch)
        /\ \A x : x \notin CallsIn(todo', "clear")
    BY <1>1, BatchCalls
  <1> QED BY <1>1, <1>2, <1>3, <1>4, <1>5, <1>6, NoCalls

(* preprocessor_add_request keeps ResultInv.                               *)
LEMMA ResultAddRequest ==
  ASSUME IInv, ResultInv, NEW batch \in Batches, preprocessor_add_request(batch)
  PROVE  ResultInv'
  <1> DEFINE B == BatchIds(batch)
  <1>1. /\ \A x \in B : x \in Ids /\ x \notin Known(req) /\ req[x].state = "FREE"
        /\ \A x \in Ids : /\ req'[x].state = req[x].state
                          /\ req'[x].res = IF x \in B THEN <<x, "collected">> ELSE req[x].res
                          /\ x \notin B => req'[x].supported = req[x].supported
        /\ \A x : x \in CallsIn(todo', "enqueue") <=> x \in B
    BY BatchFacts
  <1> HIDE DEF B
  <1>2. \A x \in Ids : x \in Known(req') <=> x \in Known(req) \/ x \in B
    BY <1>1, IdTypes DEF Known
  <1>3. \A x \in Known(req') : req'[x].res[1] \in Known(req')
    <2>1. ASSUME NEW x \in Known(req') PROVE req'[x].res[1] \in Known(req')
      <3>1. x \in Ids
        BY DEF Known
      <3>2. CASE x \in B
        <4>1. req'[x].res = <<x, "collected">> /\ <<x, "collected">>[1] = x
          BY <1>1, <3>1, <3>2
        <4> QED BY <2>1, <4>1
      <3>3. CASE x \notin B
        <4>1. x \in Known(req) /\ req'[x].res = req[x].res
          BY <1>1, <1>2, <2>1, <3>1, <3>3
        <4>2. req[x].res[1] \in Known(req) /\ req[x].res[1] \in Ids
          BY <4>1 DEF ResultInv, Known
        <4> QED BY <1>2, <4>1, <4>2
      <3> QED BY <3>2, <3>3
    <2> QED BY <2>1
  <1>4. ASSUME NEW x \in Ids, NEW y \in Ids, req'[y].res = <<x, "made">>
        PROVE  x \notin Unfinished(req') /\ x \notin CallsIn(todo', "enqueue")
    <2>1. y \notin B /\ req[y].res = <<x, "made">>
      <3>1. <<y, "collected">> # <<x, "made">>
        OBVIOUS
      <3> QED BY <1>1, <1>4, <3>1
    <2>2. x \notin Unfinished(req)
      BY <2>1 DEF ResultInv
    <2>3. x \in Known(req)
      <3>1. <<x, "made">>[1] = x /\ <<x, "made">> # None
        BY IdTypes
      <3> QED BY <2>1, <3>1 DEF ResultInv, Known
    <2> QED BY <1>1, <2>2, <2>3 DEF Unfinished
  <1>5. \A x \in Ids : req'[x].state = "PROCESSING" => req'[x].supported
    BY <1>1 DEF ResultInv
  <1> QED BY <1>3, <1>4, <1>5 DEF ResultInv


ResultOf(w) == Head(outbox[w]).outcome

(* The request a result is about is being processed.                       *)
LEMMA AddResultReply ==
  ASSUME IInv, NEW w \in Workers, preprocessor_add_result(w)
  PROVE  /\ ResultOf(w) \in {"value", "none", "error"}
         /\ task[w] \in Ids /\ task[w] \in Known(req) /\ task[w] \in Unfinished(req)
         /\ req[task[w]].state = "PROCESSING" /\ req[task[w]].res \in Results
         /\ req \in [Ids -> Request] /\ refcount \in [Results -> Int]
  <1>1. TypeInv /\ WorkInv /\ ValueInv(req, flushed, todo, received)
    BY DEF IInv
  <1>2. outbox[w] # <<>> /\ Head(outbox[w]).kind = "result"
    BY DEF preprocessor_add_result
  <1>3. Head(outbox[w]) \in Reply
    BY <1>1, <1>2, WorkerFacts
  <1>4. ResultOf(w) \in {"value", "none", "error"}
    BY <1>2, <1>3, ReplyTypes DEF ResultOf
  <1>5. task[w] \in Ids /\ req[task[w]].state = "PROCESSING"
    BY AddResultCalls
  <1>6. task[w] \in Unfinished(req)
    BY <1>5 DEF Unfinished
  <1>7. task[w] \in Known(req)
    BY <1>1, <1>6, ValueFacts
  <1>8. req \in [Ids -> Request] /\ refcount \in [Results -> Int]
    BY <1>1 DEF TypeInv
  <1>9. req[task[w]].res \in Results \cup {None}
    BY ONLY <1>5, <1>8 DEF Request
  <1>10. req[task[w]].res \in Results
    BY <1>7, <1>9 DEF Known
  <1> QED BY <1>4, <1>5, <1>6, <1>7, <1>8, <1>10

(* preprocessor_set_variant_result changes the result, or the support, of  *)
(* one value.                                                              *)
LEMMA VariantResults ==
  ASSUME NEW id \in Ids, NEW outcome \in {"value", "none", "error"}, req \in [Ids -> Request],
         refcount \in [Results -> Int]
  PROVE  \A x \in Ids :
            /\ SetVariantResult(id, outcome, req, refcount).req[x].supported = IF x = id /\ outcome = "error" THEN FALSE ELSE req[x].supported
            /\ SetVariantResult(id, outcome, req, refcount).req[x].res = IF x = id /\ outcome # "error" THEN <<id, "made">> ELSE req[x].res
  <1>1. CASE outcome = "error"
    <2>1. SetVariantResult(id, outcome, req, refcount) = [req |-> [req EXCEPT ![id].supported = FALSE], refcount |-> refcount]
      BY <1>1 DEF SetVariantResult
    <2>2. SetVariantResult(id, outcome, req, refcount).req = [req EXCEPT ![id].supported = FALSE]
      BY <2>1
    <2>3. \A x \in Ids : SetVariantResult(id, outcome, req, refcount).req[x] = IF x = id THEN [req[x] EXCEPT !.supported = FALSE] ELSE req[x]
      BY <2>2
    <2> QED BY <1>1, <2>3 DEF Request
  <1>2. CASE outcome # "error"
    <2>1. SetVariantResult(id, outcome, req, refcount).req = [req EXCEPT ![id].isset = (outcome = "value"), ![id].res = <<id, "made">>]
      BY <1>2 DEF SetVariantResult
    <2>2. \A x \in Ids : x # id => SetVariantResult(id, outcome, req, refcount).req[x] = req[x]
      BY <2>1
    <2>3. SetVariantResult(id, outcome, req, refcount).req[id] = [req[id] EXCEPT !.isset = (outcome = "value"), !.res = <<id, "made">>]
      BY <2>1
    <2>4. req[id] \in Request
      OBVIOUS
    <2>5. /\ SetVariantResult(id, outcome, req, refcount).req[id].supported = req[id].supported
          /\ SetVariantResult(id, outcome, req, refcount).req[id].res = <<id, "made">>
      BY ONLY <2>3, <2>4 DEF Request
    <2> QED BY <1>2, <2>2, <2>5
  <1> QED BY <1>1, <1>2

(* preprocessor_add_result: the value is done, with a result of its own    *)
(* unless preprocessing failed, and the request waiting for it is queued.  *)
LEMMA AddResultFields ==
  ASSUME IInv, NEW w \in Workers, preprocessor_add_result(w)
  PROVE  LET id == task[w]
         IN
         /\ \A x \in Ids :
              /\ req'[x].res = IF x = id /\ ResultOf(w) # "error" THEN <<id, "made">> ELSE req[x].res
              /\ req'[x].supported = IF x = id /\ ResultOf(w) = "error" THEN FALSE ELSE req[x].supported
              /\ req'[x].state = IF x = id THEN "DONE" ELSE IF x = req[id].pending THEN "QUEUED" ELSE req[x].state
         /\ \A x \in Ids : x \in Held(req') <=> x \in Held(req)
         /\ \A x \in Ids : x \in Unfinished(req') <=> x \in Unfinished(req) /\ x # id
  <1>1. ResultOf(w) \in {"value", "none", "error"} /\ task[w] \in Ids /\ req \in [Ids -> Request] /\ refcount \in [Results -> Int]
    BY AddResultReply
  <1>2. ValuesEffect(task[w], SetVariantResult(task[w], ResultOf(w), req, refcount).req, todo')
    BY AddResult DEF ResultOf
  <1>3. \A x \in Ids :
            /\ SetVariantResult(task[w], ResultOf(w), req, refcount).req[x].supported = IF x = task[w] /\ ResultOf(w) = "error" THEN FALSE ELSE req[x].supported
            /\ SetVariantResult(task[w], ResultOf(w), req, refcount).req[x].res = IF x = task[w] /\ ResultOf(w) # "error" THEN <<task[w], "made">> ELSE req[x].res
    BY <1>1, VariantResults
  <1>4. \A x \in Ids :
          /\ req'[x].state = IF x = task[w] THEN "DONE" ELSE IF x = req[task[w]].pending THEN "QUEUED" ELSE req[x].state
          /\ req'[x].supported = SetVariantResult(task[w], ResultOf(w), req, refcount).req[x].supported
          /\ req'[x].res = SetVariantResult(task[w], ResultOf(w), req, refcount).req[x].res
    BY <1>2 DEF ValuesEffect
  <1>5. /\ \A x \in Ids : x \in Held(req') <=> x \in Held(req)
        /\ \A x \in Ids : x \in Unfinished(req') <=> x \in Unfinished(req) /\ x # task[w]
    BY <1>2 DEF ValuesEffect
  <1> QED BY <1>3, <1>4, <1>5

(* preprocessor_set_variant_result drops a reference to the result the     *)
(* value shared and makes one with a single user.                          *)
LEMMA AddResultCounts ==
  ASSUME IInv, NEW w \in Workers, preprocessor_add_result(w)
  PROVE  LET id == task[w]
         IN  /\ ResultOf(w) = "error" => \A q \in Results : refcount'[q] = refcount[q]
             /\ ResultOf(w) # "error" => \A q \in Results :
                   refcount'[q] = IF q = <<id, "made">> THEN 1
                                  ELSE IF q = req[id].res THEN refcount[q] - 1 ELSE refcount[q]
  <1> DEFINE id == task[w]
  <1>1. req[id].res \in Results /\ id \in Ids /\ refcount \in [Results -> Int]
    BY AddResultReply
  <1>2. refcount' = SetVariantResult(id, ResultOf(w), req, refcount).refcount
    BY DEF preprocessor_add_result, ResultOf
  <1>3. CASE ResultOf(w) = "error"
    BY <1>2, <1>3 DEF SetVariantResult
  <1>4. CASE ResultOf(w) # "error"
    <2>1. refcount' = [refcount EXCEPT ![req[id].res] = @ - 1, ![<<id, "made">>] = 1]
      BY <1>2, <1>4 DEF SetVariantResult
    <2> HIDE DEF id
    <2>2. \A q \in Results :
                   refcount'[q] = IF q = <<id, "made">> THEN 1
                                  ELSE IF q = req[id].res THEN refcount[q] - 1 ELSE refcount[q]
      BY <2>1, <1>1
    <2> QED BY <2>2, <1>4 DEF id
  <1> QED BY <1>3, <1>4

(* preprocessor_add_result enqueues and clears nothing itself.             *)
LEMMA AddResultTodo ==
  ASSUME IInv, NEW w \in Workers, preprocessor_add_result(w)
  PROVE  /\ \A op, x : x \notin CallsIn(todo, op)
         /\ \A x : x \notin CallsIn(todo', "enqueue") /\ x \notin CallsIn(todo', "clear")
  <1>1. todo = <<>> /\ KeepCalls(todo, todo')
    BY AddResultCalls
  <1>2. todo \in Seq(CallRecord) /\ todo' \in Seq(CallRecord)
    <2>1. IInv'
      BY AddResult
    <2> QED BY <2>1 DEF IInv, TypeInv
  <1>3. \A op, x : x \notin CallsIn(todo, op)
    BY <1>1, NoCalls
  <1>4. \A x : x \in CallsIn(todo', "enqueue") <=> x \in CallsIn(todo, "enqueue")
    BY <1>1, <1>2, KeepCallsIn
  <1>5. \A x : x \in CallsIn(todo', "clear") <=> x \in CallsIn(todo, "clear")
    BY <1>1, <1>2, KeepCallsIn
  <1> QED BY <1>3, <1>4, <1>5

(* preprocessor_add_result keeps ResultInv.                                *)
LEMMA ResultAddResult ==
  ASSUME IInv, IInv', ResultInv, NEW w \in Workers, preprocessor_add_result(w)
  PROVE  ResultInv'
  <1> DEFINE id == task[w]
  <1>1. /\ id \in Ids /\ id \in Known(req)
        /\ \A x \in Ids : <<x, "made">>[1] = x /\ <<x, "made">> # None
    BY AddResultReply, IdTypes
  <1> HIDE DEF id
  <1>2. \A x \in Ids :
                  /\ req'[x].res = IF x = id /\ ResultOf(w) # "error" THEN <<id, "made">> ELSE req[x].res
                  /\ req'[x].supported = IF x = id /\ ResultOf(w) = "error" THEN FALSE ELSE req[x].supported
                  /\ req'[x].state = IF x = id THEN "DONE" ELSE IF x = req[id].pending THEN "QUEUED" ELSE req[x].state
    BY AddResultFields DEF id
  <1>3. \A x \in Ids : x \in Unfinished(req') <=> x \in Unfinished(req) /\ x # id
    BY AddResultFields DEF id
  <1>4. \A x : x \notin CallsIn(todo', "enqueue") /\ x \notin CallsIn(todo, "enqueue")
    BY AddResultTodo
  <1> HIDE DEF id
  <1>5. \A x : x \in Known(req') <=> x \in Known(req)
    BY <1>1, <1>2 DEF Known
  <1>6. \A x \in Known(req') : req'[x].res[1] \in Known(req')
    <2> TAKE x \in Known(req')
    <2>1. x \in Ids /\ x \in Known(req)
      BY <1>5 DEF Known
    <2>2. CASE x = id /\ ResultOf(w) # "error"
      <3>1. req'[x].res = <<id, "made">>
        BY <1>2, <2>1, <2>2
      <3> QED BY <3>1, <1>1, <1>5
    <2>3. CASE ~(x = id /\ ResultOf(w) # "error")
      <3>1. req'[x].res = req[x].res
        BY <1>2, <2>1, <2>3
      <3>2. req[x].res[1] \in Known(req)
        BY <2>1 DEF ResultInv
      <3> QED BY <3>1, <3>2, <1>5
    <2> QED BY <2>2, <2>3
  <1>7. \A x, y \in Ids : req'[y].res = <<x, "made">> => x \notin Unfinished(req') /\ x \notin CallsIn(todo', "enqueue")
    <2> TAKE x, y \in Ids
    <2> HAVE req'[y].res = <<x, "made">>
    <2>1. CASE y = id /\ ResultOf(w) # "error"
      <3>1. <<x, "made">> = <<id, "made">>
        BY <1>2, <2>1
      <3>2. x = id
        BY <3>1, <1>1
      <3> QED BY <3>2, <1>3, <1>4
    <2>2. CASE ~(y = id /\ ResultOf(w) # "error")
      <3>1. req[y].res = <<x, "made">>
        BY <1>2, <2>2
      <3> QED BY <3>1, <1>3, <1>4 DEF ResultInv
    <2> QED BY <2>1, <2>2
  <1>8. \A x \in Ids : req'[x].state = "PROCESSING" => req'[x].supported
    BY <1>2 DEF ResultInv
  <1> QED BY <1>6, <1>7, <1>8 DEF ResultInv

(* ResultInv holds when the manager starts.                                *)
LEMMA ResultInit == Init => ResultInv
  <1> SUFFICES ASSUME Init PROVE ResultInv
    OBVIOUS
  <1>1. \A x \in Ids : req[x] = NoRequest
    BY DEF Init
  <1>2. \A x \in Ids : req[x].res = None /\ req[x].state = "FREE"
    BY <1>1, NoRequestFields
  <1>3. \A x \in Ids : <<x, "made">> # None
    BY IdTypes
  <1> QED BY <1>2, <1>3 DEF ResultInv, Known

(* Every step keeps ResultInv.                                             *)
LEMMA ResultNext ==
  ASSUME IInv, IInv', ResultInv, [Next]_vars
  PROVE  ResultInv'
  <1>1. CASE UNCHANGED vars
    <2>1. UNCHANGED <<req, todo>>
      BY <1>1 DEF vars, qvars
    <2> QED BY <2>1 DEF ResultInv, Known, Unfinished, CallsIn
  <1>2. CASE Next
    BY <1>2, NextCases, ResultQuiet, ResultClear, ResultEnqueueNow, ResultEnqueueQueued, ResultDerived,
       ResultUnsupported, ResultAssignValue, ResultFlush, ResultAddRequest, ResultAddResult, Zenon
  <1> QED BY <1>1, <1>2


------------------------------------------------------------------------------
(* Counting *)

LEMMA CountOfDisjoint ==
  ASSUME NEW S, NEW T, NEW U, IsFiniteSet(S), IsFiniteSet(T), \A x \in S : x \notin T,
         \A x : x \in U <=> x \in S \/ x \in T
  PROVE  IsFiniteSet(U) /\ Cardinality(U) = Cardinality(S) + Cardinality(T) /\ Cardinality(S) \in Nat /\ Cardinality(T) \in Nat
  <1>1. U = S \cup T
    BY Zenon
  <1>2. S \cap T = {}
    BY Zenon
  <1>3. IsFiniteSet(S \cup T) /\ Cardinality(S \cup T) = Cardinality(S) + Cardinality(T) - Cardinality(S \cap T)
    BY FS_Union, Zenon
  <1>4. Cardinality(S) \in Nat /\ Cardinality(T) \in Nat /\ Cardinality({}) = 0
    BY FS_CardinalityType, FS_EmptySet, Zenon
  <1>5. Cardinality(S \cup T) = Cardinality(S) + Cardinality(T) - 0
    BY <1>2, <1>3, <1>4, Zenon
  <1>6. \A a, b, c \in Nat : a = b + c - 0 => a = b + c
    OBVIOUS
  <1>7. Cardinality(U) \in Nat
    BY <1>1, <1>3, FS_CardinalityType, Zenon
  <1> QED BY ONLY <1>1, <1>3, <1>4, <1>5, <1>6, <1>7

(* The number of elements of a set with one more.                          *)
LEMMA CountOfAdded ==
  ASSUME NEW S, NEW T, NEW y, IsFiniteSet(S), y \notin S, \A x : x \in T <=> x \in S \/ x = y
  PROVE  IsFiniteSet(T) /\ Cardinality(T) = Cardinality(S) + 1 /\ Cardinality(S) \in Nat
  <1>1. T = S \cup {y}
    BY Zenon
  <1> QED BY <1>1, FS_AddElement, FS_CardinalityType, Zenon

(* The number of elements of a set with one less.                          *)
LEMMA CountOfRemoved ==
  ASSUME NEW S, NEW T, NEW y, IsFiniteSet(S), y \in S, \A x : x \in T <=> x \in S /\ x # y
  PROVE  IsFiniteSet(T) /\ Cardinality(T) = Cardinality(S) - 1 /\ Cardinality(S) \in Nat
  <1>1. T = S \ {y}
    BY Zenon
  <1> QED BY <1>1, FS_RemoveElement, FS_CardinalityType, Zenon

(* A set whose elements are listed without repetition has as many elements *)
(* as the list has positions.                                              *)
LEMMA CountOfImage ==
  ASSUME NEW S, NEW T, NEW f, IsFiniteSet(S),
         \A k \in S : f[k] \in T,
         \A j, k \in S : f[j] = f[k] => j = k,
         \A x \in T : \E k \in S : f[k] = x
  PROVE  IsFiniteSet(T) /\ Cardinality(T) = Cardinality(S)
  <1> DEFINE g == [k \in S |-> f[k]]
  <1>1. g \in [S -> T] /\ \A k \in S : g[k] = f[k]
    BY Zenon
  <1> HIDE DEF g
  <1>2. g \in Injection(S, T)
    BY <1>1 DEF Injection, IsInjective
  <1>3. g \in Surjection(S, T)
    BY <1>1 DEF Surjection
  <1> QED BY <1>2, <1>3, FS_Surjection, Zenon

(* There are finitely many values.                                         *)
LEMMA IdsFinite ==
  ASSUME NEW S, S \subseteq Ids
  PROVE  IsFiniteSet(S) /\ Cardinality(S) \in Nat
  <1>1. IsFiniteSet(Items) /\ MaxReceived \in Nat
    BY PreprocAssumption
  <1>2. IsFiniteSet(1..MaxReceived)
    <2>1. 1 \in Int /\ MaxReceived \in Int
      BY <1>1
    <2> QED BY <2>1, FS_Interval, Zenon
  <1>3. IsFiniteSet((1..MaxReceived) \X Items)
    BY <1>1, <1>2, FS_Product, Zenon
  <1>4. IsFiniteSet(Ids)
    BY <1>3 DEF Ids
  <1> QED BY <1>4, FS_Subset, FS_CardinalityType, Zenon

------------------------------------------------------------------------------
(* The values that use result q. *)
Users(r, s, q) ==
    {x \in Ids : (x \in Held(r) \/ x \in CallsIn(s, "enqueue") \/ x \in CallsIn(s, "clear")) /\ r[x].res = q}

RefInv == \A q \in Results : refcount[q] = Cardinality(Users(req, todo, q))

(* A result has finitely many users.                                       *)
LEMMA UsersFinite ==
  ASSUME NEW r, NEW s, NEW q
  PROVE  IsFiniteSet(Users(r, s, q)) /\ Cardinality(Users(r, s, q)) \in Nat
  <1>1. Users(r, s, q) \subseteq Ids
    BY DEF Users
  <1> QED BY <1>1, IdsFinite

(* A step that changes neither the results of the values nor which values  *)
(* are in use keeps the reference counters exact.                          *)
LEMMA RefSame ==
  ASSUME RefInv, refcount' = refcount,
         \A x \in Ids : req'[x].res = req[x].res,
         \A x \in Ids : x \in Held(req') \/ x \in CallsIn(todo', "enqueue") \/ x \in CallsIn(todo', "clear") <=>
                        x \in Held(req) \/ x \in CallsIn(todo, "enqueue") \/ x \in CallsIn(todo, "clear")
  PROVE  RefInv'
  <1> SUFFICES ASSUME NEW q \in Results PROVE refcount'[q] = Cardinality(Users(req', todo', q))
    BY DEF RefInv
  <1>1. Users(req', todo', q) = Users(req, todo, q)
    BY DEF Users
  <1> QED BY <1>1 DEF RefInv

(* A quiet step keeps them exact.                                          *)
LEMMA RefQuiet ==
  ASSUME IInv, IInv', RefInv, QuietStep
  PROVE  RefInv'
  <1>1. Quiet /\ req' = req /\ refcount' = refcount
    BY QuietSteps DEF Quiet
  <1>2. /\ \A x : x \in CallsIn(todo', "enqueue") <=> x \in CallsIn(todo, "enqueue")
        /\ \A x : x \in CallsIn(todo', "clear") <=> x \in CallsIn(todo, "clear")
    BY <1>1, QuietCalls
  <1> QED BY <1>1, <1>2, RefSame

(* So does preprocessor_enqueue of a value that is flushed at once: it is  *)
(* still to be cleared.                                                    *)
LEMMA RefEnqueueNow ==
  ASSUME IInv, RefInv, NEW id, EnqueueNow(id)
  PROVE  RefInv'
  <1>1. req' = req /\ refcount' = refcount
    BY DEF EnqueueNow
  <1>2. /\ \A x : x \in CallsIn(todo', "enqueue") <=> x \in CallsIn(todo, "enqueue") /\ x # id
        /\ \A x : x \in CallsIn(todo', "clear") <=> x \in CallsIn(todo, "clear") \/ x = id
        /\ id \in CallsIn(todo, "enqueue")
    BY EnqueueNowCallsKept
  <1> QED BY <1>1, <1>2, RefSame

(* So does preprocessor_enqueue of a value that is queued.                 *)
LEMMA RefEnqueueQueued ==
  ASSUME IInv, RefInv, NEW id, NEW master, NEW done, NEW r, EnqueueQueued(id, master, done, r)
  PROVE  RefInv'
  <1>1. /\ \A x : x \in CallsIn(todo', "enqueue") <=> x \in CallsIn(todo, "enqueue") /\ x # id
        /\ \A x : x \in CallsIn(todo', "clear") <=> x \in CallsIn(todo, "clear")
        /\ id \in CallsIn(todo, "enqueue") /\ id \in Ids
    BY EnqueueQueuedCallsKept
  <1>2. /\ \A x \in Ids : x # id => req'[x].state = req[x].state
        /\ \A x \in Ids : req'[x].res = req[x].res
        /\ \A x \in Ids : x = id => req'[x].state # "FREE"
    BY QueuedFields
  <1>3. \A x \in Ids : x \in Held(req') <=> x \in Held(req) \/ x = id
    <2>1. id \in Held(req')
      BY <1>1, <1>2 DEF Held
    <2> QED BY <1>2, <2>1 DEF Held
  <1>4. refcount' = refcount
    BY DEF EnqueueQueued
  <1> QED BY <1>1, <1>2, <1>3, <1>4, RefSame

(* So does preprocessor_assign_tasks for a value that is sent.             *)
LEMMA RefAssignValue ==
  ASSUME IInv, IInv', RefInv, NEW w, NEW id, AssignValue(w, id)
  PROVE  RefInv'
  <1>1. /\ id \in Ids /\ req[id].state = "QUEUED"
        /\ \A x \in Ids : /\ req'[x].state = IF x = id THEN "PROCESSING" ELSE req[x].state
                          /\ req'[x].res = req[x].res
    BY AssignValueFields
  <1>2. todo \in Seq(CallRecord) /\ todo' \in Seq(CallRecord)
    BY DEF IInv, TypeInv
  <1>3. KeepCalls(todo, todo')
    BY <1>2, AssignValueCalls
  <1>4. /\ \A x : x \in CallsIn(todo', "enqueue") <=> x \in CallsIn(todo, "enqueue")
        /\ \A x : x \in CallsIn(todo', "clear") <=> x \in CallsIn(todo, "clear")
    BY <1>2, <1>3, KeepCallsIn
  <1>5. \A x \in Ids : x \in Held(req') <=> x \in Held(req)
    BY <1>1 DEF Held
  <1>6. refcount' = refcount
    BY DEF AssignValue
  <1> QED BY <1>1, <1>4, <1>5, <1>6, RefSame

(* So does preprocessor_assign_tasks for a value that is not supported.    *)
LEMMA RefUnsupported ==
  ASSUME IInv, IInv', RefInv, NEW k, NEW id, AssignUnsupported(k, id)
  PROVE  RefInv'
  <1>1. ValuesEffect(id, req, todo')
    BY AssignUnsupportedStep
  <1>2. todo \in Seq(CallRecord) /\ todo' \in Seq(CallRecord)
    BY DEF IInv, TypeInv
  <1>3. KeepCalls(todo, todo')
    BY <1>2, AssignUnsupportedCalls
  <1>4. /\ \A x : x \in CallsIn(todo', "enqueue") <=> x \in CallsIn(todo, "enqueue")
        /\ \A x : x \in CallsIn(todo', "clear") <=> x \in CallsIn(todo, "clear")
    BY <1>2, <1>3, KeepCallsIn
  <1>5. \A x \in Ids : (x \in Held(req') <=> x \in Held(req)) /\ req'[x].res = req[x].res
    BY <1>1 DEF ValuesEffect
  <1>6. refcount' = refcount
    BY DEF AssignUnsupported
  <1> QED BY <1>4, <1>5, <1>6, RefSame


(* So does preproc_item_value_clear: one value less uses the result.       *)
LEMMA RefClear ==
  ASSUME IInv, RefInv, preproc_item_value_clear
  PROVE  RefInv'
  <1> DEFINE id == Head(todo).id
  <1>1. /\ req' = req /\ todo # <<>> /\ todo' = Tail(todo) /\ Head(todo).op = "clear"
        /\ refcount' = [refcount EXCEPT ![req[id].res] = @ - 1]
    BY DEF preproc_item_value_clear, Calling, Return
  <1>2. /\ todo \in Seq(CallRecord) /\ CallInv(todo) /\ refcount \in [Results -> Int]
        /\ ValueInv(req, flushed, todo, received)
    BY DEF IInv, TypeInv
  <1>3. /\ id \in CallsIn(todo, "clear") /\ id \notin CallsIn(todo', "clear")
        /\ \A op, x : x \in CallsIn(todo', op) => x \in CallsIn(todo, op)
        /\ \A op, x : x \in CallsIn(todo, op) => x \in CallsIn(todo', op) \/ (Head(todo).op = op /\ Head(todo).id = x)
    BY <1>1, <1>2, TailCalls DEF CallInv
  <1>4. id \in Ids /\ id \notin Held(req) /\ id \notin CallsIn(todo, "enqueue")
    BY <1>2, <1>3 DEF ValueInv, CallsIn
  <1> HIDE DEF id
  <1>5. \A x : x \in CallsIn(todo', "enqueue") <=> x \in CallsIn(todo, "enqueue")
    BY <1>1, <1>3
  <1>6. \A x : x \in CallsIn(todo', "clear") <=> x \in CallsIn(todo, "clear") /\ x # id
    BY <1>3 DEF id
  <1>7. ASSUME NEW q \in Results PROVE refcount'[q] = Cardinality(Users(req', todo', q))
    <2>1. refcount[q] = Cardinality(Users(req, todo, q)) /\ refcount[q] \in Int
      BY <1>2 DEF RefInv
    <2>2. CASE q = req[id].res
      <3>1. \A x : x \in Users(req', todo', q) <=> x \in Users(req, todo, q) /\ x # id
        BY <1>1, <1>4, <1>5, <1>6 DEF Users
      <3>2. id \in Users(req, todo, q)
        BY <1>3, <1>4, <2>2 DEF Users
      <3>3. IsFiniteSet(Users(req, todo, q))
        BY UsersFinite
      <3>4. Cardinality(Users(req', todo', q)) = Cardinality(Users(req, todo, q)) - 1
        BY <3>1, <3>2, <3>3, CountOfRemoved
      <3>5. refcount'[q] = refcount[q] - 1
        BY <1>1, <1>2, <2>2
      <3> QED BY <2>1, <3>4, <3>5
    <2>3. CASE q # req[id].res
      <3>1. Users(req', todo', q) = Users(req, todo, q)
        BY <1>1, <1>5, <1>6, <2>3 DEF Users
      <3>2. refcount'[q] = refcount[q]
        BY <1>1, <1>2, <2>3
      <3> QED BY <2>1, <3>1, <3>2
    <2> QED BY <2>2, <2>3
  <1> QED BY <1>7 DEF RefInv

(* So does preprocessor_enqueue_dependent: as many values more use the     *)
(* result as there are dependent items.                                    *)
LEMMA RefDerived ==
  ASSUME IInv, RefInv, NEW id, NEW s, DependentsDerived(id, s)
  PROVE  RefInv'
  <1> DEFINE D == DerivedIds(id)
  <1>1. /\ id \in Ids /\ req[id].res \in Results
        /\ \A x \in D : x \in Ids /\ x \notin Known(req) /\ req[x].state = "FREE"
        /\ \A x \in Ids : /\ req'[x].state = req[x].state
                          /\ req'[x].res = IF x \in D THEN req[id].res ELSE req[x].res
        /\ \A x : x \in CallsIn(todo', "enqueue") <=> x \in D \/ x \in CallsIn(todo, "enqueue")
    BY DerivedFacts
  <1>2. todo \in Seq(CallRecord) /\ CallInv(todo) /\ refcount \in [Results -> Int]
    BY DEF IInv, TypeInv
  <1>3. \A x : x \in CallsIn(todo', "clear") <=> x \in CallsIn(todo, "clear")
    BY <1>2, DerivedCalls
  <1>4. refcount' = [refcount EXCEPT ![req[id].res] = @ + Cardinality(D)]
    BY DEF DependentsDerived
  <1> HIDE DEF D
  <1>5. \A x \in Ids : x \in Held(req') <=> x \in Held(req)
    BY <1>1 DEF Held
  <1>6. D \subseteq Ids /\ \A x \in D : req[x].res = None
    BY <1>1 DEF Known
  <1>7. ASSUME NEW q \in Results PROVE refcount'[q] = Cardinality(Users(req', todo', q))
    <2>1. refcount[q] = Cardinality(Users(req, todo, q)) /\ refcount[q] \in Int /\ q # None
      BY <1>2, IdTypes DEF RefInv
    <2>2. CASE q = req[id].res
      <3>1. \A x : x \in Users(req', todo', q) <=> x \in Users(req, todo, q) \/ x \in D
        <4>1. ASSUME NEW x \in D PROVE x \in Users(req', todo', q)
          BY <1>1, <1>6, <2>2 DEF Users
        <4>2. ASSUME NEW x, x \notin D PROVE x \in Users(req', todo', q) <=> x \in Users(req, todo, q)
          BY <1>1, <1>3, <1>5, <4>2 DEF Users
        <4> QED BY <4>1, <4>2
      <3>2. \A x \in Users(req, todo, q) : x \notin D
        BY <1>6, <2>1 DEF Users
      <3>3. IsFiniteSet(Users(req, todo, q)) /\ IsFiniteSet(D)
        BY <1>6, UsersFinite, IdsFinite
      <3>4. Cardinality(Users(req', todo', q)) = Cardinality(Users(req, todo, q)) + Cardinality(D)
        BY <3>1, <3>2, <3>3, CountOfDisjoint
      <3>5. refcount'[q] = refcount[q] + Cardinality(D)
        BY <1>2, <1>4, <2>2
      <3> QED BY <2>1, <3>4, <3>5
    <2>3. CASE q # req[id].res
      <3>1. \A x \in Ids : x \in Users(req', todo', q) <=> x \in Users(req, todo, q)
        <4> TAKE x \in Ids
        <4>1. CASE x \in D
          BY <1>1, <1>6, <2>1, <2>3, <4>1 DEF Users
        <4>2. CASE x \notin D
          BY <1>1, <1>3, <1>5, <4>2 DEF Users
        <4> QED BY <4>1, <4>2
      <3>2. Users(req', todo', q) = Users(req, todo, q)
        <4>1. Users(req', todo', q) \subseteq Ids /\ Users(req, todo, q) \subseteq Ids
          BY DEF Users
        <4> QED BY <3>1, <4>1
      <3>3. refcount'[q] = refcount[q]
        BY <1>2, <1>4, <2>3
      <3> QED BY <2>1, <3>2, <3>3
    <2> QED BY <2>2, <2>3
  <1> QED BY <1>7 DEF RefInv

(* So does preprocessor_add_result: the value lets go of the result it     *)
(* shared, and nobody uses the new one yet.                                *)
LEMMA RefAddResult ==
  ASSUME IInv, IInv', ResultInv, RefInv, NEW w \in Workers, preprocessor_add_result(w)
  PROVE  RefInv'
  <1> DEFINE id == task[w]
             made == <<id, "made">>
  <1>1. /\ id \in Ids /\ id \in Unfinished(req) /\ req[id].res \in Results /\ refcount \in [Results -> Int]
    BY AddResultReply
  <1>2. \A x \in Ids : req'[x].res = IF x = id /\ ResultOf(w) # "error" THEN made ELSE req[x].res
    BY AddResultFields
  <1>3. \A x \in Ids : x \in Held(req') <=> x \in Held(req)
    BY AddResultFields
  <1>4. /\ \A op, x : x \notin CallsIn(todo, op)
        /\ \A x : x \notin CallsIn(todo', "enqueue") /\ x \notin CallsIn(todo', "clear")
    BY AddResultTodo
  <1>5. id \in Held(req)
    BY <1>1 DEF Held, Unfinished
  <1>6. \A y \in Ids : req[y].res # made
    BY <1>1 DEF ResultInv
  <1>7. made \in Results
    BY <1>1, IdTypes
  <1>8. /\ ResultOf(w) = "error" => \A q \in Results : refcount'[q] = refcount[q]
        /\ ResultOf(w) # "error" => \A q \in Results :
                   refcount'[q] = IF q = made THEN 1
                                  ELSE IF q = req[id].res THEN refcount[q] - 1 ELSE refcount[q]
    BY AddResultCounts
  <1> HIDE DEF id, made
  <1>9. ASSUME NEW q \in Results PROVE refcount'[q] = Cardinality(Users(req', todo', q))
    <2>1. refcount[q] = Cardinality(Users(req, todo, q)) /\ refcount[q] \in Int
      BY <1>1 DEF RefInv
    <2>2. CASE ResultOf(w) = "error" \/ (q # made /\ q # req[id].res)
      <3>1. refcount'[q] = refcount[q]
        BY <1>8, <2>2
      <3>2. \A x \in Ids : req'[x].res = q <=> req[x].res = q
        BY <1>2, <2>2
      <3>3. Users(req', todo', q) = Users(req, todo, q)
        BY <1>3, <1>4, <3>2 DEF Users
      <3> QED BY <2>1, <3>1, <3>3
    <2>3. CASE ResultOf(w) # "error" /\ q = made
      <3>1. \A x : x \in Users(req', todo', q) <=> x = id
        BY <1>1, <1>2, <1>3, <1>5, <1>6, <2>3 DEF Users
      <3>2. Users(req', todo', q) = {id}
        BY <3>1
      <3> QED BY <1>8, <2>3, <3>2, FS_Singleton
    <2>4. CASE ResultOf(w) # "error" /\ q # made /\ q = req[id].res
      <3>1. \A x \in Ids : req'[x].res = q <=> req[x].res = q /\ x # id
        BY <1>2, <2>4
      <3>2. \A x : x \in Users(req', todo', q) <=> x \in Users(req, todo, q) /\ x # id
        BY <1>3, <1>4, <3>1 DEF Users
      <3>3. id \in Users(req, todo, q)
        BY <1>1, <1>5, <2>4 DEF Users
      <3>4. Cardinality(Users(req', todo', q)) = Cardinality(Users(req, todo, q)) - 1
        BY <3>2, <3>3, UsersFinite, CountOfRemoved
      <3>5. refcount'[q] = refcount[q] - 1
        BY <1>8, <2>4
      <3> QED BY <2>1, <3>4, <3>5
    <2> QED BY <2>2, <2>3, <2>4
  <1> QED BY <1>9 DEF RefInv


(* So does preprocessing_flush_queue: a result loses the flushed values    *)
(* that used it.                                                           *)
LEMMA RefFlush ==
  ASSUME IInv, RefInv, NEW ids, FlushFirst(ids)
  PROVE  RefInv'
  <1>1. /\ ids \in Seq(Ids) /\ Len(ids) \in Nat /\ Injective(ids)
        /\ \A x : In1(ids, x) <=> x \in FlushedIds
        /\ \A x : x \in FlushedIds => x \in Held(req) /\ x \in Ids
        /\ \A x \in Ids : /\ req'[x].state = IF x \in FlushedIds THEN "FREE" ELSE req[x].state
                          /\ req'[x].res = req[x].res
    BY FlushFields
  <1>2. /\ todo' = todo
        /\ refcount' = [r \in Results |-> refcount[r] - Cardinality({k \in DOMAIN ids : req[ids[k]].res = r})]
    BY DEF FlushFirst
  <1>3. ValueInv(req, flushed, todo, received) /\ refcount \in [Results -> Int]
    BY DEF IInv, TypeInv
  <1>4. \A x \in FlushedIds : x \notin CallsIn(todo, "enqueue") /\ x \notin CallsIn(todo, "clear")
    BY <1>1, <1>3 DEF ValueInv
  <1>5. \A x \in Ids : x \in Held(req') <=> x \in Held(req) /\ x \notin FlushedIds
    BY <1>1 DEF Held
  <1>6. ASSUME NEW q \in Results PROVE refcount'[q] = Cardinality(Users(req', todo', q))
    <2> DEFINE K == {k \in DOMAIN ids : req[ids[k]].res = q}
               X == {x \in FlushedIds : req[x].res = q}
    <2>1. IsFiniteSet(K)
      <3>1. DOMAIN ids = 1..Len(ids) /\ 1 \in Int /\ Len(ids) \in Int
        BY <1>1
      <3>2. IsFiniteSet(DOMAIN ids)
        BY <3>1, FS_Interval, Zenon
      <3>3. K \in SUBSET (DOMAIN ids)
        OBVIOUS
      <3> QED BY <3>2, <3>3, FS_Subset, Zenon
    <2>2. /\ \A k \in K : k \in 1..Len(ids) /\ ids[k] \in X
          /\ \A x \in X : \E k \in K : ids[k] = x
      BY <1>1 DEF In1
    <2>3. \A j, k \in K : ids[j] = ids[k] => j = k
      BY <1>1, <2>2 DEF Injective
    <2> HIDE DEF K, X
    <2>4. IsFiniteSet(X) /\ Cardinality(X) = Cardinality(K)
      BY <2>1, <2>2, <2>3, CountOfImage
    <2>5. \A x : x \in Users(req, todo, q) <=> x \in Users(req', todo', q) \/ x \in X
      BY <1>1, <1>2, <1>4, <1>5 DEF Users, X
    <2>6. \A x \in Users(req', todo', q) : x \notin X
      BY <1>1, <1>2, <1>4, <1>5 DEF Users, X
    <2>7. IsFiniteSet(Users(req', todo', q))
      BY UsersFinite
    <2>8. /\ Cardinality(Users(req, todo, q)) = Cardinality(Users(req', todo', q)) + Cardinality(X)
          /\ Cardinality(Users(req', todo', q)) \in Nat /\ Cardinality(X) \in Nat
      BY <2>4, <2>5, <2>6, <2>7, CountOfDisjoint
    <2>9. refcount'[q] = refcount[q] - Cardinality(K) /\ refcount[q] = Cardinality(Users(req, todo, q))
      BY <1>2 DEF RefInv, K
    <2> QED BY ONLY <2>4, <2>8, <2>9
  <1> QED BY <1>6 DEF RefInv

(* So does preprocessor_add_request: nobody uses the results of new        *)
(* values.                                                                 *)
LEMMA RefAddRequest ==
  ASSUME IInv, ResultInv, RefInv, NEW batch \in Batches, preprocessor_add_request(batch)
  PROVE  RefInv'
  <1> DEFINE B == BatchIds(batch)
  <1>1. /\ \A x \in B : x \in Ids /\ x \notin Known(req) /\ req[x].state = "FREE"
        /\ \A x \in Ids : /\ req'[x].state = req[x].state
                          /\ req'[x].res = IF x \in B THEN <<x, "collected">> ELSE req[x].res
        /\ \A x : x \in CallsIn(todo', "enqueue") <=> x \in B
        /\ \A x : x \notin CallsIn(todo', "clear")
        /\ \A op, x : x \notin CallsIn(todo, op)
    BY BatchFacts
  <1>2. refcount' = [r \in Results |-> IF r[1] \in B /\ r[2] = "collected" THEN 1 ELSE refcount[r]]
    BY DEF preprocessor_add_request, BatchIds
  <1>3. ValueInv(req, flushed, todo, received)
    BY DEF IInv
  <1> HIDE DEF B
  <1>4. /\ \A x \in Ids : x \in Held(req') <=> x \in Held(req)
        /\ \A x \in Held(req) : x \notin B
    BY <1>1 DEF Held
  <1>5. ASSUME NEW q \in Results PROVE refcount'[q] = Cardinality(Users(req', todo', q))
    <2>1. refcount[q] = Cardinality(Users(req, todo, q)) /\ q[1] \in Ids /\ q # None /\ q = <<q[1], q[2]>>
      BY IdTypes DEF RefInv, Results
    <2>2. CASE q[1] \in B /\ q[2] = "collected"
      <3>1. q = <<q[1], "collected">>
        BY <2>1, <2>2
      <3>2. \A x \in Ids : req[x].res # q
        <4>1. ASSUME NEW x \in Ids, req[x].res = q PROVE FALSE
          <5>1. x \in Known(req)
            BY <2>1, <4>1 DEF Known
          <5>2. q[1] \in Known(req)
            BY <4>1, <5>1 DEF ResultInv
          <5> QED BY <1>1, <2>2, <5>2
        <4> QED BY <4>1
      <3>3. \A x \in Ids : req'[x].res = q <=> x = q[1]
        <4> TAKE x \in Ids
        <4>1. CASE x \in B
          <5>1. req'[x].res = <<x, "collected">> /\ <<x, "collected">>[1] = x
            BY <1>1, <4>1
          <5> QED BY <3>1, <5>1
        <4>2. CASE x \notin B
          BY <1>1, <2>2, <3>2, <4>2
        <4> QED BY <4>1, <4>2
      <3>4. \A x : x \in Users(req', todo', q) <=> x = q[1]
        BY <1>1, <2>1, <2>2, <3>3 DEF Users
      <3>5. Users(req', todo', q) = {q[1]}
        BY <3>4
      <3>6. refcount'[q] = 1
        BY <1>2, <2>2
      <3> QED BY <3>5, <3>6, FS_Singleton
    <2>3. CASE ~(q[1] \in B /\ q[2] = "collected")
      <3>1. refcount'[q] = refcount[q]
        BY <1>2, <2>3
      <3>2. \A x \in B : req'[x].res # q
        <4>1. ASSUME NEW x \in B, req'[x].res = q PROVE FALSE
          <5>1. q = <<x, "collected">>
            BY <1>1, <4>1
          <5>2. <<x, "collected">>[1] = x /\ <<x, "collected">>[2] = "collected"
            OBVIOUS
          <5> QED BY <2>3, <5>1, <5>2
        <4> QED BY <4>1
      <3>3. \A x \in Ids : x \in Users(req', todo', q) <=> x \in Users(req, todo, q)
        BY <1>1, <1>4, <3>2 DEF Users
      <3>4. Users(req', todo', q) = Users(req, todo, q)
        <4>1. Users(req', todo', q) \subseteq Ids /\ Users(req, todo, q) \subseteq Ids
          BY DEF Users
        <4> QED BY <3>3, <4>1
      <3> QED BY <2>1, <3>1, <3>4
    <2> QED BY <2>2, <2>3
  <1> QED BY <1>5 DEF RefInv

(* Nothing is in use when the manager starts.                              *)
LEMMA RefInit == Init => RefInv
  <1> SUFFICES ASSUME Init, NEW q \in Results PROVE refcount[q] = Cardinality(Users(req, todo, q))
    BY DEF RefInv
  <1>1. \A x \in Ids : req[x] = NoRequest
    BY DEF Init
  <1>2. \A x \in Ids : req[x].res = None
    BY <1>1, NoRequestFields
  <1>3. Users(req, todo, q) = {}
    BY <1>2, IdTypes DEF Users
  <1>4. refcount[q] = 0
    BY DEF Init
  <1> QED BY <1>3, <1>4, FS_EmptySet

(* Every step keeps the reference counters exact.                          *)
LEMMA RefNext ==
  ASSUME IInv, IInv', ResultInv, RefInv, [Next]_vars
  PROVE  RefInv'
  <1>1. CASE UNCHANGED vars
    <2>1. UNCHANGED <<req, todo, refcount>>
      BY <1>1 DEF vars, qvars
    <2> QED BY <2>1 DEF RefInv, Users, Held, CallsIn
  <1>2. CASE Next
    BY <1>2, NextCases, RefQuiet, RefClear, RefEnqueueNow, RefEnqueueQueued, RefDerived,
       RefUnsupported, RefAssignValue, RefFlush, RefAddRequest, RefAddResult, Zenon
  <1> QED BY <1>1, <1>2

(* The users of a result are the values that RefcountExact counts.         *)
LEMMA RefcountExactHolds == IInv /\ RefInv => RefcountExact
  <1> SUFFICES ASSUME IInv, RefInv, NEW q \in Results
               PROVE  refcount[q] = Cardinality({id \in Ids : req[id].res = q /\ (QueuedAt(id) # {} \/ CalledAt("enqueue", id) # {} \/ CalledAt("clear", id) # {})})
    BY DEF RefcountExact
  <1>1. TypeInv /\ QueueInv(queue, req) /\ todo \in Seq(CallRecord) /\ Apart(todo)
    BY DEF IInv, TypeInv, CallInv
  <1>2. \A id \in Ids : /\ QueuedAt(id) # {} <=> id \in Held(req)
                        /\ CalledAt("enqueue", id) # {} <=> id \in CallsIn(todo, "enqueue")
                        /\ CalledAt("clear", id) # {} <=> id \in CallsIn(todo, "clear")
    BY <1>1, QueuedOnce, CalledOnce
  <1>3. {id \in Ids : req[id].res = q /\ (QueuedAt(id) # {} \/ CalledAt("enqueue", id) # {} \/ CalledAt("clear", id) # {})}
           = Users(req, todo, q)
    BY <1>2 DEF Users
  <1> QED BY <1>3 DEF RefInv

(* The reference counter of a result is the number of values that use it,  *)
(* so that it is freed with the last of them and not before                *)
(* (preprocessor_set_variant_result, preproc_item_value_clear,             *)
(* preprocessor_enqueue_dependent).                                        *)
THEOREM PreprocRefcountExact == Spec => []RefcountExact
  <1>1. Init => ResultInv /\ RefInv
    BY ResultInit, RefInit
  <1>2. IInv /\ IInv' /\ (ResultInv /\ RefInv) /\ [Next]_vars => (ResultInv /\ RefInv)'
    BY ResultNext, RefNext
  <1>3. IInv /\ RefInv => RefcountExact
    BY RefcountExactHolds
  <1> QED BY <1>1, <1>2, <1>3, PreprocInvariant, PTL DEF Spec


------------------------------------------------------------------------------
(* The pending calls of an operation. *)
At1(s, op) == {k \in 1..Len(s) : s[k].op = op}
Count(s, op) == Cardinality(At1(s, op))

(* The number of calls of an operation in a list.                          *)
LEMMA CountType ==
  ASSUME NEW s, Len(s) \in Nat, NEW op
  PROVE  IsFiniteSet(At1(s, op)) /\ Count(s, op) \in Nat
  <1>1. 1 \in Int /\ Len(s) \in Int
    OBVIOUS
  <1>2. IsFiniteSet(1..Len(s))
    BY <1>1, FS_Interval, Zenon
  <1>3. At1(s, op) \in SUBSET (1..Len(s))
    BY DEF At1
  <1> QED BY <1>2, <1>3, FS_Subset, FS_CardinalityType, Zenon DEF Count

(* The calls of two lists add up.                                          *)
LEMMA CountConcat ==
  ASSUME NEW s \in Seq(CallRecord), NEW t \in Seq(CallRecord), NEW op
  PROVE  /\ Count(s \o t, op) = Count(s, op) + Count(t, op)
         /\ Count(s, op) \in Nat /\ Count(t, op) \in Nat
  <1> DEFINE u == s \o t
             m == Len(s)
             n == Len(t)
             f == [k \in 1..n |-> k + m]
             T == {k \in 1..(m + n) : k > m /\ u[k].op = op}
  <1>1. Len(u) = m + n /\ \A k \in 1..Len(u) : u[k] = IF k <= m THEN s[k] ELSE t[k - m]
    BY ConcatProperties, Zenon
  <1>2. m \in Nat /\ n \in Nat
    OBVIOUS
  <1> HIDE DEF u, m, n
  <1>3. \A k \in At1(t, op) : k \in 1..n /\ f[k] = k + m /\ k + m \in 1..(m + n) /\ k + m > m /\ (k + m) - m = k /\ ~(k + m <= m)
    <2>1. \A k \in 1..n : f[k] = k + m
      OBVIOUS
    <2>2. \A k \in 1..n : k + m \in 1..(m + n) /\ k + m > m /\ (k + m) - m = k /\ ~(k + m <= m)
      BY ONLY <1>2
    <2> QED BY <2>1, <2>2 DEF At1, n
  <1> HIDE DEF f
  <1>4. \A k \in At1(t, op) : f[k] \in T
    <2>1. \A k \in At1(t, op) : u[k + m] = t[k] /\ t[k].op = op
      BY <1>1, <1>3 DEF At1
    <2> QED BY <1>3, <2>1
  <1>5. \A j, k \in At1(t, op) : f[j] = f[k] => j = k
    BY <1>2, <1>3
  <1>6. \A x \in T : \E k \in At1(t, op) : f[k] = x
    <2>1. ASSUME NEW x \in T PROVE \E k \in At1(t, op) : f[k] = x
      <3>1. x - m \in 1..n /\ (x - m) + m = x /\ ~(x <= m) /\ x \in 1..(m + n) /\ u[x].op = op
        BY <1>2
      <3>2. t[x - m].op = op
        BY <1>1, <3>1
      <3>3. x - m \in At1(t, op)
        BY <3>1, <3>2 DEF At1, n
      <3> QED BY <1>3, <3>1, <3>3
    <2> QED BY <2>1
  <1>7. IsFiniteSet(At1(s, op)) /\ IsFiniteSet(At1(t, op)) /\ Count(s, op) \in Nat /\ Count(t, op) \in Nat
    BY <1>2, CountType DEF m, n
  <1>8. \A x \in At1(s, op) : x \notin T
    BY <1>2 DEF At1, m
  <1>9. \A x : x \in At1(u, op) <=> x \in At1(s, op) \/ x \in T
    <2>1. ASSUME NEW x PROVE x \in At1(u, op) <=> x \in At1(s, op) \/ x \in T
      <3>1. x \in 1..(m + n) /\ x <= m <=> x \in 1..m
        BY <1>2
      <3>2. CASE x \in 1..m
        <4>1. x \in 1..(m + n) /\ ~(x > m) /\ u[x] = s[x]
          BY <1>1, <1>2, <3>2
        <4> QED BY <1>1, <3>2, <4>1 DEF At1, m
      <3>3. CASE x \in 1..(m + n) /\ x \notin 1..m
        <4>1. x > m
          BY <1>2, <3>3
        <4> QED BY <1>1, <3>3, <4>1 DEF At1, m
      <3>4. CASE x \notin 1..(m + n)
        BY <1>1, <3>1, <3>4, <1>2 DEF At1, m
      <3> QED BY <3>2, <3>3, <3>4
    <2> QED BY <2>1
  <1> HIDE DEF T
  <1>10. IsFiniteSet(T) /\ Cardinality(T) = Cardinality(At1(t, op))
    <2> DEFINE A == At1(t, op)
    <2>1. IsFiniteSet(A)
      BY <1>7
    <2> HIDE DEF A
    <2>2. /\ \A k \in A : f[k] \in T
          /\ \A j, k \in A : f[j] = f[k] => j = k
          /\ \A x \in T : \E k \in A : f[k] = x
      BY <1>4, <1>5, <1>6 DEF A
    <2>3. IsFiniteSet(T) /\ Cardinality(T) = Cardinality(A)
      BY ONLY <2>1, <2>2, CountOfImage
    <2> QED BY <2>3 DEF A
  <1>11. Cardinality(At1(u, op)) = Cardinality(At1(s, op)) + Cardinality(T)
    BY <1>7, <1>8, <1>9, <1>10, CountOfDisjoint
  <1> QED BY <1>7, <1>10, <1>11 DEF Count, u

(* A list of one call.                                                     *)
LEMMA CountSingle ==
  ASSUME NEW c, NEW op
  PROVE  Count(<<c>>, op) = IF c.op = op THEN 1 ELSE 0
  <1>1. Len(<<c>>) = 1 /\ <<c>>[1] = c /\ 1..1 = {1}
    OBVIOUS
  <1>2. CASE c.op = op
    <2>1. At1(<<c>>, op) = {1}
      BY <1>1, <1>2 DEF At1
    <2> QED BY <1>2, <2>1, FS_Singleton DEF Count
  <1>3. CASE c.op # op
    <2>1. At1(<<c>>, op) = {}
      BY <1>1, <1>3 DEF At1
    <2> QED BY <1>3, <2>1, FS_EmptySet DEF Count
  <1> QED BY <1>2, <1>3

(* The calls of a list are its first and those of its tail.                *)
LEMMA CountTail ==
  ASSUME NEW s \in Seq(CallRecord), s # <<>>, NEW op
  PROVE  /\ Count(s, op) = Count(Tail(s), op) + (IF Head(s).op = op THEN 1 ELSE 0)
         /\ Count(Tail(s), op) \in Nat /\ Count(s, op) \in Nat
  <1>1. Tail(s) \in Seq(CallRecord) /\ Head(s) \in CallRecord /\ <<Head(s)>> \in Seq(CallRecord) /\ Len(s) \in Nat
    OBVIOUS
  <1>2. s = <<Head(s)>> \o Tail(s)
    BY HeadTailProperties
  <1>3. /\ Count(<<Head(s)>> \o Tail(s), op) = Count(<<Head(s)>>, op) + Count(Tail(s), op)
        /\ Count(<<Head(s)>>, op) \in Nat /\ Count(Tail(s), op) \in Nat
    BY <1>1, CountConcat
  <1>4. Count(<<Head(s)>>, op) = IF Head(s).op = op THEN 1 ELSE 0
    BY CountSingle
  <1>5. Count(s, op) = Count(<<Head(s)>>, op) + Count(Tail(s), op)
    BY <1>2, <1>3, Zenon
  <1>6. Count(s, op) \in Nat
    BY <1>1, CountType
  <1> QED BY ONLY <1>3, <1>4, <1>5, <1>6

(* Calls that neither count a queued value nor release a worker. *)
LEMMA SilentCalls ==
  ASSUME NEW s, Silent(s)
  PROVE  Count(s, "queued") = 0 /\ Count(s, "release") = 0
  <1>1. At1(s, "queued") = {} /\ At1(s, "release") = {}
    BY DEF At1, Silent
  <1> QED BY <1>1, FS_EmptySet DEF Count

SameCounts(s, t) == \A op \in {"queued", "release"} : Count(t, op) = Count(s, op)

(* A call that counts for nothing may be replaced by calls that count for  *)
(* nothing.                                                                *)
LEMMA CountReplaced ==
  ASSUME todo \in Seq(CallRecord), todo # <<>>, Head(todo).op \notin {"queued", "release"},
         NEW s \in Seq(CallRecord), Silent(s), todo' = s \o Tail(todo)
  PROVE  SameCounts(todo, todo')
  <1>1. Tail(todo) \in Seq(CallRecord)
    OBVIOUS
  <1>2. ASSUME NEW op \in {"queued", "release"} PROVE Count(todo', op) = Count(todo, op)
    <2>1. Count(s \o Tail(todo), op) = Count(s, op) + Count(Tail(todo), op) /\ Count(Tail(todo), op) \in Nat
      BY <1>1, CountConcat
    <2>2. Count(s, op) = 0
      BY <1>2, SilentCalls
    <2>3. Count(todo, op) = Count(Tail(todo), op) + (IF Head(todo).op = op THEN 1 ELSE 0)
      BY CountTail
    <2>4. Head(todo).op # op
      BY <1>2
    <2> QED BY <2>1, <2>2, <2>3, <2>4
  <1> QED BY <1>2 DEF SameCounts


(* The supported values that are not done. *)
Counted(r) == {x \in Unfinished(r) : r[x].supported}

CountInv ==
    /\ queued_num = Cardinality(Held(req)) - Count(todo, "queued")
    /\ preproc_num = Cardinality(Counted(req)) + Count(todo, "release")

(* There are finitely many values in the queue, and to be preprocessed.    *)
LEMMA CountedFinite ==
  ASSUME NEW r
  PROVE  /\ IsFiniteSet(Held(r)) /\ Cardinality(Held(r)) \in Nat
         /\ IsFiniteSet(Counted(r)) /\ Cardinality(Counted(r)) \in Nat
  <1>1. Held(r) \subseteq Ids /\ Counted(r) \subseteq Ids
    BY DEF Held, Counted, Unfinished
  <1> QED BY <1>1, IdsFinite

(* What keeps the counters, the queued and the unfinished values and the   *)
(* calls that end in a change of a counter keeps CountInv.                 *)
LEMMA CountKeep ==
  ASSUME CountInv, UNCHANGED <<queued_num, preproc_num>>, SameCounts(todo, todo'),
         \A x \in Ids : x \in Held(req') <=> x \in Held(req),
         \A x \in Ids : x \in Counted(req') <=> x \in Counted(req)
  PROVE  CountInv'
  <1>1. Held(req') = Held(req)
    BY DEF Held
  <1>2. Counted(req') = Counted(req)
    BY DEF Counted, Unfinished
  <1>3. Count(todo', "queued") = Count(todo, "queued") /\ Count(todo', "release") = Count(todo, "release")
    BY DEF SameCounts
  <1> QED BY <1>1, <1>2, <1>3 DEF CountInv

(* The calls with which most messages are answered change no counter       *)
(* themselves.                                                             *)
LEMMA PlainSilent ==
  /\ \A n : Silent(<<Assign(n)>>)
  /\ Silent(<<FlushHistory>>) /\ Silent(<<Assign(1), FlushHistory>>) /\ Silent(<<Assign(1), Flush, FlushHistory>>)
  BY DEF Silent, Assign, Flush, FlushHistory

(* No counter is about to change when no calls are pending.                *)
LEMMA NothingCounted ==
  ASSUME todo = <<>>
  PROVE  Count(todo, "queued") = 0 /\ Count(todo, "release") = 0
  <1>1. Silent(todo)
    BY DEF Silent
  <1> QED BY <1>1, SilentCalls

(* A quiet step keeps CountInv; queued_num is raised, and preproc_num      *)
(* lowered, when the call that does so returns.                            *)
LEMMA CountQuiet ==
  ASSUME IInv, IInv', CountInv, QuietStep
  PROVE  CountInv'
  <1>0. todo \in Seq(CallRecord) /\ queued_num \in Int /\ preproc_num \in Int
    BY DEF IInv, TypeInv
  <1>a. req' = req
    BY QuietSteps DEF Quiet
  <1>b. Held(req') = Held(req) /\ Counted(req') = Counted(req)
    BY <1>a
  <1>1. ASSUME AssignReturn \/ DependentsNone \/ FlushNone \/ flush_history PROVE CountInv'
    <2>1. /\ todo # <<>> /\ todo' = Tail(todo) /\ Head(todo).op \notin {"queued", "release"}
      BY <1>1 DEF AssignReturn, DependentsNone, FlushNone, flush_history, Calling, Return
    <2>2. UNCHANGED <<queued_num, preproc_num>>
      BY <1>1 DEF AssignReturn, DependentsNone, FlushNone, flush_history, nvars
    <2>3. \A op \in {"queued", "release"} : Count(todo', op) = Count(todo, op)
      <3> TAKE op \in {"queued", "release"}
      <3>1. Count(todo, op) = Count(Tail(todo), op) + (IF Head(todo).op = op THEN 1 ELSE 0) /\ Count(Tail(todo), op) \in Nat
        BY <1>0, <2>1, CountTail
      <3>2. Head(todo).op # op
        BY <2>1
      <3> QED BY <2>1, <3>1, <3>2
    <2> QED BY <1>b, <2>2, <2>3, CountKeep DEF SameCounts
  <1>2. ASSUME recv_timeout \/ (\E w \in Workers : preprocessor_register_worker(w) \/ preprocessor_flush_test_result(w))
               \/ (\E t \in Tests : preprocessor_add_test_request(t))
        PROVE  CountInv'
    <2>1. /\ todo = <<>> /\ todo' \in {<<FlushHistory>>, <<Assign(1), FlushHistory>>, <<Assign(1), Flush, FlushHistory>>}
      BY <1>2 DEF recv_timeout, preprocessor_register_worker, preprocessor_flush_test_result, preprocessor_add_test_request
    <2>2. UNCHANGED <<queued_num, preproc_num>>
      BY <1>2 DEF recv_timeout, preprocessor_register_worker, preprocessor_flush_test_result,
                  preprocessor_add_test_request, nvars
    <2>3. Silent(todo')
      BY <2>1, PlainSilent
    <2>4. SameCounts(todo, todo')
      BY <2>1, <2>3, SilentCalls, NothingCounted DEF SameCounts
    <2> QED BY <1>b, <2>2, <2>4, CountKeep
  <1>3. ASSUME (\E w : AssignTest(w)) \/ (\E w \in Workers : Worker(w)) \/ (\E t \in Tests : client_close(t))
               \/ (\E i \in Items, present \in BOOLEAN : config_change(i, present))
        PROVE  CountInv'
    <2>1. UNCHANGED <<queued_num, preproc_num>> /\ todo' = todo
      BY <1>3 DEF AssignTest, Worker, worker_start, worker_preprocess_value, worker_test_value, client_close, config_change,
                  nvars
    <2>2. SameCounts(todo, todo')
      BY <2>1 DEF SameCounts
    <2> QED BY <1>b, <2>1, <2>2, CountKeep
  <1>4. ASSUME enqueue_end PROVE CountInv'
    <2>1. /\ todo # <<>> /\ todo' = Tail(todo) /\ Head(todo).op = "queued"
          /\ queued_num' = queued_num + 1 /\ preproc_num' = preproc_num
      BY <1>4 DEF enqueue_end, Calling, Return
    <2>2. /\ Count(todo, "queued") = Count(todo', "queued") + 1 /\ Count(todo', "queued") \in Nat
          /\ Count(todo, "release") = Count(todo', "release") + 0 /\ Count(todo', "release") \in Nat
      BY <1>0, <2>1, CountTail
    <2>3. Cardinality(Held(req)) \in Nat /\ Cardinality(Counted(req)) \in Nat
      BY CountedFinite
    <2>4. queued_num' = Cardinality(Held(req)) - Count(todo', "queued")
      BY <1>0, <2>1, <2>2, <2>3 DEF CountInv
    <2>5. preproc_num' = Cardinality(Counted(req)) + Count(todo', "release")
      BY <1>0, <2>1, <2>2, <2>3 DEF CountInv
    <2> QED BY <1>b, <2>4, <2>5 DEF CountInv
  <1>5. ASSUME result_end PROVE CountInv'
    <2>1. /\ todo # <<>> /\ todo' = Tail(todo) /\ Head(todo).op = "release"
          /\ queued_num' = queued_num /\ preproc_num' = preproc_num - 1
      BY <1>5 DEF result_end, Calling, Return
    <2>2. /\ Count(todo, "queued") = Count(todo', "queued") + 0 /\ Count(todo', "queued") \in Nat
          /\ Count(todo, "release") = Count(todo', "release") + 1 /\ Count(todo', "release") \in Nat
      BY <1>0, <2>1, CountTail
    <2>3. Cardinality(Held(req)) \in Nat /\ Cardinality(Counted(req)) \in Nat
      BY CountedFinite
    <2>4. queued_num' = Cardinality(Held(req)) - Count(todo', "queued")
      BY <1>0, <2>1, <2>2, <2>3 DEF CountInv
    <2>5. preproc_num' = Cardinality(Counted(req)) + Count(todo', "release")
      BY <1>0, <2>1, <2>2, <2>3 DEF CountInv
    <2> QED BY <1>b, <2>4, <2>5 DEF CountInv
  <1> QED BY <1>1, <1>2, <1>3, <1>4, <1>5 DEF QuietStep

(* preproc_item_value_clear keeps it.                                      *)
LEMMA CountClear ==
  ASSUME IInv, CountInv, preproc_item_value_clear
  PROVE  CountInv'
  <1>1. req' = req /\ todo # <<>> /\ todo' = Tail(todo) /\ Head(todo).op = "clear" /\ UNCHANGED <<queued_num, preproc_num>>
    BY DEF preproc_item_value_clear, Calling, Return, nvars
  <1>2. todo \in Seq(CallRecord)
    BY DEF IInv, TypeInv
  <1>3. \A op \in {"queued", "release"} : Count(todo', op) = Count(todo, op)
    <2> TAKE op \in {"queued", "release"}
    <2>1. Count(todo, op) = Count(Tail(todo), op) + (IF Head(todo).op = op THEN 1 ELSE 0) /\ Count(Tail(todo), op) \in Nat
      BY <1>1, <1>2, CountTail
    <2>2. Head(todo).op # op
      BY <1>1
    <2> QED BY <1>1, <2>1, <2>2
  <1>4. Held(req') = Held(req) /\ Counted(req') = Counted(req)
    BY <1>1
  <1> QED BY <1>1, <1>3, <1>4, CountKeep DEF SameCounts


(* preprocessor_enqueue keeps it for a value that is flushed at once: it   *)
(* is counted nowhere.                                                     *)
LEMMA CountEnqueueNow ==
  ASSUME IInv, CountInv, NEW id, EnqueueNow(id)
  PROVE  CountInv'
  <1>1. /\ req' = req /\ UNCHANGED <<queued_num, preproc_num>>
        /\ todo # <<>> /\ Head(todo).op = "enqueue"
        /\ todo' = <<Dependents(id, None), Clear(id)>> \o Tail(todo)
    BY DEF EnqueueNow, Calling
  <1>2. todo \in Seq(CallRecord)
    BY DEF IInv, TypeInv
  <1>3. id \in Ids
    BY EnqueueNowCallsKept
  <1>4. <<Dependents(id, None), Clear(id)>> \in Seq(CallRecord)
    BY <1>3, EnqueueNowCalls
  <1>5. Silent(<<Dependents(id, None), Clear(id)>>)
    BY DEF Silent, Dependents, Clear
  <1>6. SameCounts(todo, todo')
    BY <1>1, <1>2, <1>4, <1>5, CountReplaced
  <1>7. Held(req') = Held(req) /\ Counted(req') = Counted(req)
    BY <1>1
  <1> QED BY <1>1, <1>6, <1>7, CountKeep

(* The value that is put in the queue is counted when the dependent values *)
(* have been enqueued.                                                     *)
LEMMA EnqueueCallCounts ==
  ASSUME NEW id \in Ids, NEW done \in BOOLEAN
  PROVE  /\ EnqueueCall(id, done) \in Seq(CallRecord)
         /\ Count(EnqueueCall(id, done), "queued") = 1 /\ Count(EnqueueCall(id, done), "release") = 0
  <1> DEFINE u == IF done THEN <<Dependents(id, id)>> ELSE <<>>
             v == <<Queued>>
  <1>1. EnqueueCall(id, done) \in Seq(CallRecord)
    BY EnqueueQueuedCalls
  <1>2. u \in Seq(CallRecord) /\ v \in Seq(CallRecord)
    BY CallsAreRecords
  <1>3. Silent(u)
    BY DEF Silent, Dependents
  <1>4. Count(v, "queued") = 1 /\ Count(v, "release") = 0
    <2>1. Queued.op = "queued"
      BY DEF Queued
    <2> QED BY <2>1, CountSingle
  <1>5. EnqueueCall(id, done) = u \o v
    BY DEF EnqueueCall
  <1> HIDE DEF u, v
  <1>6. \A op : Count(u \o v, op) = Count(u, op) + Count(v, op)
    BY <1>2, CountConcat
  <1>7. Count(u, "queued") = 0 /\ Count(u, "release") = 0
    BY <1>3, SilentCalls
  <1> QED BY <1>1, <1>4, <1>5, <1>6, <1>7

(* preprocessor_enqueue keeps CountInv for a value that is put in the      *)
(* queue.                                                                  *)
LEMMA CountEnqueueQueued ==
  ASSUME IInv, CountInv, NEW id, NEW master, NEW done, NEW r, EnqueueQueued(id, master, done, r)
  PROVE  CountInv'
  <1>1. /\ todo # <<>> /\ Head(todo).op = "enqueue" /\ todo' = EnqueueCall(id, done) \o Tail(todo)
        /\ queued_num' = queued_num
        /\ preproc_num' = preproc_num + IF ~done /\ req[id].supported THEN 1 ELSE 0
    BY DEF EnqueueQueued, Calling
  <1>2. todo \in Seq(CallRecord) /\ Tail(todo) \in Seq(CallRecord) /\ queued_num \in Int /\ preproc_num \in Int
    BY <1>1 DEF IInv, TypeInv
  <1>3. id \in Ids /\ done \in BOOLEAN /\ id \in CallsIn(todo, "enqueue")
    BY EnqueueQueuedCallsKept
  <1>4. id \notin Held(req) /\ id \notin Unfinished(req)
    <2>1. ValueInv(req, flushed, todo, received)
      BY DEF IInv
    <2> QED BY <1>3, <2>1, ValueFacts
  <1>5. /\ \A x \in Ids : x # id => req'[x].state = req[x].state
        /\ \A x \in Ids : x = id => req'[x].state \in (IF done THEN {"DONE"} ELSE {"PENDING", "QUEUED"})
        /\ \A x \in Ids : req'[x].supported = req[x].supported
    BY QueuedFields
  <1>6. /\ Count(todo', "queued") = Count(todo, "queued") + 1 /\ Count(todo, "queued") \in Nat
        /\ Count(todo', "release") = Count(todo, "release") /\ Count(todo, "release") \in Nat
    <2>1. /\ EnqueueCall(id, done) \in Seq(CallRecord)
          /\ Count(EnqueueCall(id, done), "queued") = 1 /\ Count(EnqueueCall(id, done), "release") = 0
      BY <1>3, EnqueueCallCounts
    <2>2. \A op : Count(todo', op) = Count(EnqueueCall(id, done), op) + Count(Tail(todo), op)
      BY <1>1, <1>2, <2>1, CountConcat
    <2>3. \A op : /\ Count(todo, op) = Count(Tail(todo), op) + (IF Head(todo).op = op THEN 1 ELSE 0)
                  /\ Count(Tail(todo), op) \in Nat /\ Count(todo, op) \in Nat
      BY <1>1, <1>2, CountTail
    <2>4. /\ Count(todo, "queued") = Count(Tail(todo), "queued") + 0
          /\ Count(todo, "release") = Count(Tail(todo), "release") + 0
      BY <1>1, <2>3
    <2> QED BY <2>1, <2>2, <2>3, <2>4
  <1>7. Cardinality(Held(req')) = Cardinality(Held(req)) + 1
    <2>1. \A x : x \in Held(req') <=> x \in Held(req) \/ x = id
      BY <1>3, <1>5 DEF Held
    <2> QED BY <1>4, <2>1, CountedFinite, CountOfAdded
  <1>8. Cardinality(Held(req)) \in Nat /\ Cardinality(Counted(req)) \in Nat /\ IsFiniteSet(Counted(req))
    BY CountedFinite
  <1>9. queued_num' = Cardinality(Held(req')) - Count(todo', "queued")
    <2>1. queued_num = Cardinality(Held(req)) - Count(todo, "queued")
      BY DEF CountInv
    <2>2. \A a, b \in Nat : (a + 1) - (b + 1) = a - b
      OBVIOUS
    <2> QED BY <1>1, <1>6, <1>7, <1>8, <2>1, <2>2
  <1>10. preproc_num' = Cardinality(Counted(req')) + Count(todo', "release")
    <2>1. preproc_num = Cardinality(Counted(req)) + Count(todo, "release")
      BY DEF CountInv
    <2>2. CASE ~done /\ req[id].supported
      <3>1. \A x : x \in Counted(req') <=> x \in Counted(req) \/ x = id
        BY <1>3, <1>5, <2>2 DEF Counted, Unfinished
      <3>2. id \notin Counted(req)
        BY <1>4 DEF Counted
      <3>3. Cardinality(Counted(req')) = Cardinality(Counted(req)) + 1
        BY <1>8, <3>1, <3>2, CountOfAdded
      <3> QED BY <1>1, <1>6, <1>8, <2>1, <2>2, <3>3
    <2>3. CASE ~(~done /\ req[id].supported)
      <3>1. \A x : x \in Counted(req') <=> x \in Counted(req)
        BY <1>3, <1>4, <1>5, <2>3 DEF Counted, Unfinished
      <3>2. Counted(req') = Counted(req)
        BY <3>1
      <3> QED BY <1>1, <1>6, <1>8, <2>1, <2>3, <3>2
    <2> QED BY <2>2, <2>3
  <1> QED BY <1>9, <1>10 DEF CountInv

(* preprocessor_enqueue_dependent keeps CountInv.                          *)
LEMMA CountDerived ==
  ASSUME IInv, CountInv, NEW id, NEW s, DependentsDerived(id, s)
  PROVE  CountInv'
  <1>1. todo # <<>> /\ Head(todo).op = "dependents" /\ UNCHANGED <<queued_num, preproc_num>>
    BY DEF DependentsDerived, Calling, nvars
  <1>2. todo \in Seq(CallRecord) /\ CallInv(todo)
    BY DEF IInv, TypeInv
  <1>3. PICK u : u \in Seq(CallRecord) /\ Silent(u) /\ todo' = u \o Tail(todo)
    BY <1>2, DerivedCalls
  <1>4. SameCounts(todo, todo')
    BY <1>1, <1>2, <1>3, CountReplaced
  <1>5. /\ \A x \in DerivedIds(id) : req[x].state = "FREE"
        /\ \A x \in Ids : req'[x].state = req[x].state
        /\ \A x \in Ids : x \notin DerivedIds(id) => req'[x].supported = req[x].supported
    BY DerivedFacts
  <1>6. \A x \in Ids : x \in Held(req') <=> x \in Held(req)
    BY <1>5 DEF Held
  <1>7. \A x \in Ids : x \in Counted(req') <=> x \in Counted(req)
    BY <1>5 DEF Counted, Unfinished
  <1> QED BY <1>1, <1>4, <1>6, <1>7, CountKeep


(* preprocessor_assign_tasks keeps it for a value that is not supported,   *)
(* which preproc_num never counted.                                        *)
LEMMA CountUnsupported ==
  ASSUME IInv, CountInv, NEW k, NEW id, AssignUnsupported(k, id)
  PROVE  CountInv'
  <1>1. /\ todo # <<>> /\ Head(todo).op = "assign" /\ todo' = <<Assign(IF k = 1 THEN 2 ELSE k)>> \o Tail(todo)
        /\ UNCHANGED <<queued_num, preproc_num>> /\ ~req[id].supported /\ k \in Nat \ {0}
    BY DEF AssignUnsupported, Call, Calling, nvars
  <1>2. todo \in Seq(CallRecord)
    BY DEF IInv, TypeInv
  <1>3. <<Assign(IF k = 1 THEN 2 ELSE k)>> \in Seq(CallRecord)
    <2>1. (IF k = 1 THEN 2 ELSE k) \in Nat \ {0}
      BY <1>1
    <2>2. Assign(IF k = 1 THEN 2 ELSE k) \in CallRecord
      BY <2>1, CallsAreRecords
    <2> QED BY <2>2
  <1>4. SameCounts(todo, todo')
    BY <1>1, <1>2, <1>3, PlainSilent, CountReplaced
  <1>5. ValuesEffect(id, req, todo')
    BY AssignUnsupportedStep
  <1>6. \A x \in Ids : x \in Held(req') <=> x \in Held(req)
    BY <1>5 DEF ValuesEffect
  <1>7. \A x \in Ids : x \in Unfinished(req') <=> x \in Unfinished(req) /\ x # id
    BY <1>5 DEF ValuesEffect
  <1>8. \A x \in Ids : req'[x].supported = req[x].supported
    BY <1>5 DEF ValuesEffect
  <1>9. \A x \in Ids : x \in Counted(req') <=> x \in Counted(req)
    BY <1>1, <1>7, <1>8 DEF Counted
  <1> QED BY <1>1, <1>4, <1>6, <1>9, CountKeep

(* preprocessor_assign_tasks keeps it for a value that is sent.            *)
LEMMA CountAssignValue ==
  ASSUME IInv, CountInv, NEW w, NEW id, AssignValue(w, id)
  PROVE  CountInv'
  <1>1. /\ todo # <<>> /\ Head(todo).op = "assign" /\ todo' = <<Assign(1)>> \o Tail(todo)
        /\ UNCHANGED <<queued_num, preproc_num>>
    BY DEF AssignValue, Call, Calling, nvars
  <1>2. todo \in Seq(CallRecord)
    BY DEF IInv, TypeInv
  <1>3. <<Assign(1)>> \in Seq(CallRecord)
    BY CallsAreRecords
  <1>4. SameCounts(todo, todo')
    BY <1>1, <1>2, <1>3, PlainSilent, CountReplaced
  <1>5. /\ id \in Ids /\ req[id].state = "QUEUED"
        /\ \A x \in Ids : /\ req'[x].state = IF x = id THEN "PROCESSING" ELSE req[x].state
                          /\ req'[x].supported = req[x].supported
    BY AssignValueFields
  <1>6. \A x \in Ids : x \in Held(req') <=> x \in Held(req)
    BY <1>5 DEF Held
  <1>7. \A x \in Ids : x \in Counted(req') <=> x \in Counted(req)
    BY <1>5 DEF Counted, Unfinished
  <1> QED BY <1>1, <1>4, <1>6, <1>7, CountKeep

(* preprocessing_flush_queue keeps it: queued_num falls by the number of   *)
(* flushed values.                                                         *)
LEMMA CountFlush ==
  ASSUME IInv, CountInv, NEW ids, FlushFirst(ids)
  PROVE  CountInv'
  <1>1. /\ ids \in Seq(Ids) /\ Len(ids) \in Nat /\ Injective(ids)
        /\ \A x : In1(ids, x) <=> x \in FlushedIds
        /\ \A x : x \in FlushedIds => x \in Held(req) /\ x \in Ids /\ x \notin Unfinished(req)
        /\ \A x \in Ids : /\ req'[x].state = IF x \in FlushedIds THEN "FREE" ELSE req[x].state
                          /\ req'[x].supported = req[x].supported
    BY FlushFields
  <1>2. todo' = todo /\ queued_num' = queued_num - Len(ids) /\ preproc_num' = preproc_num
    BY DEF FlushFirst
  <1>3. Len(todo) \in Nat /\ queued_num \in Int
    BY DEF IInv, TypeInv
  <1>4. Count(todo, "queued") \in Nat
    BY <1>3, CountType
  <1>5. IsFiniteSet(FlushedIds) /\ Cardinality(FlushedIds) = Len(ids)
    <2> DEFINE K == 1..Len(ids)
    <2>1. IsFiniteSet(K) /\ Cardinality(K) = Len(ids)
      <3>1. 1 \in Int /\ Len(ids) \in Int
        BY <1>1
      <3>2. IsFiniteSet(1..Len(ids)) /\ Cardinality(1..Len(ids)) = IF 1 > Len(ids) THEN 0 ELSE Len(ids) - 1 + 1
        BY <3>1, FS_Interval, Zenon
      <3> QED BY <1>1, <3>2
    <2>2. /\ \A k \in K : ids[k] \in FlushedIds
          /\ \A j, k \in K : ids[j] = ids[k] => j = k
          /\ \A x \in FlushedIds : \E k \in K : ids[k] = x
      BY <1>1 DEF In1, Injective
    <2> HIDE DEF K
    <2>3. IsFiniteSet(FlushedIds) /\ Cardinality(FlushedIds) = Cardinality(K)
      BY ONLY <2>1, <2>2, CountOfImage
    <2> QED BY <2>1, <2>3
  <1>6. Cardinality(Held(req)) = Cardinality(Held(req')) + Cardinality(FlushedIds)
    <2>1. \A x : x \in Held(req) <=> x \in Held(req') \/ x \in FlushedIds
      BY <1>1 DEF Held
    <2>2. \A x \in Held(req') : x \notin FlushedIds
      BY <1>1 DEF Held
    <2>3. IsFiniteSet(Held(req'))
      BY CountedFinite
    <2> QED BY <1>5, <2>1, <2>2, <2>3, CountOfDisjoint
  <1>7. Counted(req') = Counted(req)
    BY <1>1 DEF Counted, Unfinished
  <1>8. Cardinality(Held(req')) \in Nat
    BY CountedFinite
  <1>9. queued_num = Cardinality(Held(req)) - Count(todo, "queued")
    BY DEF CountInv
  <1>10. queued_num' = Cardinality(Held(req')) - Count(todo', "queued")
    <2>1. queued_num' = queued_num - Len(ids)
      BY <1>2
    <2>2. Count(todo', "queued") = Count(todo, "queued")
      BY <1>2
    <2> QED BY ONLY <1>1, <1>3, <1>4, <1>5, <1>6, <1>8, <1>9, <2>1, <2>2
  <1>11. preproc_num' = Cardinality(Counted(req')) + Count(todo', "release")
    BY <1>2, <1>7 DEF CountInv
  <1> QED BY <1>10, <1>11 DEF CountInv

(* preprocessor_add_request keeps it: nothing is queued yet.               *)
LEMMA CountAddRequest ==
  ASSUME IInv, CountInv, NEW batch \in Batches, preprocessor_add_request(batch)
  PROVE  CountInv'
  <1>1. todo = <<>> /\ UNCHANGED <<queued_num, preproc_num>> /\ TypeInv
    BY DEF preprocessor_add_request, nvars, IInv
  <1>2. Silent(todo')
    BY <1>1, BatchCalls
  <1>3. SameCounts(todo, todo')
    BY <1>1, <1>2, SilentCalls, NothingCounted DEF SameCounts
  <1>4. /\ \A x \in BatchIds(batch) : req[x].state = "FREE"
        /\ \A x \in Ids : /\ req'[x].state = req[x].state
                          /\ x \notin BatchIds(batch) => req'[x].supported = req[x].supported
    BY BatchFacts
  <1>5. \A x \in Ids : x \in Held(req') <=> x \in Held(req)
    BY <1>4 DEF Held
  <1>6. \A x \in Ids : x \in Counted(req') <=> x \in Counted(req)
    BY <1>4 DEF Counted, Unfinished
  <1> QED BY <1>1, <1>3, <1>5, <1>6, CountKeep

(* The calls that follow a worker's result lower preproc_num once.         *)
LEMMA ResultCallCounts ==
  ASSUME NEW w \in Workers, NEW id \in Ids, NewPosition(id) \in Ids, NEW outcome
  PROVE  Count(ResultCalls(w, id, outcome), "queued") = 0 /\ Count(ResultCalls(w, id, outcome), "release") = 1
  <1> DEFINE u == IF outcome = "value" THEN <<Dependents(id, NewPosition(id))>> ELSE <<>>
             v == <<Release(w), Assign(1), Flush, FlushHistory>>
  <1>1. u \in Seq(CallRecord) /\ v \in Seq(CallRecord)
    <2>1. 1 \in Nat \ {0}
      OBVIOUS
    <2>2. /\ Dependents(id, NewPosition(id)) \in CallRecord
          /\ Release(w) \in CallRecord /\ Assign(1) \in CallRecord /\ Flush \in CallRecord /\ FlushHistory \in CallRecord
      BY <2>1, CallsAreRecords
    <2> QED BY <2>2
  <1>2. Silent(u)
    BY DEF Silent, Dependents
  <1>3. Count(v, "queued") = 0 /\ Count(v, "release") = 1
    <2>1. Len(v) = 4 /\ v[1].op = "release" /\ v[2].op = "assign" /\ v[3].op = "flush" /\ v[4].op = "history"
      BY DEF Release, Assign, Flush, FlushHistory
    <2> HIDE DEF v
    <2>2. At1(v, "queued") = {} /\ At1(v, "release") = {1}
      BY <2>1 DEF At1
    <2> QED BY <2>2, FS_EmptySet, FS_Singleton DEF Count
  <1>4. ResultCalls(w, id, outcome) = u \o v
    BY DEF ResultCalls
  <1> HIDE DEF u, v
  <1>5. \A op : Count(u \o v, op) = Count(u, op) + Count(v, op)
    BY <1>1, CountConcat
  <1>6. Count(u, "queued") = 0 /\ Count(u, "release") = 0
    BY <1>2, SilentCalls
  <1> QED BY <1>3, <1>4, <1>5, <1>6


(* preprocessor_add_result keeps CountInv: the value is done, and          *)
(* preproc_num is lowered when its worker is released.                     *)
LEMMA CountAddResult ==
  ASSUME IInv, ResultInv, CountInv, NEW w \in Workers, preprocessor_add_result(w)
  PROVE  CountInv'
  <1> DEFINE id == task[w]
  <1>1. todo = <<>> /\ todo' = ResultCalls(w, id, ResultOf(w)) /\ id \in Ids /\ req[id].state = "PROCESSING"
    BY AddResultCalls DEF ResultOf
  <1>2. UNCHANGED <<queued_num, preproc_num>>
    BY DEF preprocessor_add_result, nvars
  <1>3. NewPosition(id) \in Ids
    BY AddResult
  <1>4. Count(todo, "queued") = 0 /\ Count(todo, "release") = 0
    BY <1>1, NothingCounted
  <1>5. Count(todo', "queued") = 0 /\ Count(todo', "release") = 1
    BY <1>1, <1>3, ResultCallCounts
  <1>6. Held(req') = Held(req)
    <2>1. \A x \in Ids : x \in Held(req') <=> x \in Held(req)
      BY AddResultFields
    <2> QED BY <2>1 DEF Held
  <1>7. id \in Counted(req)
    BY <1>1 DEF Counted, Unfinished, ResultInv
  <1>8. \A x : x \in Counted(req') <=> x \in Counted(req) /\ x # id
    <2>1. \A x \in Ids : /\ x \in Unfinished(req') <=> x \in Unfinished(req) /\ x # id
                         /\ x # id => req'[x].supported = req[x].supported
      BY AddResultFields
    <2>2. \A x : (x \in Unfinished(req) => x \in Ids) /\ (x \in Unfinished(req') => x \in Ids)
      BY DEF Unfinished
    <2>3. \A x : /\ x \in Counted(req) <=> x \in Unfinished(req) /\ req[x].supported
                 /\ x \in Counted(req') <=> x \in Unfinished(req') /\ req'[x].supported
      BY DEF Counted
    <2> QED BY ONLY <2>1, <2>2, <2>3
  <1>9. IsFiniteSet(Counted(req))
    BY CountedFinite
  <1>10. Cardinality(Counted(req')) = Cardinality(Counted(req)) - 1 /\ Cardinality(Counted(req)) \in Nat
    BY <1>7, <1>8, <1>9, CountOfRemoved
  <1>11. Cardinality(Held(req)) \in Nat
    BY CountedFinite
  <1>12. queued_num' = Cardinality(Held(req')) - Count(todo', "queued")
    BY <1>2, <1>4, <1>5, <1>6 DEF CountInv
  <1>13. preproc_num' = Cardinality(Counted(req')) + Count(todo', "release")
    BY <1>2, <1>4, <1>5, <1>10 DEF CountInv
  <1> QED BY <1>12, <1>13 DEF CountInv

(* CountInv holds when the manager starts.                                 *)
LEMMA CountInit == Init => CountInv
  <1> SUFFICES ASSUME Init PROVE CountInv
    OBVIOUS
  <1>1. \A x \in Ids : req[x].state = "FREE"
    BY NoRequestFields DEF Init
  <1>2. Held(req) = {} /\ Counted(req) = {}
    BY <1>1 DEF Held, Counted, Unfinished
  <1>3. todo = <<>> /\ queued_num = 0 /\ preproc_num = 0
    BY DEF Init
  <1>4. Count(todo, "queued") = 0 /\ Count(todo, "release") = 0
    BY <1>3, NothingCounted
  <1>5. Cardinality(Held(req)) = 0 /\ Cardinality(Counted(req)) = 0
    BY <1>2, FS_EmptySet
  <1> QED BY <1>3, <1>4, <1>5 DEF CountInv

(* Every step keeps CountInv.                                              *)
LEMMA CountNext ==
  ASSUME IInv, IInv', ResultInv, CountInv, [Next]_vars
  PROVE  CountInv'
  <1>1. CASE UNCHANGED vars
    <2>1. UNCHANGED <<req, todo, queued_num, preproc_num>>
      BY <1>1 DEF vars, qvars, nvars
    <2> QED BY <2>1 DEF CountInv, Held, Counted, Unfinished, Count, At1
  <1>2. CASE Next
    BY <1>2, NextCases, CountQuiet, CountClear, CountEnqueueNow, CountEnqueueQueued, CountDerived,
       CountUnsupported, CountAssignValue, CountFlush, CountAddRequest, CountAddResult, Zenon
  <1> QED BY <1>1, <1>2

(* The counters are exact when no calls are pending.                       *)
LEMMA CountersExactHolds == IInv /\ CountInv => CountersExact
  <1> SUFFICES ASSUME IInv, CountInv, todo = <<>>
               PROVE  /\ queued_num = Cardinality({id \in Ids : QueuedAt(id) # {}})
                      /\ preproc_num = Cardinality({id \in Ids : /\ req[id].supported
                              /\ req[id].state \in {"QUEUED", "PENDING", "PROCESSING"}})
    BY DEF CountersExact
  <1>1. TypeInv /\ QueueInv(queue, req)
    BY DEF IInv
  <1>2. \A id \in Ids : QueuedAt(id) # {} <=> id \in Held(req)
    BY <1>1, QueuedOnce
  <1>3. {id \in Ids : QueuedAt(id) # {}} = Held(req)
    BY <1>2 DEF Held
  <1>4. {id \in Ids : /\ req[id].supported
                     /\ req[id].state \in {"QUEUED", "PENDING", "PROCESSING"}} = Counted(req)
    BY DEF Counted, Unfinished
  <1>5. Count(todo, "queued") = 0 /\ Count(todo, "release") = 0
    BY NothingCounted
  <1>6. Cardinality(Held(req)) \in Nat /\ Cardinality(Counted(req)) \in Nat
    BY CountedFinite
  <1>7. queued_num = Cardinality(Held(req)) /\ preproc_num = Cardinality(Counted(req))
    BY <1>5, <1>6 DEF CountInv
  <1> QED BY <1>3, <1>4, <1>7

(* Between two messages queued_num is the number of values in the queue    *)
(* and preproc_num the number of those still to be preprocessed, although  *)
(* they are changed at the end of calls that flush the queue in between    *)
(* (preprocessor_enqueue, preprocessor_add_result,                         *)
(* preprocessing_flush_queue).                                             *)
THEOREM PreprocCountersExact == Spec => []CountersExact
  <1>1. Init => ResultInv /\ CountInv
    BY ResultInit, CountInit
  <1>2. IInv /\ IInv' /\ (ResultInv /\ CountInv) /\ [Next]_vars => (ResultInv /\ CountInv)'
    BY ResultNext, CountNext
  <1>3. IInv /\ CountInv => CountersExact
    BY CountersExactHolds
  <1> QED BY <1>1, <1>2, <1>3, PreprocInvariant, PTL DEF Spec

(* The counters are not negative because they count something.             *)
LEMMA TypeOKHolds == IInv /\ RefInv /\ CountInv => TypeOK
  <1> SUFFICES ASSUME IInv, RefInv, CountInv PROVE TypeOK
    OBVIOUS
  <1>1. TypeInv /\ WorkInv
    BY DEF IInv
  <1>2. refcount \in [Results -> Nat]
    <2>1. \A q \in Results : refcount[q] \in Nat
      BY UsersFinite DEF RefInv
    <2> QED BY <1>1, <2>1 DEF TypeInv
  <1>3. preproc_num \in Nat
    <2>1. Len(todo) \in Nat
      BY <1>1 DEF TypeInv
    <2>2. Count(todo, "release") \in Nat /\ Cardinality(Counted(req)) \in Nat
      BY <2>1, CountType, CountedFinite
    <2> QED BY <2>2 DEF CountInv
  <1>4. \A w \in Workers : Len(inbox[w]) + Len(outbox[w]) <= 1
    BY <1>1 DEF WorkInv, WorkerInv
  <1>5. req \in [Ids -> [state : {"FREE", "QUEUED", "PROCESSING", "DONE", "PENDING"},
                        pending : Ids \cup {None}, flush : Seq(Ids), supported : BOOLEAN,
                        isset : BOOLEAN, ver : 0..MaxConfigChanges, res : Results \cup {None}]]
    BY <1>1 DEF TypeInv, Request
  <1>6. {item_config, config} \subseteq [Items -> Config]
    BY <1>1 DEF TypeInv
  <1>7. /\ queue \in Seq(Ids) /\ linked_items \in [Items -> Ids \cup {None}]
        /\ history_cache \in [Items -> History \cup {None}]
        /\ priority_tail \in Ids \cup {None}
        /\ direct_queue \in Seq(Tests) /\ workers \in Seq(Workers)
        /\ task \in [Workers -> Ids \cup Tests \cup {None}]
        /\ queued_num \in Int
        /\ tests \in [Tests -> {"idle", "waiting", "answered", "closed"}]
        /\ received \in 0..MaxReceived
        /\ flushed \in Seq(Ids) /\ delivered \in 0..Len(flushed)
    BY <1>1 DEF TypeInv
  <1> QED BY ONLY <1>2, <1>3, <1>4, <1>5, <1>6, <1>7 DEF TypeOK

(* The variables of the preprocessing manager have their types; in         *)
(* particular no reference counter, and not preproc_num, falls below zero. *)
THEOREM PreprocTypeOK == Spec => []TypeOK
  <1>1. Init => ResultInv /\ RefInv /\ CountInv
    BY ResultInit, RefInit, CountInit
  <1>2. IInv /\ IInv' /\ (ResultInv /\ RefInv /\ CountInv) /\ [Next]_vars => (ResultInv /\ RefInv /\ CountInv)'
    BY ResultNext, RefNext, CountNext
  <1>3. IInv /\ RefInv /\ CountInv => TypeOK
    BY TypeOKHolds
  <1> QED BY <1>1, <1>2, <1>3, PreprocInvariant, PTL DEF Spec


------------------------------------------------------------------------------
(* The master of a value that is about to be enqueued *)

(* Only the last dependent of an item to be enqueued may be flushed with   *)
(* dependents of its own while the others still wait for their turn.       *)
LastHandsOn ==
    \A i \in Items : \A k \in DOMAIN Deps[i] :
        k > 1 => Steps[Deps[i][k]] # "none" \/ Deps[Deps[i][k]] = <<>>

(* A call that places a request next to that of another value. *)
Mastered(c) == c.op \in {"enqueue", "dependents"} /\ c.master # None

NoMasters(s) == \A k \in 1..Len(s) : ~Mastered(s[k])

(* A call that does not flush the queue, nor leads to one that does. *)
HarmlessCalls ==
    {c \in CallRecord : \/ c.op = "queued"
                        \/ c.op \in {"enqueue", "dependents"} /\ Deps[ItemOf(c.id)] = <<>>
                        \/ c.op = "enqueue" /\ ~NeedsNoPreprocessing(c.id)}

(* The masters are in the queue Q, and only calls of H come before. *)
Masters(s, Q, H) ==
    \A k \in 1..Len(s) : Mastered(s[k]) =>
        In1(Q, s[k].master) /\ \A j \in 1..Len(s) : j < k => s[j] \in H

MasterInv == Masters(todo, queue, HarmlessCalls)

(* When the first call returns, the masters of the others are still        *)
(* queued; behind a call that may flush the queue nobody has a master.     *)
LEMMA MastersTail ==
  ASSUME NEW s \in Seq(CallRecord), s # <<>>, NEW Q, NEW H, Masters(s, Q, H)
  PROVE  /\ Masters(Tail(s), Q, H)
         /\ Head(s) \notin H => NoMasters(Tail(s))
  <1> DEFINE t == Tail(s)
  <1>1. /\ Len(s) \in Nat /\ 1 \in 1..Len(s) /\ Len(t) = Len(s) - 1
        /\ Head(s) = s[1] /\ \A k \in 1..(Len(s) - 1) : t[k] = s[k + 1]
    OBVIOUS
  <1> HIDE DEF t
  <1>2. ASSUME NEW k \in 1..Len(t), Mastered(t[k])
        PROVE  In1(Q, t[k].master) /\ Head(s) \in H /\ \A j \in 1..Len(t) : j < k => t[j] \in H
    <2>1. k + 1 \in 1..Len(s) /\ t[k] = s[k + 1] /\ 1 < k + 1
      BY <1>1
    <2>2. Mastered(s[k + 1])
      BY <1>2, <2>1
    <2>3. In1(Q, s[k + 1].master) /\ \A j \in 1..Len(s) : j < k + 1 => s[j] \in H
      BY <2>1, <2>2 DEF Masters
    <2>4. ASSUME NEW j \in 1..Len(t), j < k PROVE t[j] \in H
      <3>1. j + 1 \in 1..Len(s) /\ t[j] = s[j + 1] /\ j + 1 < k + 1
        BY <1>1, <2>4
      <3> QED BY <2>3, <3>1
    <2>5. Head(s) \in H
      BY <1>1, <2>1, <2>3
    <2> QED BY <2>1, <2>3, <2>4, <2>5
  <1>3. Masters(t, Q, H) /\ (Head(s) \notin H => NoMasters(t))
    BY <1>2 DEF Masters, NoMasters
  <1> QED BY <1>3 DEF t

(* New calls before the pending ones: their masters are queued, and either *)
(* the pending ones have none or the new calls flush nothing and no master *)
(* leaves the queue.                                                       *)
LEMMA MastersJoin ==
  ASSUME NEW u \in Seq(CallRecord), NEW t \in Seq(CallRecord), NEW Q, NEW R, NEW H, NEW G,
         Masters(u, R, G), Masters(t, Q, H),
         \/ NoMasters(t)
         \/ /\ \A k \in 1..Len(u) : u[k] \in G
            /\ \A y : In1(Q, y) => In1(R, y)
            /\ \A k \in 1..Len(t) : t[k] \in H => t[k] \in G
  PROVE  Masters(u \o t, R, G)
  <1> DEFINE v == u \o t
  <1>0. Len(u) \in Nat /\ Len(t) \in Nat
    BY LenProperties
  <1>1. /\ Len(v) = Len(u) + Len(t)
        /\ \A k \in 1..(Len(u) + Len(t)) : v[k] = IF k <= Len(u) THEN u[k] ELSE t[k - Len(u)]
    BY ConcatProperties, LenProperties, Zenon
  <1> HIDE DEF v
  <1>2. ASSUME NEW k \in 1..Len(v)
        PROVE  (k \in 1..Len(u) /\ v[k] = u[k]) \/ (k > Len(u) /\ k - Len(u) \in 1..Len(t) /\ v[k] = t[k - Len(u)])
    BY <1>0, <1>1
  <1>3. ASSUME NEW k \in 1..Len(v), Mastered(v[k])
        PROVE  In1(R, v[k].master) /\ \A j \in 1..Len(v) : j < k => v[j] \in G
    <2>1. CASE k \in 1..Len(u) /\ v[k] = u[k]
      <3>1. In1(R, u[k].master) /\ \A j \in 1..Len(u) : j < k => u[j] \in G
        BY <1>3, <2>1 DEF Masters
      <3>2. ASSUME NEW j \in 1..Len(v), j < k PROVE v[j] \in G
        <4>1. j \in 1..Len(u) /\ v[j] = u[j]
          BY <1>0, <1>2, <2>1, <3>2
        <4> QED BY <3>1, <3>2, <4>1
      <3> QED BY <2>1, <3>1, <3>2
    <2>2. CASE k > Len(u) /\ k - Len(u) \in 1..Len(t) /\ v[k] = t[k - Len(u)]
      <3> DEFINE n == k - Len(u)
      <3>0. n \in 1..Len(t) /\ v[k] = t[n] /\ k = Len(u) + n
        BY <1>0, <2>2
      <3> HIDE DEF n
      <3>1. Mastered(t[n])
        BY <1>3, <3>0
      <3>2. /\ \A j \in 1..Len(u) : u[j] \in G
            /\ \A y : In1(Q, y) => In1(R, y)
            /\ \A j \in 1..Len(t) : t[j] \in H => t[j] \in G
        BY <3>0, <3>1 DEF NoMasters
      <3>3. In1(Q, t[n].master) /\ \A j \in 1..Len(t) : j < n => t[j] \in H
        BY <3>0, <3>1 DEF Masters
      <3>4. ASSUME NEW j \in 1..Len(v), j < k PROVE v[j] \in G
        <4>1. CASE j \in 1..Len(u) /\ v[j] = u[j]
          BY <3>2, <4>1
        <4>2. CASE j > Len(u) /\ j - Len(u) \in 1..Len(t) /\ v[j] = t[j - Len(u)]
          <5>1. j - Len(u) < n
            BY <1>0, <3>0, <3>4
          <5> QED BY <3>2, <3>3, <4>2, <5>1
        <4> QED BY <1>2, <4>1, <4>2
      <3> QED BY <3>0, <3>2, <3>3, <3>4
    <2> QED BY <1>2, <2>1, <2>2
  <1>4. Masters(v, R, G)
    BY <1>3 DEF Masters
  <1> QED BY <1>4 DEF v

(* Calls without a master need none in the queue, and plain calls are      *)
(* such.                                                                   *)
LEMMA NoMastersProperties ==
  /\ \A s, Q, H : NoMasters(s) => Masters(s, Q, H)
  /\ \A s : Plain(s) => NoMasters(s)
  BY DEF NoMasters, Masters, Plain, Mastered

(* Calls that are neither harmless nor lead to one. *)
LEMMA HarmfulCalls ==
  ASSUME NEW c, c.op \notin {"queued", "enqueue", "dependents"}
  PROVE  c \notin HarmlessCalls
  BY DEF HarmlessCalls


(* What a call does to the queue depends on the requests and on the        *)
(* configuration.                                                          *)
LEMMA HarmlessSame ==
  ASSUME UNCHANGED <<req, item_config>>
  PROVE  HarmlessCalls' = HarmlessCalls
  BY DEF HarmlessCalls, NeedsNoPreprocessing, HasSteps

(* A call returns, or nothing is called. *)
LEMMA MasterReturn ==
  ASSUME TypeInv, MasterInv, UNCHANGED <<queue, req, item_config>>,
         todo' = todo \/ (todo # <<>> /\ todo' = Tail(todo))
  PROVE  MasterInv'
  <1>1. todo \in Seq(CallRecord) /\ Masters(todo, queue, HarmlessCalls)
    BY DEF TypeInv, MasterInv
  <1>2. Masters(todo', queue, HarmlessCalls)
    BY <1>1, MastersTail
  <1> QED BY <1>2, HarmlessSame DEF MasterInv

(* New calls take the place of one that may flush the queue. *)
LEMMA MasterHarmful ==
  ASSUME TypeInv, MasterInv, todo # <<>>, Head(todo) \notin HarmlessCalls,
         NEW u \in Seq(CallRecord), Masters(u, queue, HarmlessCalls)', todo' = u \o Tail(todo)
  PROVE  MasterInv'
  <1> DEFINE t == Tail(todo)
  <1>1. todo \in Seq(CallRecord) /\ Masters(todo, queue, HarmlessCalls)
    BY DEF TypeInv, MasterInv
  <1>2. t \in Seq(CallRecord) /\ Masters(t, queue, HarmlessCalls) /\ NoMasters(t)
    BY <1>1, MastersTail
  <1>3. Masters(u, queue', HarmlessCalls')
    OBVIOUS
  <1> HIDE DEF t
  <1>4. Masters(u \o t, queue', HarmlessCalls')
    BY <1>2, <1>3, MastersJoin
  <1> QED BY <1>4 DEF MasterInv, t

(* The steps that are about no master. *)
LEMMA MasterQuiet ==
  ASSUME IInv, MasterInv, QuietStep \/ preproc_item_value_clear
  PROVE  MasterInv'
  <1>0. TypeInv
    BY DEF IInv
  <1>1. CASE enqueue_end \/ AssignReturn \/ DependentsNone \/ FlushNone \/ result_end \/ flush_history \/ preproc_item_value_clear
    <2>1. /\ todo # <<>> /\ todo' = Tail(todo)
      BY <1>1 DEF enqueue_end, AssignReturn, DependentsNone, FlushNone, result_end, flush_history, preproc_item_value_clear,
                  Calling, Return
    <2>2. UNCHANGED <<queue, req, item_config>>
      BY <1>1 DEF enqueue_end, AssignReturn, DependentsNone, FlushNone, result_end, flush_history, preproc_item_value_clear, qvars
    <2> QED BY <1>0, <2>1, <2>2, MasterReturn
  <1>2. CASE recv_timeout \/ (\E w \in Workers : preprocessor_register_worker(w) \/ preprocessor_flush_test_result(w))
               \/ (\E t \in Tests : preprocessor_add_test_request(t))
    <2>1. todo' \in {<<FlushHistory>>, <<Assign(1), FlushHistory>>, <<Assign(1), Flush, FlushHistory>>}
      BY <1>2 DEF recv_timeout, preprocessor_register_worker, preprocessor_flush_test_result, preprocessor_add_test_request
    <2>2. Plain(todo')
      BY <2>1, PlainLists
    <2> QED BY <2>2, NoMastersProperties DEF MasterInv
  <1>3. CASE (\E w : AssignTest(w)) \/ (\E w \in Workers : Worker(w)) \/ (\E t \in Tests : client_close(t))
               \/ (\E i \in Items, present \in BOOLEAN : config_change(i, present))
    <2>1. UNCHANGED <<queue, req, item_config>> /\ todo' = todo
      BY <1>3 DEF AssignTest, Worker, worker_start, worker_preprocess_value, worker_test_value, client_close, config_change, qvars
    <2> QED BY <1>0, <2>1, MasterReturn
  <1> QED BY <1>1, <1>2, <1>3 DEF QuietStep

(* preprocessor_assign_tasks: it is called when no master is needed any    *)
(* more, for what it does to the queue may remove one.                     *)
LEMMA MasterAssign ==
  ASSUME IInv, MasterInv, preprocessor_assign_tasks
  PROVE  MasterInv'
  <1>0. TypeInv
    BY DEF IInv
  <1>1. CASE \E k, id : AssignUnsupported(k, id)
    <2>1. PICK k, id : AssignUnsupported(k, id)
      BY <1>1
    <2>2. /\ todo # <<>> /\ Head(todo).op = "assign" /\ k \in Nat \ {0}
          /\ todo' = <<Assign(IF k = 1 THEN 2 ELSE k)>> \o Tail(todo)
      BY <2>1 DEF AssignUnsupported, Calling, Call
    <2>3. PICK n \in Nat \ {0} : n = IF k = 1 THEN 2 ELSE k
      BY <2>2
    <2>4. Plain(<<Assign(n)>>)
      BY PlainLists
    <2>5. <<Assign(n)>> \in Seq(CallRecord) /\ Masters(<<Assign(n)>>, queue', HarmlessCalls')
      BY <2>4, NoMastersProperties, PlainCalls
    <2>6. Head(todo) \notin HarmlessCalls
      BY <2>2, HarmfulCalls
    <2> QED BY <1>0, <2>2, <2>3, <2>5, <2>6, MasterHarmful
  <1>2. CASE \E w, id : AssignValue(w, id)
    <2>1. PICK w, id : AssignValue(w, id)
      BY <1>2
    <2>2. /\ todo # <<>> /\ Head(todo).op = "assign"
          /\ todo' = <<Assign(1)>> \o Tail(todo)
      BY <2>1 DEF AssignValue, Calling, Call
    <2>4. Plain(<<Assign(1)>>)
      BY PlainLists
    <2>5. <<Assign(1)>> \in Seq(CallRecord) /\ Masters(<<Assign(1)>>, queue', HarmlessCalls')
      BY <2>4, NoMastersProperties, PlainCalls
    <2>6. Head(todo) \notin HarmlessCalls
      BY <2>2, HarmfulCalls
    <2> QED BY <1>0, <2>2, <2>5, <2>6, MasterHarmful
  <1>3. CASE AssignReturn \/ \E w : AssignTest(w)
    BY <1>3, MasterQuiet DEF QuietStep
  <1> QED BY <1>0, <1>1, <1>2, <1>3, AssignCases

(* preprocessing_flush_queue: it is called when no master is needed any    *)
(* more.                                                                   *)
LEMMA MasterFlush ==
  ASSUME IInv, MasterInv, preprocessing_flush_queue
  PROVE  MasterInv'
  <1>1. CASE FlushNone
    BY <1>1, MasterQuiet DEF QuietStep
  <1>2. CASE \E ids : FlushFirst(ids)
    <2>1. todo # <<>> /\ Head(todo).op = "flush" /\ todo' = todo /\ todo \in Seq(CallRecord) /\ Masters(todo, queue, HarmlessCalls)
      BY <1>2 DEF FlushFirst, Calling, IInv, TypeInv, MasterInv
    <2>2. NoMasters(todo)
      <3>1. Head(todo) = todo[1] /\ 1 \in 1..Len(todo) /\ Len(todo) \in Nat
        BY <2>1
      <3>2. todo[1] \notin HarmlessCalls /\ ~Mastered(todo[1])
        BY <2>1, <3>1, HarmfulCalls DEF Mastered
      <3>3. \A k \in 1..Len(todo) : k = 1 \/ 1 < k
        OBVIOUS
      <3> QED BY <2>1, <3>1, <3>2, <3>3 DEF NoMasters, Masters
    <2> QED BY <2>1, <2>2, NoMastersProperties DEF MasterInv
  <1> QED BY <1>1, <1>2, FlushCases


(* A harmless call stays harmless while its value stays as it is.          *)
LEMMA HarmlessKept ==
  ASSUME UNCHANGED item_config,
         \A x \in Ids : req'[x].isset = req[x].isset /\ req'[x].supported = req[x].supported
  PROVE  \A c \in HarmlessCalls : c \in HarmlessCalls'
  <1>1. ASSUME NEW c \in HarmlessCalls PROVE c \in HarmlessCalls'
    <2>1. c \in CallRecord
      BY DEF HarmlessCalls
    <2>2. CASE c.op = "queued" \/ (c.op \in {"enqueue", "dependents"} /\ Deps[ItemOf(c.id)] = <<>>)
      BY <2>1, <2>2 DEF HarmlessCalls
    <2>3. CASE c.op = "enqueue" /\ ~NeedsNoPreprocessing(c.id)
      <3>1. c.id \in Ids
        BY <2>1, <2>3, CallTypes
      <3>2. ~NeedsNoPreprocessing(c.id)'
        BY <2>3, <3>1 DEF NeedsNoPreprocessing, HasSteps
      <3> QED BY <2>1, <2>3, <3>2 DEF HarmlessCalls
    <2> QED BY <2>2, <2>3 DEF HarmlessCalls
  <1> QED BY <1>1

(* What is in a queue after an insertion.                                  *)
LEMMA InsertIn ==
  ASSUME NEW Q \in Seq(Ids), NEW n \in 1..(Len(Q) + 1), NEW x \in Ids
  PROVE  \A y : In1(InsertAt(Q, n, x), y) <=> In1(Q, y) \/ y = x
  <1> DEFINE R == InsertAt(Q, n, x)
  <1>2. Len(Q) \in Nat
    OBVIOUS
  <1>3. /\ Len(R) = Len(Q) + 1
        /\ \A k \in 1..(Len(Q) + 1) : R[k] = IF k < n THEN Q[k] ELSE IF k = n THEN x ELSE Q[k - 1]
    BY InsertAtProperties
  <1> HIDE DEF R
  <1>4. ASSUME NEW k \in 1..Len(Q) PROVE In1(R, Q[k])
    <2>1. CASE k < n
      <3>1. k \in 1..(Len(Q) + 1) /\ R[k] = Q[k]
        BY <1>2, <1>3, <2>1
      <3> QED BY <1>3, <3>1 DEF In1
    <2>2. CASE ~(k < n)
      <3>1. k + 1 \in 1..(Len(Q) + 1) /\ ~(k + 1 < n) /\ k + 1 # n /\ (k + 1) - 1 = k
        BY <1>2, <2>2
      <3>2. R[k + 1] = Q[k]
        BY <1>3, <3>1
      <3> QED BY <1>3, <3>1, <3>2 DEF In1
    <2> QED BY <2>1, <2>2
  <1>5. ASSUME NEW k \in 1..Len(R) PROVE In1(Q, R[k]) \/ R[k] = x
    <2>1. CASE k < n
      <3>1. k \in 1..Len(Q) /\ R[k] = Q[k]
        BY <1>2, <1>3, <2>1
      <3> QED BY <3>1 DEF In1
    <2>2. CASE k = n
      BY <1>2, <1>3, <2>2
    <2>3. CASE ~(k < n) /\ k # n
      <3>1. k - 1 \in 1..Len(Q) /\ R[k] = Q[k - 1]
        BY <1>2, <1>3, <2>3
      <3> QED BY <3>1 DEF In1
    <2> QED BY <2>1, <2>2, <2>3
  <1>6. In1(R, x)
    BY <1>2, <1>3 DEF In1
  <1>7. \A y : In1(R, y) <=> In1(Q, y) \/ y = x
    BY <1>4, <1>5, <1>6 DEF In1
  <1> QED BY <1>7 DEF R

(* preprocessor_enqueue of a value that is flushed at once: its dependents *)
(* have no master.                                                         *)
LEMMA MasterEnqueueNow ==
  ASSUME IInv, MasterInv, NEW id, EnqueueNow(id)
  PROVE  MasterInv'
  <1> DEFINE u == <<Dependents(id, None), Clear(id)>>
             t == Tail(todo)
  <1>1. TypeInv /\ todo \in Seq(CallRecord) /\ Masters(todo, queue, HarmlessCalls)
    BY DEF IInv, TypeInv, MasterInv
  <1>2. /\ Calling("enqueue") /\ id = Head(todo).id /\ queue = <<>> /\ todo # <<>>
        /\ todo' = u \o t
    BY DEF EnqueueNow, Calling
  <1>3. id \in Ids /\ t \in Seq(CallRecord)
    BY <1>2, EnqueueFacts
  <1>4. u \in Seq(CallRecord)
    BY <1>3, EnqueueNowCalls
  <1>5. NoMasters(u)
    BY DEF NoMasters, Mastered, Dependents, Clear
  <1>6. Masters(t, queue, HarmlessCalls)
    BY <1>1, <1>2, MastersTail
  <1> HIDE DEF t, u
  <1>7. NoMasters(t)
    <2>1. \A y : ~In1(queue, y)
      BY <1>2 DEF In1
    <2> QED BY <1>6, <2>1 DEF Masters, NoMasters
  <1>8. Masters(u, queue', HarmlessCalls')
    BY <1>5, NoMastersProperties
  <1>9. Masters(u \o t, queue', HarmlessCalls')
    BY <1>3, <1>4, <1>6, <1>7, <1>8, MastersJoin
  <1> QED BY <1>2, <1>9 DEF MasterInv

(* preprocessor_enqueue of a value that is queued: it is the master of its *)
(* dependents, and it does not remove one.                                 *)
LEMMA MasterEnqueueQueued ==
  ASSUME IInv, MasterInv, NEW id, NEW master, NEW done, NEW r, EnqueueQueued(id, master, done, r)
  PROVE  MasterInv'
  <1> DEFINE u == EnqueueCall(id, done)
             t == Tail(todo)
  <1>1. TypeInv /\ todo \in Seq(CallRecord) /\ Masters(todo, queue, HarmlessCalls) /\ queue \in Seq(Ids)
        /\ QueueInv(queue, req) /\ req \in [Ids -> Request]
    BY DEF IInv, TypeInv, MasterInv
  <1>2. /\ Calling("enqueue") /\ id = Head(todo).id /\ todo # <<>> /\ Head(todo).op = "enqueue"
        /\ todo' = u \o t /\ done = NeedsNoPreprocessing(id) /\ queue' = Inserted(id, master) /\ UNCHANGED item_config
    BY DEF EnqueueQueued, Calling
  <1>3. id \in Ids /\ t \in Seq(CallRecord) /\ id \notin Held(req) /\ req[id].flush = <<>>
    BY <1>2, EnqueueFacts
  <1>4. done \in BOOLEAN
    BY <1>2 DEF NeedsNoPreprocessing
  <1>5. u \in Seq(CallRecord)
    BY <1>3, <1>4, EnqueueQueuedCalls
  <1>6. /\ req' \in [Ids -> Request]
        /\ \A x \in Ids : /\ x # id => req'[x].state = req[x].state
                          /\ req'[id].state \in {"DONE", "PENDING", "QUEUED"}
                          /\ req'[x].flush = req[x].flush
                          /\ req'[x].supported = req[x].supported /\ req'[x].isset = req[x].isset
    BY <1>3, QueuedFields
  <1>7. \A y : In1(queue', y) <=> In1(queue, y) \/ y = id
    <2>1. PICK n \in 1..(Len(queue) + 1) : queue' = InsertAt(queue, n, id)
      BY <1>1, <1>2, <1>3, InsertedPosition
    <2>2. queue \in Seq(Ids) /\ id \in Ids
      BY <1>1, <1>3
    <2> QED BY <2>1, <2>2, InsertIn
  <1>8. Masters(t, queue, HarmlessCalls) /\ (Head(todo) \notin HarmlessCalls => NoMasters(t))
    BY <1>1, <1>2, MastersTail
  <1>9. /\ Len(u) \in Nat
        /\ \A k \in 1..Len(u) : u[k] = Queued \/ (done /\ k = 1 /\ u[k] = Dependents(id, id))
    <2>1. CASE done
      BY <2>1 DEF EnqueueCall
    <2>2. CASE ~done
      BY <2>2 DEF EnqueueCall
    <2> QED BY <2>1, <2>2
  <1> HIDE DEF t, u
  <1>10. Masters(u, queue', HarmlessCalls')
    <2>1. ASSUME NEW k \in 1..Len(u), Mastered(u[k])
          PROVE  In1(queue', u[k].master) /\ \A j \in 1..Len(u) : j < k => u[j] \in HarmlessCalls'
      <3>1. u[k] # Queued
        BY <2>1 DEF Mastered, Queued
      <3>2. k = 1 /\ u[k].master = id
        BY <1>9, <3>1 DEF Dependents
      <3>3. \A j \in 1..Len(u) : ~(j < 1)
        OBVIOUS
      <3> QED BY <1>7, <3>2, <3>3
    <2> QED BY <2>1 DEF Masters
  <1>11. CASE Head(todo) \notin HarmlessCalls
    <2>1. Masters(u \o t, queue', HarmlessCalls')
      BY <1>3, <1>5, <1>8, <1>10, <1>11, MastersJoin
    <2> QED BY <1>2, <2>1 DEF MasterInv
  <1>12. CASE Head(todo) \in HarmlessCalls
    <2>1. \A c \in HarmlessCalls : c \in HarmlessCalls'
      BY <1>2, <1>6, HarmlessKept
    <2>2. done => Deps[ItemOf(id)] = <<>>
      BY <1>2, <1>12 DEF HarmlessCalls
    <2>3. Queued \in CallRecord /\ Dependents(id, id) \in CallRecord
      BY <1>3, CallsAreRecords
    <2>4. Queued.op = "queued" /\ Dependents(id, id).op = "dependents" /\ Dependents(id, id).id = id
      BY DEF Queued, Dependents
    <2>5. Queued \in HarmlessCalls' /\ (done => Dependents(id, id) \in HarmlessCalls')
      BY <2>2, <2>3, <2>4 DEF HarmlessCalls
    <2>6. \A k \in 1..Len(u) : u[k] \in HarmlessCalls'
      BY <1>9, <2>5
    <2>7. \A k \in 1..Len(t) : t[k] \in HarmlessCalls => t[k] \in HarmlessCalls'
      BY <2>1
    <2>8. \A y : In1(queue, y) => In1(queue', y)
      BY <1>7
    <2>9. Masters(t, queue, HarmlessCalls)
      BY <1>8
    <2>10. Masters(u \o t, queue', HarmlessCalls')
      BY ONLY <1>3, <1>5, <1>10, <2>6, <2>7, <2>8, <2>9, MastersJoin
    <2> QED BY <1>2, <2>10 DEF MasterInv
  <1> QED BY <1>11, <1>12


(* The calls that enqueue the derived values, the last dependent first.    *)
LEMMA DerivedList ==
  ASSUME todo \in Seq(CallRecord), NEW id, NEW s, DependentsDerived(id, s)
  PROVE  /\ id \in Ids /\ Head(todo).master \in Ids \cup {None} /\ Tail(todo) \in Seq(CallRecord)
         /\ \E e \in Seq(CallRecord), n \in Nat :
               /\ Len(e) = n /\ todo' = (e \o <<Assign(1), Flush>>) \o Tail(todo)
               /\ \A k \in 1..n : /\ s[k] \in dep_itemids(ItemOf(id)) /\ s[k] \in Nat \ {0}
                                  /\ e[k] = Enqueue(<<id[1], Deps[ItemOf(id)][s[k]]>>, Head(todo).master)
                                  /\ <<id[1], Deps[ItemOf(id)][s[k]]>> \in DerivedIds(id)
               /\ \A j, k \in 1..n : j < k => s[j] > s[k]
  <1> DEFINE i == ItemOf(id)
             D == dep_itemids(i)
             n == Cardinality(D)
             m == Head(todo).master
             e == [k \in 1..n |-> Enqueue(<<id[1], Deps[i][s[k]]>>, m)]
             rest == Tail(todo)
             plain == <<Assign(1), Flush>>
  <1>1. /\ todo # <<>> /\ id = Head(todo).id /\ Head(todo).op = "dependents"
        /\ s \in Descending(D)
        /\ todo' = ([k \in DOMAIN s |-> Enqueue(<<id[1], Deps[i][s[k]]>>, m)] \o plain) \o rest
    BY DEF DependentsDerived, Calling
  <1>2. rest \in Seq(CallRecord) /\ Head(todo) \in CallRecord
    BY <1>1
  <1>3. id \in Ids /\ m \in Ids \cup {None} /\ i \in Items
    BY <1>1, <1>2, CallTypes, IdTypes
  <1>4. Deps[i] \in Seq(Items) /\ D \subseteq DOMAIN Deps[i]
    BY <1>3, PreprocAssumption DEF dep_itemids
  <1>5. D \in SUBSET (Nat \ {0}) /\ IsFiniteSet(D)
    <2>1. DOMAIN Deps[i] = 1..Len(Deps[i]) /\ Len(Deps[i]) \in Nat
      BY <1>4
    <2>2. IsFiniteSet(DOMAIN Deps[i])
      BY <2>1, FS_Interval
    <2> HIDE DEF D
    <2> QED BY <1>4, <2>1, <2>2, FS_Subset
  <1>6. /\ n \in Nat /\ DOMAIN s = 1..n
        /\ \A k \in 1..n : s[k] \in D
        /\ \A j, k \in 1..n : j < k => s[j] > s[k]
    <2>1. D \in SUBSET Nat
      BY <1>5
    <2> HIDE DEF D
    <2>2. DOMAIN s = 1..n /\ n \in Nat /\ \A k \in 1..n : s[k] \in D
      BY <1>1, <1>5, <2>1, DescendingProperties
    <2> QED BY <1>1, <2>2 DEF Descending
  <1>7. \A k \in 1..n : <<id[1], Deps[i][s[k]]>> \in DerivedIds(id) /\ <<id[1], Deps[i][s[k]]>> \in Ids
    <2>1. DerivedIds(id) \subseteq Children(id)
      BY <1>4 DEF DerivedIds, Children
    <2>2. DerivedIds(id) \subseteq Ids
      BY <1>3, <2>1, ChildFacts
    <2>3. ASSUME NEW k \in 1..n PROVE <<id[1], Deps[i][s[k]]>> \in DerivedIds(id)
      <3>1. s[k] \in dep_itemids(ItemOf(id))
        BY <1>6, <2>3
      <3> QED BY <3>1 DEF DerivedIds
    <2> QED BY <2>2, <2>3
  <1> HIDE DEF n
  <1>8. e = [k \in DOMAIN s |-> Enqueue(<<id[1], Deps[i][s[k]]>>, m)]
    BY <1>6
  <1>9. e \in [1..n -> CallRecord] /\ \A k \in 1..n : e[k] = Enqueue(<<id[1], Deps[i][s[k]]>>, m)
    <2>1. \A k \in 1..n : Enqueue(<<id[1], Deps[i][s[k]]>>, m) \in CallRecord
      BY <1>3, <1>7, CallsAreRecords
    <2> QED BY <2>1
  <1>10. todo' = (e \o plain) \o rest
    BY <1>1, <1>8
  <1> HIDE DEF e
  <1>11. e \in Seq(CallRecord) /\ Len(e) = n
    BY <1>6, <1>9
  <1>12. \A k \in 1..n : s[k] \in dep_itemids(ItemOf(id)) /\ s[k] \in Nat \ {0}
    BY <1>5, <1>6
  <1> QED BY <1>2, <1>3, <1>6, <1>7, <1>9, <1>10, <1>11, <1>12

(* preprocessor_enqueue_dependent: the dependents get the master of the    *)
(* value; all but the last one are enqueued without flushing the queue.    *)
LEMMA MasterDependents ==
  ASSUME LastHandsOn, IInv, MasterInv, preprocessor_enqueue_dependent
  PROVE  MasterInv'
  <1> DEFINE t == Tail(todo)
             m == Head(todo).master
             plain == <<Assign(1), Flush>>
  <1>1. TypeInv /\ todo \in Seq(CallRecord) /\ Masters(todo, queue, HarmlessCalls) /\ req \in [Ids -> Request]
        /\ todo # <<>> /\ Head(todo).op = "dependents"
    BY DEF IInv, TypeInv, MasterInv, preprocessor_enqueue_dependent, Calling
  <1>2. CASE DependentsNone
    BY <1>2, MasterQuiet DEF QuietStep
  <1>3. ASSUME NEW id, NEW s, DependentsDerived(id, s), DerivedIds(id) # {} PROVE MasterInv'
    <2>1. id = Head(todo).id /\ UNCHANGED <<queue, item_config>>
      BY <1>3 DEF DependentsDerived
    <2>2. id \in Ids /\ m \in Ids \cup {None} /\ t \in Seq(CallRecord)
      BY <1>1, <1>3, DerivedList
    <2>3. PICK e \in Seq(CallRecord), n \in Nat :
               /\ Len(e) = n /\ todo' = (e \o <<Assign(1), Flush>>) \o Tail(todo)
               /\ \A k \in 1..n : /\ s[k] \in dep_itemids(ItemOf(id)) /\ s[k] \in Nat \ {0}
                                  /\ e[k] = Enqueue(<<id[1], Deps[ItemOf(id)][s[k]]>>, Head(todo).master)
                                  /\ <<id[1], Deps[ItemOf(id)][s[k]]>> \in DerivedIds(id)
               /\ \A j, k \in 1..n : j < k => s[j] > s[k]
      BY <1>1, <1>3, DerivedList
    <2>4. Head(todo) \notin HarmlessCalls
      <3>1. Deps[ItemOf(id)] # <<>>
        BY <1>3 DEF DerivedIds, dep_itemids
      <3> QED BY <1>1, <2>1, <3>1 DEF HarmlessCalls
    <2>5. m # None => In1(queue, m)
      <3>1. 1 \in 1..Len(todo) /\ Head(todo) = todo[1]
        BY <1>1
      <3>2. m # None => Mastered(todo[1])
        BY <1>1, <3>1 DEF Mastered
      <3> QED BY <1>1, <3>1, <3>2 DEF Masters
    <2>6. ASSUME NEW j \in 1..n, NEW k \in 1..n, j < k PROVE e[j] \in HarmlessCalls'
      <3> DEFINE d == Deps[ItemOf(id)][s[j]]
                 x == <<id[1], d>>
      <3>1. s[j] \in DOMAIN Deps[ItemOf(id)] /\ item_config[d].present /\ s[j] > 1 /\ ItemOf(id) \in Items
        <4>1. s[j] \in dep_itemids(ItemOf(id)) /\ s[j] \in Nat \ {0} /\ s[k] \in Nat \ {0} /\ s[j] > s[k]
          BY <2>3, <2>6
        <4>2. s[j] > 1
          BY ONLY <4>1
        <4> QED BY <2>2, <4>1, <4>2, IdTypes DEF dep_itemids
      <3>2. Steps[d] # "none" \/ Deps[d] = <<>>
        BY <3>1 DEF LastHandsOn
      <3>3. x \in DerivedIds(id) /\ x \in Ids /\ ItemOf(x) = d
        <4>1. DerivedIds(id) \subseteq Children(id)
          BY DEF DerivedIds, Children, dep_itemids
        <4> QED BY <2>2, <2>3, <4>1, ChildFacts DEF ItemOf
      <3>4. req'[x].isset
        <4>1. req' = [y \in Ids |-> IF y \notin DerivedIds(id) THEN req[y]
                             ELSE [req[y] EXCEPT !.supported = req[id].supported,
                                                 !.isset = TRUE, !.res = req[id].res]]
          BY <1>3 DEF DependentsDerived
        <4>2. req'[x] = [req[x] EXCEPT !.supported = req[id].supported, !.isset = TRUE, !.res = req[id].res]
          BY <3>3, <4>1
        <4>3. req[x] \in Request
          BY <1>1, <3>3
        <4> QED BY ONLY <4>2, <4>3 DEF Request
      <3>5. e[j] \in CallRecord /\ e[j].op = "enqueue" /\ e[j].id = x
        <4>1. e[j] = Enqueue(x, m) /\ j \in 1..Len(e)
          BY <2>3
        <4>2. e[j] \in CallRecord
          BY <4>1, ElementOfSeq
        <4> QED BY ONLY <4>1, <4>2 DEF Enqueue
      <3> HIDE DEF x
      <3>6. CASE Deps[d] = <<>>
        BY <3>3, <3>5, <3>6 DEF HarmlessCalls
      <3>7. CASE Steps[d] # "none"
        <4>1. ~NeedsNoPreprocessing(x)'
          BY <2>1, <3>1, <3>3, <3>4, <3>7 DEF NeedsNoPreprocessing, HasSteps
        <4> QED BY <3>5, <4>1 DEF HarmlessCalls
      <3> QED BY <3>2, <3>6, <3>7
    <2>7. Masters(e, queue', HarmlessCalls')
      <3>1. \A k \in 1..Len(e) : Mastered(e[k]) => In1(queue', e[k].master)
        <4>1. ASSUME NEW k \in 1..Len(e), Mastered(e[k]) PROVE In1(queue', e[k].master)
          <5>0. k \in 1..n /\ e[k] = Enqueue(<<id[1], Deps[ItemOf(id)][s[k]]>>, Head(todo).master)
            BY <2>3
          <5>1. e[k].master = m
            BY ONLY <5>0 DEF Enqueue
          <5>2. m # None
            BY <4>1, <5>1 DEF Mastered
          <5> QED BY <2>1, <2>5, <5>1, <5>2
        <4> QED BY <4>1
      <3> QED BY <2>3, <2>6, <3>1 DEF Masters
    <2>8. plain \in Seq(CallRecord) /\ NoMasters(plain) /\ Masters(plain, queue', HarmlessCalls')
      <3>1. Plain(plain)
        BY PlainLists
      <3> QED BY <3>1, PlainCalls, NoMastersProperties
    <2> HIDE DEF plain
    <2> DEFINE u == e \o plain
    <2>9. u \in Seq(CallRecord)
      BY <2>3, <2>8
    <2>10. Masters(u, queue', HarmlessCalls')
      BY <2>3, <2>7, <2>8, MastersJoin
    <2>11. todo' = u \o Tail(todo)
      BY <2>3 DEF plain
    <2> HIDE DEF u
    <2> QED BY <1>1, <2>4, <2>9, <2>10, <2>11, MasterHarmful
  <1>4. DependentsNone \/ \E id, s : DependentsDerived(id, s) /\ DerivedIds(id) # {}
    <2> DEFINE id == Head(todo).id
    <2>1. CASE req[id].isset /\ item_config[ItemOf(id)].present /\ DerivedIds(id) # {}
      BY <2>1 DEF preprocessor_enqueue_dependent, DependentsDerived, DerivedIds, Call
    <2>2. CASE ~(req[id].isset /\ item_config[ItemOf(id)].present /\ DerivedIds(id) # {})
      BY <2>2 DEF preprocessor_enqueue_dependent, DependentsNone, DerivedIds, qvars
    <2> QED BY <2>1, <2>2
  <1> QED BY <1>2, <1>3, <1>4


(* preprocessor_add_result: the new position of the value is in the queue. *)
LEMMA MasterResult ==
  ASSUME IInv, NEW w \in Workers, preprocessor_add_result(w)
  PROVE  MasterInv'
  <1> DEFINE id == task[w]
             p == NewPosition(id)
             outcome == Head(outbox[w]).outcome
             a == Dependents(id, p)
             b == Release(w)
  <1>1. p \in Ids /\ In1(queue', p)
    BY AddResult
  <1>0. id \in Ids /\ p \in Ids
    BY <1>1, AddResultCalls
  <1>2. todo' = ResultCalls(w, id, outcome)
    BY AddResultCalls
  <1>3. a.op = "dependents" /\ a.master = p /\ b.op = "release"
    BY DEF Dependents, Release
  <1>4. ~Mastered(b) /\ ~Mastered(Assign(1)) /\ ~Mastered(Flush) /\ ~Mastered(FlushHistory)
    <2>1. Assign(1).op = "assign" /\ Flush.op = "flush" /\ FlushHistory.op = "history"
      BY DEF Assign, Flush, FlushHistory
    <2>2. \A c : c.op \notin {"enqueue", "dependents"} => ~Mastered(c)
      BY DEF Mastered
    <2>3. b.op \notin {"enqueue", "dependents"} /\ Assign(1).op \notin {"enqueue", "dependents"}
          /\ Flush.op \notin {"enqueue", "dependents"} /\ FlushHistory.op \notin {"enqueue", "dependents"}
      BY ONLY <1>3, <2>1
    <2> QED BY ONLY <2>2, <2>3
  <1>5. CASE outcome = "value"
    <2>0. todo' = <<a>> \o <<b, Assign(1), Flush, FlushHistory>>
      BY <1>2, <1>5 DEF ResultCalls
    <2> HIDE DEF a, b, p
    <2> DEFINE u == <<a>>
               v == <<b, Assign(1), Flush, FlushHistory>>
    <2>1. u \in Seq(CallRecord) /\ Len(u) = 1 /\ u[1] = a
      <3>1. a \in CallRecord
        BY <1>0, CallsAreRecords DEF a
      <3> QED BY <3>1
    <2>2. v \in Seq(CallRecord) /\ Len(v) = 4 /\ v[1] = b /\ v[2] = Assign(1) /\ v[3] = Flush /\ v[4] = FlushHistory
      <3>1. b \in CallRecord /\ Assign(1) \in CallRecord /\ Flush \in CallRecord /\ FlushHistory \in CallRecord
        BY CallsAreRecords DEF b
      <3> QED BY <3>1
    <2> HIDE DEF u, v
    <2>3. \A k \in 1..4 : k = 1 \/ k = 2 \/ k = 3 \/ k = 4
      OBVIOUS
    <2>4. NoMasters(v)
      BY <1>4, <2>2, <2>3 DEF NoMasters
    <2>5. Masters(u, queue', HarmlessCalls')
      <3>1. \A k \in 1..1 : k = 1 /\ \A j \in 1..1 : ~(j < k)
        OBVIOUS
      <3> QED BY <1>1, <1>3, <2>1, <3>1 DEF Masters
    <2>6. Masters(v, queue', HarmlessCalls')
      BY <2>4, NoMastersProperties
    <2>7. Masters(u \o v, queue', HarmlessCalls')
      BY <2>1, <2>2, <2>4, <2>5, <2>6, MastersJoin
    <2> QED BY <2>0, <2>7 DEF MasterInv, u, v
  <1>6. CASE outcome # "value"
    <2>1. todo' = <<b, Assign(1), Flush, FlushHistory>>
      BY <1>2, <1>6 DEF ResultCalls
    <2> HIDE DEF a, b, p
    <2>2. Len(todo') = 4 /\ todo'[1] = b /\ todo'[2] = Assign(1) /\ todo'[3] = Flush /\ todo'[4] = FlushHistory
      BY <2>1
    <2>3. ASSUME NEW k \in 1..Len(todo') PROVE ~Mastered(todo'[k])
      <3>1. k = 1 \/ k = 2 \/ k = 3 \/ k = 4
        BY <2>2
      <3> QED BY <1>4, <2>2, <3>1
    <2> QED BY <2>3 DEF MasterInv, Masters
  <1> QED BY <1>5, <1>6

(* preprocessor_add_request: collected values have no master.              *)
LEMMA MasterRequest ==
  ASSUME IInv, NEW batch \in Batches, preprocessor_add_request(batch)
  PROVE  MasterInv'
  <1> DEFINE n == Len(batch)
             e == [k \in 1..n |-> Enqueue(<<received + k, batch[k].item>>, None)]
             plain == <<Assign(1), Flush, FlushHistory>>
  <1>1. /\ received + Len(batch) <= MaxReceived /\ TypeInv
        /\ todo' = [k \in DOMAIN batch |-> Enqueue(<<received + k, batch[k].item>>, None)] \o plain
    BY DEF preprocessor_add_request, IInv
  <1>2. /\ n \in Nat /\ DOMAIN batch = 1..n
        /\ \A k \in 1..n : <<received + k, batch[k].item>> \in Ids
    BY <1>1, BatchProperties
  <1>3. todo' = e \o plain
    BY <1>1, <1>2
  <1>4. \A k \in 1..n : Enqueue(<<received + k, batch[k].item>>, None) \in CallRecord
    BY <1>2, CallsAreRecords
  <1>5. e \in Seq(CallRecord) /\ Len(e) = n /\ \A k \in 1..n : e[k] = Enqueue(<<received + k, batch[k].item>>, None)
    BY <1>2, <1>4
  <1> HIDE DEF n, e
  <1>6. \A k \in 1..n : e[k].master = None
    BY <1>5 DEF Enqueue
  <1>7. NoMasters(e)
    BY <1>5, <1>6 DEF NoMasters, Mastered
  <1>8. Plain(plain)
    BY PlainLists
  <1> HIDE DEF plain
  <1>9. plain \in Seq(CallRecord) /\ NoMasters(plain)
    BY <1>8, PlainCalls, NoMastersProperties
  <1>10. Masters(e, queue', HarmlessCalls') /\ Masters(plain, queue', HarmlessCalls')
    BY <1>7, <1>9, NoMastersProperties
  <1>11. Masters(e \o plain, queue', HarmlessCalls')
    BY <1>5, <1>9, <1>10, MastersJoin
  <1> QED BY <1>3, <1>11 DEF MasterInv

(* Nothing is called at first.                                             *)
LEMMA MasterInit == Init => MasterInv
  <1> SUFFICES ASSUME Init PROVE MasterInv
    OBVIOUS
  <1>1. Plain(todo)
    BY PlainLists DEF Init
  <1> QED BY <1>1, NoMastersProperties DEF MasterInv

(* Every step keeps the masters that are needed in the queue.              *)
LEMMA MasterNext ==
  ASSUME LastHandsOn
  PROVE  IInv /\ MasterInv /\ [Next]_vars => MasterInv'
  <1> SUFFICES ASSUME IInv, MasterInv, [Next]_vars PROVE MasterInv'
    OBVIOUS
  <1>1. CASE preprocessor_enqueue
    <2>1. (\E id : EnqueueNow(id)) \/ \E id, master, done, r : EnqueueQueued(id, master, done, r)
      BY <1>1, EnqueueCases
    <2> QED BY <2>1, MasterEnqueueNow, MasterEnqueueQueued
  <1>2. CASE preprocessor_enqueue_dependent
    BY <1>2, MasterDependents
  <1>3. CASE preprocessor_assign_tasks
    BY <1>3, MasterAssign
  <1>4. CASE preprocessing_flush_queue
    BY <1>4, MasterFlush
  <1>5. CASE QuietStep \/ preproc_item_value_clear
    BY <1>5, MasterQuiet
  <1>6. CASE Calls
    BY <1>1, <1>2, <1>3, <1>4, <1>5, <1>6 DEF Calls, QuietStep
  <1>7. CASE Replies
    BY <1>5, <1>7, MasterResult DEF Replies, QuietStep
  <1>8. CASE \E batch \in Batches : preprocessor_add_request(batch)
    BY <1>8, MasterRequest
  <1>9. CASE recv_timeout \/ (\E t \in Tests : preprocessor_add_test_request(t) \/ client_close(t))
             \/ (\E w \in Workers : Worker(w)) \/ (\E i \in Items, present \in BOOLEAN : config_change(i, present))
    BY <1>5, <1>9 DEF QuietStep
  <1>10. CASE UNCHANGED vars
    <2>1. todo' = todo /\ UNCHANGED <<queue, req, item_config>> /\ TypeInv
      BY <1>10 DEF vars, qvars, IInv
    <2> QED BY <2>1, MasterReturn
  <1> QED BY <1>6, <1>7, <1>8, <1>9, <1>10 DEF Next

(* The call that is made has its master in the queue.                      *)
LEMMA MasterQueuedHolds == IInv /\ MasterInv => MasterQueued
  <1> SUFFICES ASSUME IInv, MasterInv, Calling("enqueue"), Head(todo).master # None
               PROVE  Contains(queue, Head(todo).master)
    BY DEF MasterQueued
  <1>1. todo \in Seq(CallRecord) /\ todo # <<>> /\ Head(todo).op = "enqueue"
    BY DEF IInv, TypeInv, Calling
  <1>2. 1 \in 1..Len(todo) /\ Head(todo) = todo[1]
    BY <1>1
  <1>3. Mastered(todo[1])
    BY <1>1, <1>2 DEF Mastered
  <1>4. In1(queue, todo[1].master)
    BY <1>2, <1>3 DEF MasterInv, Masters
  <1> QED BY <1>2, <1>4 DEF In1, Contains

(* A dependent value is enqueued next to a list node that is still in the  *)
(* queue (header of preprocessor_enqueue_dependent), provided that of the  *)
(* dependents of an item only the first one, which is enqueued last, can   *)
(* be flushed at once with dependents of its own.                          *)
THEOREM PreprocMasterQueued ==
  ASSUME LastHandsOn
  PROVE  Spec => []MasterQueued
  <1>1. Init => MasterInv
    BY MasterInit
  <1>2. IInv /\ MasterInv /\ [Next]_vars => MasterInv'
    BY MasterNext
  <1>3. IInv /\ MasterInv => MasterQueued
    BY MasterQueuedHolds
  <1> QED BY <1>1, <1>2, <1>3, PreprocInvariant, PTL DEF Spec


------------------------------------------------------------------------------
(* The last priority request *)

LEMMA NodePlace ==
  ASSUME NEW Q \in Seq(Ids), NEW F \in Queues, NEW k \in 1..Len(Q)
  PROVE  <<k, 0>> \in Places(Q, F) /\ At(Q, F, <<k, 0>>) = Q[k]
  <1>1. Q[k] \in Ids
    BY ElementOfSeq, Zenon
  <1>2. Len(F[Q[k]]) \in Nat
    BY <1>1, LenProperties DEF Queues
  <1>3. 0 \in Nat /\ 0 <= Len(F[Q[k]])
    BY <1>2
  <1>4. <<k, 0>> \in Places(Q, F)
    BY <1>3, PlacesIn
  <1> QED BY <1>4 DEF At, Value

(* A value comes before a request if it is at an earlier node.             *)
LEMMA NodeBefore ==
  ASSUME NEW Q \in Seq(Ids), NEW F \in Queues, NEW k \in 1..Len(Q), NEW x
  PROVE  /\ Before(Q, F, x, Q[k]) => \A p \in Places(Q, F) : At(Q, F, p) = x => p[1] < k
         /\ Unique(Q, F) /\ (\A p \in Places(Q, F) : At(Q, F, p) = x => p[1] < k) => Before(Q, F, x, Q[k])
  <1>1. <<k, 0>> \in Places(Q, F) /\ At(Q, F, <<k, 0>>) = Q[k] /\ k \in Nat
    BY NodePlace
  <1>2. ASSUME Before(Q, F, x, Q[k]), NEW p \in Places(Q, F), At(Q, F, p) = x PROVE p[1] < k
    <2>1. Less(p, <<k, 0>>)
      BY <1>1, <1>2 DEF Before
    <2>2. p[2] \in Nat
      BY DEF Places
    <2> QED BY <2>1, <2>2 DEF Less
  <1>3. ASSUME Unique(Q, F), \A p \in Places(Q, F) : At(Q, F, p) = x => p[1] < k PROVE Before(Q, F, x, Q[k])
    <2>1. ASSUME NEW p \in Places(Q, F), NEW q \in Places(Q, F), At(Q, F, p) = x, At(Q, F, q) = Q[k] PROVE Less(p, q)
      <3>1. q = <<k, 0>>
        BY <1>1, <1>3, <2>1 DEF Unique
      <3>2. q[1] = k
        BY <3>1
      <3> QED BY <1>3, <2>1, <3>2 DEF Less
    <2> QED BY <2>1 DEF Before
  <1> QED BY <1>2, <1>3

(* The requests are in the order of the queue.                             *)
LEMMA NodesBefore ==
  ASSUME NEW Q \in Seq(Ids), NEW F \in Queues, Unique(Q, F), NEW j \in 1..Len(Q), NEW k \in 1..Len(Q)
  PROVE  Before(Q, F, Q[j], Q[k]) <=> j < k
  <1>1. <<j, 0>> \in Places(Q, F) /\ At(Q, F, <<j, 0>>) = Q[j] /\ j \in Nat /\ k \in Nat
    BY NodePlace
  <1>2. ASSUME Before(Q, F, Q[j], Q[k]) PROVE j < k
    <2>1. <<j, 0>>[1] < k
      BY <1>1, <1>2, NodeBefore
    <2> QED BY <2>1
  <1>3. ASSUME j < k PROVE Before(Q, F, Q[j], Q[k])
    <2>1. ASSUME NEW p \in Places(Q, F), At(Q, F, p) = Q[j] PROVE p[1] < k
      <3>1. p = <<j, 0>>
        BY <1>1, <2>1 DEF Unique
      <3> QED BY <1>3, <3>1
    <2> QED BY <2>1, NodeBefore
  <1> QED BY <1>2, <1>3

(* Coming before is transitive.                                            *)
LEMMA BeforeTransitive ==
  ASSUME NEW Q \in Seq(Ids), NEW F \in Queues, NEW x, NEW y, NEW z, Before(Q, F, x, y), Before(Q, F, y, z), In(Q, F, y)
  PROVE  Before(Q, F, x, z)
  <1>1. PICK q \in Places(Q, F) : At(Q, F, q) = y
    BY DEF In
  <1>2. ASSUME NEW p \in Places(Q, F), NEW r \in Places(Q, F), At(Q, F, p) = x, At(Q, F, r) = z PROVE Less(p, r)
    <2>1. Less(p, q) /\ Less(q, r)
      BY <1>1, <1>2 DEF Before
    <2>2. /\ p[1] \in Nat /\ p[2] \in Nat /\ q[1] \in Nat /\ q[2] \in Nat /\ r[1] \in Nat /\ r[2] \in Nat
      BY DEF Places
    <2> QED BY <2>1, <2>2 DEF Less
  <1> QED BY <1>2 DEF Before

(* Value x comes before every request behind request t.                    *)
TailLast(Q, F, t, x) == \A j, k \in 1..Len(Q) : Q[j] = t /\ j < k => Before(Q, F, x, Q[k])

(* A value that comes before every request behind request t is at t, or    *)
(* before.                                                                 *)
LEMMA TailBound ==
  ASSUME NEW Q \in Seq(Ids), NEW F \in Queues, NEW t, NEW x, TailLast(Q, F, t, x), NEW j \in 1..Len(Q), Q[j] = t,
         NEW p \in Places(Q, F), At(Q, F, p) = x
  PROVE  p[1] <= j
  <1>1. p[1] \in 1..Len(Q) /\ Len(Q) \in Nat
    BY DEF Places
  <1>2. CASE j = Len(Q)
    BY <1>1, <1>2
  <1>3. CASE j # Len(Q)
    <2> DEFINE k == j + 1
    <2>1. k \in 1..Len(Q) /\ j < k
      BY <1>1, <1>3
    <2>2. k = j + 1
      OBVIOUS
    <2> HIDE DEF k
    <2>3. Before(Q, F, x, Q[k])
      BY <2>1 DEF TailLast
    <2>4. p[1] < k
      BY <2>1, <2>3, NodeBefore
    <2> QED BY <1>1, <2>2, <2>4
  <1> QED BY <1>2, <1>3


(* A request id is put at position n, which is not before the last         *)
(* priority request for the value x.                                       *)
LEMMA TailKeep ==
  ASSUME NEW Q \in Seq(Ids), NEW F \in Queues, NEW G \in Queues, NEW n \in 1..(Len(Q) + 1), NEW id \in Ids,
         F[id] = <<>>, ~In(Q, F, id), \A y \in Ids : G[y] = F[y], Unique(Q, F),
         NEW t, NEW x, TailLast(Q, F, t, x), x # id, t # id
  PROVE  TailLast(InsertAt(Q, n, id), G, t, x)
  <1> DEFINE R == InsertAt(Q, n, id)
  <1>1. /\ Len(R) = Len(Q) + 1 /\ Len(Q) \in Nat
        /\ \A k \in 1..(Len(Q) + 1) : R[k] = IF k < n THEN Q[k] ELSE IF k = n THEN id ELSE Q[k - 1]
    BY InsertAtProperties, LenProperties
  <1>2. /\ \A y, z : y # id /\ z # id /\ Before(Q, F, y, z) => Before(R, G, y, z)
        /\ \A y : y # id /\ (\A p \in Places(Q, F) : At(Q, F, p) = y => p[1] < n) => Before(R, G, y, id)
    BY InsertPlaces
  <1>3. \A k \in 1..Len(Q) : Q[k] # id
    BY NodePlace DEF In
  <1> HIDE DEF R
  <1>4. ASSUME NEW j \in 1..Len(R), NEW k \in 1..Len(R), R[j] = t, j < k PROVE Before(R, G, x, R[k])
    <2> DEFINE a == IF j < n THEN j ELSE j - 1
               b == IF k < n THEN k ELSE k - 1
    <2>1. j # n /\ j \in 1..(Len(Q) + 1) /\ k \in 1..(Len(Q) + 1)
      BY <1>1, <1>4
    <2>2. a \in 1..Len(Q) /\ Q[a] = t
      BY <1>1, <1>4, <2>1
    <2>3. k # n => b \in 1..Len(Q) /\ Q[b] = R[k] /\ a < b
      BY <1>1, <1>4, <2>1
    <2>4. k = n => R[k] = id /\ a < n
      BY <1>1, <1>4, <2>1
    <2> HIDE DEF a, b
    <2>5. CASE k = n
      <3>1. ASSUME NEW p \in Places(Q, F), At(Q, F, p) = x PROVE p[1] < n
        <4>1. p[1] <= a
          BY <2>2, <3>1, TailBound
        <4>2. p[1] \in Nat
          BY DEF Places
        <4> QED BY <2>2, <2>4, <2>5, <4>1, <4>2
      <3> QED BY <1>2, <2>4, <2>5, <3>1
    <2>6. CASE k # n
      <3>1. Before(Q, F, x, Q[b])
        BY <2>2, <2>3, <2>6 DEF TailLast
      <3> QED BY <1>2, <1>3, <2>3, <2>6, <3>1
    <2> QED BY <2>5, <2>6
  <1>5. TailLast(R, G, t, x)
    BY <1>4 DEF TailLast
  <1> QED BY <1>5 DEF R

(* The request put at position n becomes the last priority request.        *)
LEMMA TailMoves ==
  ASSUME NEW Q \in Seq(Ids), NEW F \in Queues, NEW G \in Queues, NEW n \in 1..(Len(Q) + 1), NEW id \in Ids,
         F[id] = <<>>, ~In(Q, F, id), \A y \in Ids : G[y] = F[y], Unique(Q, F),
         NEW x, x = id \/ \A p \in Places(Q, F) : At(Q, F, p) = x => p[1] < n
  PROVE  TailLast(InsertAt(Q, n, id), G, id, x)
  <1> DEFINE R == InsertAt(Q, n, id)
  <1>1. R \in Seq(Ids) /\ n \in 1..Len(R) /\ R[n] = id
    <2>1. /\ R \in Seq(Ids) /\ Len(R) = Len(Q) + 1 /\ Len(Q) \in Nat
          /\ \A k \in 1..(Len(Q) + 1) : R[k] = IF k < n THEN Q[k] ELSE IF k = n THEN id ELSE Q[k - 1]
      BY InsertAtProperties, LenProperties
    <2> HIDE DEF R
    <2> QED BY <2>1
  <1>2. /\ Unique(R, G)
        /\ \A y : y # id /\ (\A p \in Places(Q, F) : At(Q, F, p) = y => p[1] < n) => Before(R, G, y, id)
    BY InsertPlaces
  <1> HIDE DEF R
  <1>3. In(R, G, id)
    BY <1>1, NodePlace DEF In
  <1>4. ASSUME NEW j \in 1..Len(R), NEW k \in 1..Len(R), R[j] = id, j < k PROVE Before(R, G, x, R[k])
    <2>1. Before(R, G, id, R[k])
      BY <1>1, <1>2, <1>4, NodesBefore
    <2>2. CASE x = id
      BY <2>1, <2>2
    <2>3. CASE x # id
      <3>1. Before(R, G, x, id)
        BY <1>2, <2>3
      <3> QED BY <1>1, <1>3, <2>1, <3>1, BeforeTransitive
    <2> QED BY <2>2, <2>3
  <1>5. TailLast(R, G, id, x)
    BY <1>4 DEF TailLast
  <1> QED BY <1>5 DEF R

(* The first request leaves.                                               *)
LEMMA TailShift ==
  ASSUME NEW Q \in Seq(Ids), Q # <<>>, NEW F, NEW G, NEW t, NEW x, TailLast(Q, F, t, x),
         \A y, z : Before(Q, F, y, z) => Before(Tail(Q), G, y, z)
  PROVE  TailLast(Tail(Q), G, t, x)
  <1>1. /\ Len(Q) \in Nat /\ Len(Tail(Q)) = Len(Q) - 1
        /\ \A k \in 1..(Len(Q) - 1) : Tail(Q)[k] = Q[k + 1]
    OBVIOUS
  <1>2. ASSUME NEW j \in 1..Len(Tail(Q)), NEW k \in 1..Len(Tail(Q)), Tail(Q)[j] = t, j < k
        PROVE  Before(Tail(Q), G, x, Tail(Q)[k])
    <2>1. j + 1 \in 1..Len(Q) /\ k + 1 \in 1..Len(Q) /\ j + 1 < k + 1 /\ Tail(Q)[j] = Q[j + 1] /\ Tail(Q)[k] = Q[k + 1]
      BY <1>1, <1>2
    <2>2. Before(Q, F, x, Q[k + 1])
      BY <1>2, <2>1 DEF TailLast
    <2> QED BY <2>1, <2>2
  <1> QED BY <1>2 DEF TailLast


(* No value that was collected has a master.                               *)
TopMasters(s) ==
    \A c \in CallRecord : In1(s, c) /\ c.op = "enqueue" /\ ItemOf(c.id) \in TopItems => c.master = None

(* The configuration of the internal items does not change.                *)
Stable == MaxConfigChanges = 0 \/ Internal = {}

(* They stay configured then.                                              *)
PresentInv ==
    Stable => \A i \in Internal : config[i].present /\ item_config[i].present

(* Every step keeps the internal items configured.                         *)
LEMMA PresentNext ==
  ASSUME TypeInv, PresentInv, [Next]_vars
  PROVE  PresentInv'
  <1> SUFFICES ASSUME Stable PROVE \A i \in Internal : config'[i].present /\ item_config'[i].present
    BY DEF PresentInv, Stable
  <1>1. \A i \in Internal : config[i].present /\ item_config[i].present
    BY DEF PresentInv
  <1>2. ASSUME NEW i \in Items, NEW present \in BOOLEAN, config_change(i, present)
        PROVE  item_config' = item_config /\ \A j \in Internal : config'[j] = config[j]
    <2>1. /\ config[i].ver < MaxConfigChanges
          /\ config' = [config EXCEPT ![i] = [present |-> present, ver |-> @.ver + 1]]
          /\ item_config' = item_config
      BY <1>2 DEF config_change
    <2>2. config \in [Items -> Config] /\ Internal \subseteq Items
      BY PreprocAssumption DEF TypeInv
    <2>3. i \notin Internal
      <3>1. CASE MaxConfigChanges = 0
        <4>1. config[i].ver \in 0..0
          BY <2>2, <3>1 DEF Config
        <4> QED BY <2>1, <3>1, <4>1
      <3> QED BY <2>1, <3>1 DEF Stable
    <2> QED BY <2>1, <2>2, <2>3
  <1>3. CASE UNCHANGED <<config, item_config>>
    BY <1>1, <1>3
  <1>4. ASSUME NEW batch, preprocessor_add_request(batch) PROVE config' = config /\ item_config' = config
    BY <1>4 DEF preprocessor_add_request, preprocessor_sync_configuration
  <1>5. CASE Calls
    BY <1>3, <1>5 DEF Calls, preprocessor_enqueue, enqueue_end, preproc_item_value_clear, preprocessor_enqueue_dependent,
       preprocessor_assign_tasks, preprocessing_flush_queue, result_end, flush_history
  <1>6. CASE Replies
    BY <1>3, <1>6 DEF Replies, preprocessor_register_worker, preprocessor_add_result, preprocessor_flush_test_result
  <1>7. CASE recv_timeout \/ (\E t \in Tests : preprocessor_add_test_request(t) \/ client_close(t))
             \/ (\E w \in Workers : Worker(w))
    BY <1>3, <1>7 DEF recv_timeout, preprocessor_add_test_request, client_close, Worker, worker_start,
       worker_preprocess_value, worker_test_value
  <1>8. CASE UNCHANGED vars
    BY <1>3, <1>8 DEF vars
  <1> QED BY <1>1, <1>2, <1>4, <1>5, <1>6, <1>7, <1>8 DEF Next

(* No call to enqueue a value is added.                                    *)
LEMMA TopMastersKept ==
  ASSUME TopMasters(todo), \A c \in CallRecord : c.op = "enqueue" /\ In1(todo', c) => In1(todo, c)
  PROVE  TopMasters(todo')
  BY DEF TopMasters

(* preprocessor_add_request: collected values have no master.              *)
LEMMA TopMastersRequest ==
  ASSUME IInv, NEW batch \in Batches, preprocessor_add_request(batch)
  PROVE  TopMasters(todo')
  <1> DEFINE n == Len(batch)
             e == [k \in 1..n |-> Enqueue(<<received + k, batch[k].item>>, None)]
             plain == <<Assign(1), Flush, FlushHistory>>
  <1>1. /\ received + Len(batch) <= MaxReceived /\ TypeInv
        /\ todo' = [k \in DOMAIN batch |-> Enqueue(<<received + k, batch[k].item>>, None)] \o plain
    BY DEF preprocessor_add_request, IInv
  <1>2. /\ n \in Nat /\ DOMAIN batch = 1..n
        /\ \A k \in 1..n : <<received + k, batch[k].item>> \in Ids
    BY <1>1, BatchProperties
  <1>3. todo' = e \o plain
    BY <1>1, <1>2
  <1>4. \A k \in 1..n : Enqueue(<<received + k, batch[k].item>>, None) \in CallRecord
    BY <1>2, CallsAreRecords
  <1>5. e \in Seq(CallRecord) /\ Len(e) = n /\ \A k \in 1..n : e[k] = Enqueue(<<received + k, batch[k].item>>, None)
    BY <1>2, <1>4
  <1> HIDE DEF n, e
  <1>6. \A k \in 1..n : e[k].master = None
    BY <1>5 DEF Enqueue
  <1>7. Plain(plain)
    BY PlainLists
  <1> HIDE DEF plain
  <1>8. plain \in Seq(CallRecord) /\ \A c : In1(plain, c) => c.op # "enqueue"
    BY <1>7 DEF Plain, In1
  <1>9. \A c : In1(e \o plain, c) <=> In1(e, c) \/ In1(plain, c)
    BY <1>5, <1>8, InConcat
  <1>10. \A c : In1(e, c) => c.master = None
    BY <1>5, <1>6 DEF In1
  <1> QED BY <1>3, <1>8, <1>9, <1>10 DEF TopMasters

(* preprocessor_enqueue_dependent: values of dependent items are never     *)
(* collected.                                                              *)
LEMMA TopMastersDerived ==
  ASSUME IInv, TopMasters(todo), NEW id, NEW s, DependentsDerived(id, s)
  PROVE  TopMasters(todo')
  <1>1. todo \in Seq(CallRecord) /\ todo # <<>> /\ CallInv(todo)
    BY DEF IInv, TypeInv, DependentsDerived, Calling
  <1>2. id \in Ids /\ Tail(todo) \in Seq(CallRecord)
    BY <1>1, DerivedList
  <1>3. PICK e \in Seq(CallRecord), n \in Nat :
          /\ Len(e) = n /\ todo' = (e \o <<Assign(1), Flush>>) \o Tail(todo)
          /\ \A k \in 1..n : /\ e[k] = Enqueue(<<id[1], Deps[ItemOf(id)][s[k]]>>, Head(todo).master)
                             /\ <<id[1], Deps[ItemOf(id)][s[k]]>> \in DerivedIds(id)
    <2>1. \E e \in Seq(CallRecord), n \in Nat :
               /\ Len(e) = n /\ todo' = (e \o <<Assign(1), Flush>>) \o Tail(todo)
               /\ \A k \in 1..n : /\ s[k] \in dep_itemids(ItemOf(id)) /\ s[k] \in Nat \ {0}
                                  /\ e[k] = Enqueue(<<id[1], Deps[ItemOf(id)][s[k]]>>, Head(todo).master)
                                  /\ <<id[1], Deps[ItemOf(id)][s[k]]>> \in DerivedIds(id)
               /\ \A j, k \in 1..n : j < k => s[j] > s[k]
      BY <1>1, DerivedList
    <2> QED BY <2>1
  <1>4. DerivedIds(id) \subseteq Children(id)
    BY <1>1, DerivedCalls
  <1>5. ASSUME NEW k \in 1..Len(e) PROVE ItemOf(e[k].id) \notin TopItems
    <2> DEFINE x == <<id[1], Deps[ItemOf(id)][s[k]]>>
    <2>0. e[k] = Enqueue(x, Head(todo).master) /\ x \in DerivedIds(id)
      BY <1>3, <1>5
    <2> HIDE DEF x
    <2>1. e[k].id \in DerivedIds(id)
      BY <2>0 DEF Enqueue
    <2> QED BY <1>2, <1>4, <2>1, ChildFacts
  <1> DEFINE plain == <<Assign(1), Flush>>
  <1>6. Plain(plain)
    BY PlainLists
  <1> HIDE DEF plain
  <1>7. plain \in Seq(CallRecord) /\ \A c : In1(plain, c) => c.op # "enqueue"
    BY <1>6 DEF Plain, In1
  <1>8. e \o plain \in Seq(CallRecord) /\ \A c : In1(e \o plain, c) <=> In1(e, c) \/ In1(plain, c)
    BY <1>3, <1>7, InConcat, ConcatCalls
  <1>9. \A c : In1((e \o plain) \o Tail(todo), c) <=> In1(e \o plain, c) \/ In1(Tail(todo), c)
    BY <1>2, <1>8, InConcat
  <1>10. \A c : In1(Tail(todo), c) => In1(todo, c)
    BY <1>1, TailIn
  <1>11. \A c : In1(e, c) => ItemOf(c.id) \notin TopItems
    BY <1>5 DEF In1
  <1>12. todo' = (e \o plain) \o Tail(todo)
    BY <1>3 DEF plain
  <1> QED BY <1>7, <1>8, <1>9, <1>10, <1>11, <1>12 DEF TopMasters

(* Every step keeps collected values without a master.                     *)
LEMMA TopMastersNext ==
  ASSUME IInv, TopMasters(todo), [Next]_vars
  PROVE  TopMasters(todo')
  <1>0. todo \in Seq(CallRecord)
    BY DEF IInv, TypeInv
  <1>1. CASE KeepCalls(todo, todo')
    BY <1>1, TopMastersKept DEF KeepCalls
  <1>2. CASE QuietStep
    BY <1>1, <1>2, QuietSteps DEF Quiet
  <1>3. CASE preproc_item_value_clear
    <2>1. todo # <<>> /\ todo' = Tail(todo)
      BY <1>3 DEF preproc_item_value_clear, Calling, Return
    <2>2. \A c : In1(todo', c) => In1(todo, c)
      BY <1>0, <2>1, TailIn
    <2> QED BY <2>2, TopMastersKept
  <1>4. ASSUME NEW id, EnqueueNow(id) PROVE TopMasters(todo')
    <2>1. todo # <<>> /\ \A c \in CallRecord : c.op = "enqueue" => (In1(todo', c) <=> In1(Tail(todo), c))
      BY <1>4, EnqueueNowCallsKept
    <2>2. \A c : In1(Tail(todo), c) => In1(todo, c)
      BY <1>0, <2>1, TailIn
    <2> QED BY <2>1, <2>2, TopMastersKept
  <1>5. ASSUME NEW id, NEW master, NEW done, NEW r, EnqueueQueued(id, master, done, r) PROVE TopMasters(todo')
    <2>0. todo # <<>>
      BY <1>5 DEF EnqueueQueued, Calling
    <2>1. KeepCalls(Tail(todo), todo')
      BY <1>5, EnqueueQueuedCallsKept
    <2>2. \A c : In1(Tail(todo), c) => In1(todo, c)
      BY <1>0, <2>0, TailIn
    <2> QED BY <2>0, <2>1, <2>2, TopMastersKept DEF KeepCalls
  <1>6. ASSUME NEW k, NEW id, AssignUnsupported(k, id) PROVE TopMasters(todo')
    BY <1>0, <1>1, <1>6, AssignUnsupportedCalls
  <1>7. ASSUME NEW w, NEW id, AssignValue(w, id) PROVE TopMasters(todo')
    BY <1>0, <1>1, <1>7, AssignValueCalls
  <1>8. ASSUME NEW ids, FlushFirst(ids) PROVE TopMasters(todo')
    BY <1>8 DEF FlushFirst
  <1>9. ASSUME NEW w \in Workers, preprocessor_add_result(w) PROVE TopMasters(todo')
    BY <1>1, <1>9, AddResultCalls
  <1>10. CASE UNCHANGED vars
    BY <1>10 DEF vars
  <1>11. CASE Next
    BY <1>2, <1>3, <1>4, <1>5, <1>6, <1>7, <1>8, <1>9, <1>11, NextCases, TopMastersDerived, TopMastersRequest
  <1> QED BY <1>10, <1>11


(* priority_tail is in the queue, and no value of an internal item, or     *)
(* request, is behind it.                                                  *)
TailInv ==
    /\ priority_tail # None => In1(queue, priority_tail)
    /\ Stable =>
          \A x \in Held(req) : ItemOf(x) \in Internal =>
              priority_tail # None /\ TailLast(queue, FlushQueues(req), priority_tail, x)

(* Steps that move no value.                                               *)
LEMMA TailSame ==
  ASSUME TailInv, UNCHANGED <<queue, priority_tail>>,
         \A x \in Ids : req'[x].flush = req[x].flush /\ (x \in Held(req') <=> x \in Held(req))
  PROVE  TailInv'
  <1>1. FlushQueues(req') = FlushQueues(req)
    BY FlushQueuesSame
  <1>2. \A x : x \in Held(req') => x \in Held(req)
    BY DEF Held
  <1> QED BY <1>1, <1>2 DEF TailInv

(* Where the values are, and which requests are in the queue.              *)
LEMMA HeldPlaces ==
  ASSUME TypeInv, QueueInv(queue, req)
  PROVE  /\ queue \in Seq(Ids) /\ FlushQueues(req) \in Queues /\ Unique(queue, FlushQueues(req))
         /\ \A x \in Ids : x \in Held(req) <=> In(queue, FlushQueues(req), x)
         /\ \A y : In1(queue, y) => y \in Ids /\ y \in Held(req)
         /\ \A p \in Places(queue, FlushQueues(req)) : p[1] \in 1..Len(queue) /\ At(queue, FlushQueues(req), p) \in Ids
         /\ Len(queue) \in Nat
  <1>1. queue \in Seq(Ids) /\ req \in [Ids -> Request]
    BY DEF TypeInv
  <1>2. FlushQueues(req) \in Queues
    BY <1>1, FlushQueuesType
  <1>3. Unique(queue, FlushQueues(req)) /\ \A x \in Ids : x \in Held(req) <=> In(queue, FlushQueues(req), x)
    BY DEF QueueInv
  <1>4. \A y : In1(queue, y) => y \in Ids /\ y \in Held(req)
    BY NodeFacts DEF In1
  <1>5. \A p \in Places(queue, FlushQueues(req)) : p[1] \in 1..Len(queue) /\ At(queue, FlushQueues(req), p) \in Ids
    BY <1>1, <1>2, PlacesType
  <1> QED BY <1>1, <1>2, <1>3, <1>4, <1>5, LenProperties

(* The position where a request is put is behind the values of internal    *)
(* items, if its item is one, or if its master is the last priority one.   *)
LEMMA PriorityPosition ==
  ASSUME IInv, TailInv, Stable, NEW n, priority_tail # None => n = Index(priority_tail) + 1,
         NEW x \in Held(req), ItemOf(x) \in Internal
  PROVE  \A p \in Places(queue, FlushQueues(req)) : At(queue, FlushQueues(req), p) = x => p[1] < n
  <1> DEFINE F == FlushQueues(req)
             j == Index(priority_tail)
  <1>1. TypeInv /\ QueueInv(queue, req)
    BY DEF IInv
  <1>2. /\ queue \in Seq(Ids) /\ F \in Queues
        /\ \A p \in Places(queue, F) : p[1] \in 1..Len(queue)
    BY <1>1, HeldPlaces
  <1>3. priority_tail # None /\ TailLast(queue, F, priority_tail, x) /\ In1(queue, priority_tail)
    BY DEF TailInv
  <1>4. j \in 1..Len(queue) /\ queue[j] = priority_tail
    BY <1>2, <1>3, IndexProperties
  <1>5. n = j + 1
    BY <1>3
  <1> HIDE DEF j, F
  <1>6. ASSUME NEW p \in Places(queue, F), At(queue, F, p) = x PROVE p[1] < n
    <2>1. p[1] <= j
      BY <1>2, <1>3, <1>4, <1>6, TailBound
    <2> QED BY <1>2, <1>4, <1>5, <2>1
  <1> QED BY <1>6 DEF F

(* What the fields of a queued request are, and where it is put.           *)
LEMMA QueuedPosition ==
  ASSUME IInv, NEW id, NEW master, NEW done, NEW r, EnqueueQueued(id, master, done, r)
  PROVE  /\ id \in Ids /\ id \in CallsIn(todo, "enqueue") /\ Head(todo) = Enqueue(id, master) /\ In1(todo, Head(todo))
         /\ InsertPosition(id, master) \in 1..(Len(queue) + 1)
         /\ queue' = InsertAt(queue, InsertPosition(id, master), id)
         /\ priority_tail' = IF Priority(id, master) \/ (master # None /\ master = priority_tail)
                             THEN id ELSE priority_tail
         /\ FlushQueues(req)[id] = <<>> /\ ~In(queue, FlushQueues(req), id)
         /\ FlushQueues(req') = FlushQueues(req)
         /\ \A x : x \in Held(req') <=> x \in Held(req) \/ x = id
  <1>1. TypeInv /\ QueueInv(queue, req) /\ queue \in Seq(Ids) /\ todo \in Seq(CallRecord)
    BY DEF IInv, TypeInv
  <1>2. /\ Calling("enqueue") /\ id = Head(todo).id /\ queue' = Inserted(id, master) /\ todo # <<>>
        /\ priority_tail' = IF Priority(id, master) \/ (master # None /\ master = priority_tail)
                            THEN id ELSE priority_tail
    BY DEF EnqueueQueued, Calling
  <1>3. id \in Ids /\ id \notin Held(req) /\ req[id].flush = <<>>
    BY <1>2, EnqueueFacts
  <1>4. id \in CallsIn(todo, "enqueue") /\ Head(todo) = Enqueue(id, master)
    BY EnqueueQueuedCallsKept
  <1>5. In1(todo, Head(todo))
    BY <1>1, <1>2, TailIn
  <1>6. /\ InsertPosition(id, master) \in 1..(Len(queue) + 1)
        /\ queue' = InsertAt(queue, InsertPosition(id, master), id)
    BY <1>1, <1>2, <1>3, InsertedPosition
  <1>7. FlushQueues(req)[id] = <<>> /\ ~In(queue, FlushQueues(req), id)
    BY <1>1, <1>3, HeldPlaces DEF FlushQueues
  <1>8. \A x \in Ids : /\ x # id => req'[x].state = req[x].state
                       /\ req'[id].state \in {"DONE", "PENDING", "QUEUED"}
                       /\ req'[x].flush = req[x].flush
    BY <1>3, QueuedFields
  <1>9. FlushQueues(req') = FlushQueues(req)
    BY <1>8, FlushQueuesSame
  <1>10. \A x : x \in Held(req') <=> x \in Held(req) \/ x = id
    BY <1>3, <1>8 DEF Held
  <1> QED BY <1>2, <1>3, <1>4, <1>5, <1>6, <1>7, <1>9, <1>10


(* preprocessor_enqueue: a request with priority, or behind the last       *)
(* priority request, becomes the last one; another is put elsewhere.       *)
LEMMA TailEnqueueQueued ==
  ASSUME IInv, TailInv, PresentInv, TopMasters(todo), NEW id, NEW master, NEW done, NEW r,
         EnqueueQueued(id, master, done, r)
  PROVE  TailInv'
  <1> DEFINE F == FlushQueues(req)
             n == InsertPosition(id, master)
             t == priority_tail
  <1>1. TypeInv /\ QueueInv(queue, req) /\ todo \in Seq(CallRecord)
    BY DEF IInv, TypeInv
  <1>2. /\ queue \in Seq(Ids) /\ F \in Queues /\ Unique(queue, F)
        /\ \A y : In1(queue, y) => y \in Held(req)
    BY <1>1, HeldPlaces
  <1>3. /\ id \in Ids /\ id \in CallsIn(todo, "enqueue") /\ Head(todo) = Enqueue(id, master) /\ In1(todo, Head(todo))
        /\ n \in 1..(Len(queue) + 1)
        /\ queue' = InsertAt(queue, n, id)
        /\ priority_tail' = IF Priority(id, master) \/ (master # None /\ master = t) THEN id ELSE t
        /\ F[id] = <<>> /\ ~In(queue, F, id)
        /\ FlushQueues(req') = F
        /\ \A x : x \in Held(req') <=> x \in Held(req) \/ x = id
    BY QueuedPosition
  <1>4. \A y : In1(queue', y) <=> In1(queue, y) \/ y = id
    BY <1>2, <1>3, InsertIn
  <1>5. id \notin Held(req)
    BY <1>1, <1>3, HeldPlaces
  <1>6. t # None => t # id
    BY <1>2, <1>5 DEF TailInv
  <1>7. master # None => ItemOf(id) \notin TopItems
    <2> DEFINE c == Head(todo)
    <2>1. c \in CallRecord /\ c.op = "enqueue" /\ c.id = id /\ c.master = master
      <3>1. todo # <<>>
        BY DEF EnqueueQueued, Calling
      <3>2. c \in CallRecord
        BY <1>1, <3>1, CallTypes
      <3> QED BY <1>3, <3>2 DEF Enqueue
    <2> HIDE DEF c
    <2> QED BY <1>3, <2>1 DEF TopMasters, c
  <1>8. priority_tail' # None => In1(queue', priority_tail')
    BY <1>3, <1>4 DEF TailInv
  <1>9. Internal \subseteq TopItems /\ TopItems \subseteq Items
    BY PreprocAssumption
  <1>10. ASSUME Stable, NEW x \in Held(req'), ItemOf(x) \in Internal
         PROVE  priority_tail' # None /\ TailLast(queue', F, priority_tail', x)
    <2>0. id # None
      BY <1>3, IdTypes
    <2>1. CASE Priority(id, master) \/ (master # None /\ master = t)
      <3>1. priority_tail' = id
        BY <1>3, <2>1
      <3>2. t # None => n = Index(t) + 1
        BY <2>1 DEF InsertPosition
      <3>3. x = id \/ \A p \in Places(queue, F) : At(queue, F, p) = x => p[1] < n
        BY <1>3, <1>10, <3>2, PriorityPosition
      <3> HIDE DEF F, n
      <3>4. TailLast(InsertAt(queue, n, id), F, id, x)
        BY <1>2, <1>3, <3>3, TailMoves
      <3> QED BY <1>3, <2>0, <3>1, <3>4
    <2>2. CASE ~(Priority(id, master) \/ (master # None /\ master = t))
      <3>1. priority_tail' = t
        BY <1>3, <2>2
      <3>2. x # id
        <4>1. SUFFICES ASSUME x = id PROVE FALSE
          OBVIOUS
        <4>2. master = None /\ item_config[ItemOf(id)].present
          BY <1>7, <1>9, <1>10, <4>1 DEF PresentInv
        <4> QED BY <1>10, <2>2, <4>1, <4>2 DEF Priority
      <3>3. t # None /\ TailLast(queue, F, t, x)
        BY <1>3, <1>10, <3>2 DEF TailInv
      <3> HIDE DEF F, n
      <3>4. TailLast(InsertAt(queue, n, id), F, t, x)
        BY <1>2, <1>3, <1>6, <3>2, <3>3, TailKeep
      <3> QED BY <1>3, <3>1, <3>3, <3>4
    <2> QED BY <2>1, <2>2
  <1> QED BY <1>3, <1>8, <1>10 DEF TailInv

(* preprocessing_flush_queue: the last priority request is forgotten with  *)
(* its node, and then no value of an internal item is left.                *)
LEMMA TailFlush ==
  ASSUME IInv, TailInv, NEW ids, FlushFirst(ids)
  PROVE  TailInv'
  <1> DEFINE F == FlushQueues(req)
             G == FlushQueues(req')
             t == priority_tail
  <1>1. TypeInv /\ QueueInv(queue, req) /\ req \in [Ids -> Request]
    BY DEF IInv, TypeInv
  <1>2. /\ queue \in Seq(Ids) /\ F \in Queues
        /\ \A p \in Places(queue, F) : p[1] \in 1..Len(queue)
    BY <1>1, HeldPlaces
  <1>3. /\ queue # <<>> /\ queue' = Tail(queue)
        /\ priority_tail' = IF t = Head(queue) THEN None ELSE t
    BY DEF FlushFirst
  <1>4. /\ req' \in [Ids -> Request]
        /\ \A x : x \in FlushedIds => x \in Held(req) /\ x \in Ids /\ x \notin Unfinished(req)
        /\ Head(queue) \in FlushedIds
        /\ \A x \in Ids : /\ req'[x].state = IF x \in FlushedIds THEN "FREE" ELSE req[x].state
                          /\ req'[x].flush = req[x].flush
    BY FlushFields
  <1>5. \A x \in Ids : x \in Held(req') <=> x \in Held(req) /\ x \notin FlushedIds
    BY <1>4 DEF Held
  <1>6. /\ \A y : In1(queue, y) <=> y = Head(queue) \/ In1(Tail(queue), y)
        /\ \A x, y : Before(queue, F, x, y) => Before(Tail(queue), G, x, y)
    <2>1. \A x \in Ids : x \in Held(req') <=> x \in Held(req) /\ x \notin FirstNode(queue, FlushQueues(req))
      BY <1>5 DEF FlushedIds
    <2>2. \A y \in Unfinished(req') : y \in Unfinished(req) /\ y # Head(queue)
      BY <1>4 DEF Unfinished
    <2>3. \A x \in Ids : req'[x].flush = req[x].flush
      BY <1>4
    <2> QED BY <1>1, <1>2, <1>3, <1>4, <2>1, <2>2, <2>3, QueueTail
  <1>7. priority_tail' # None => In1(queue', priority_tail')
    BY <1>3, <1>6 DEF TailInv
  <1>8. ASSUME Stable, NEW x \in Held(req'), ItemOf(x) \in Internal
        PROVE  priority_tail' # None /\ TailLast(queue', G, priority_tail', x)
    <2>1. x \in Ids /\ x \in Held(req) /\ x \notin FlushedIds
      BY <1>5, <1>8 DEF Held
    <2>2. t # None /\ TailLast(queue, F, t, x)
      BY <1>8, <2>1 DEF TailInv
    <2>3. t # Head(queue)
      <3>1. SUFFICES ASSUME t = Head(queue) PROVE x \in FirstNode(queue, F)
        BY <2>1 DEF FlushedIds
      <3>2. 1 \in 1..Len(queue) /\ queue[1] = t
        BY <1>2, <1>3, <3>1
      <3>3. PICK p \in Places(queue, F) : At(queue, F, p) = x
        BY <1>1, <2>1, HeldPlaces DEF In
      <3>4. p[1] <= 1
        <4> HIDE DEF F, t
        <4> QED BY <1>2, <2>2, <3>2, <3>3, TailBound
      <3>5. p[1] = 1
        BY <1>2, <3>4
      <3>6. p[2] \in 0..Len(F[queue[1]])
        <4> HIDE DEF F
        <4> QED BY <1>2, <3>5, PlacesType
      <3> QED BY <3>3, <3>5, <3>6 DEF At, FirstNode
    <2>4. TailLast(Tail(queue), G, t, x)
      <3> HIDE DEF F, G, t
      <3> QED BY <1>2, <1>3, <1>6, <2>2, TailShift
    <2> QED BY <1>3, <2>2, <2>3, <2>4
  <1> QED BY <1>7, <1>8 DEF TailInv


(* What preprocessor_set_request_state_done does to the order of the queue *)
(* for request id.                                                         *)
DoneMoves(id) ==
    /\ id \in Ids /\ In1(queue, id)
    /\ queue' = IF id = Head(queue) THEN queue ELSE RemoveAt(queue, Index(id))
    /\ priority_tail' = MovePriorityTail(id)
    /\ queue' \in Seq(Ids) /\ req' \in [Ids -> Request] /\ QueueInv(queue', req')
    /\ In1(queue', NewPosition(id))
    /\ \A y : y # id /\ In1(queue, y) => In1(queue', y)
    /\ \A x \in Ids : x \in Held(req') <=> x \in Held(req)
    /\ \A x, y : Before(queue, FlushQueues(req), x, y) => Before(queue', FlushQueues(req'), x, y)

(* preprocessor_set_request_state_done keeps the values in their order,    *)
(* and the node that takes the value is in the queue.                      *)
LEMMA DoneMovesStep ==
  ASSUME IInv, NEW id \in Ids, req[id].state \in {"QUEUED", "PROCESSING"}, NEW r \in [Ids -> Request],
         \A x \in Ids : r[x].state = req[x].state /\ r[x].flush = req[x].flush /\ r[x].pending = req[x].pending,
         preprocessor_set_request_state_done(id, r)
  PROVE  DoneMoves(id)
  <1>1. TypeInv /\ QueueInv(queue, req) /\ ChainInv(req, linked_items, todo)
    BY DEF IInv
  <1>2. id \in Unfinished(req) /\ req[id].state # "PENDING"
    BY DEF Unfinished
  <1>3. \A x \in CallsIn(todo, "enqueue") : ItemOf(x) \in TopItems => x \in CallsIn(todo, "enqueue")
    OBVIOUS
  <1>4. DoneEffect(id, r, todo)
    BY <1>1, <1>2, <1>3, DoneStep
  <1>5. /\ queue' = IF id = Head(queue) THEN queue ELSE RemoveAt(queue, Index(id))
        /\ priority_tail' = MovePriorityTail(id)
    BY DEF preprocessor_set_request_state_done
  <1> QED BY <1>4, <1>5 DEF DoneEffect, DoneMoves

(* preprocessor_assign_tasks, a not supported value.                       *)
LEMMA UnsupportedMoves ==
  ASSUME IInv, NEW k, NEW id, AssignUnsupported(k, id)
  PROVE  DoneMoves(id) /\ flushed' = flushed
  <1>1. id \in Ids /\ req[id].state = "QUEUED" /\ preprocessor_set_request_state_done(id, req) /\ flushed' = flushed
    BY DEF AssignUnsupported, ovars
  <1>2. req \in [Ids -> Request]
    BY DEF IInv, TypeInv
  <1> QED BY <1>1, <1>2, DoneMovesStep

(* preprocessor_set_variant_result leaves the states, the links and the    *)
(* flush queues alone.                                                     *)
LEMMA VariantKept ==
  ASSUME NEW id \in Ids, NEW outcome \in {"value", "none", "error"}, req \in [Ids -> Request],
         refcount \in [Results -> Int]
  PROVE  /\ SetVariantResult(id, outcome, req, refcount).req \in [Ids -> Request]
         /\ \A x \in Ids : /\ SetVariantResult(id, outcome, req, refcount).req[x].state = req[x].state
                           /\ SetVariantResult(id, outcome, req, refcount).req[x].flush = req[x].flush
                           /\ SetVariantResult(id, outcome, req, refcount).req[x].pending = req[x].pending
  <1>1. <<id, "made">> \in Results
    BY IdTypes
  <1>2. CASE outcome = "error"
    <2> DEFINE u == [req EXCEPT ![id].supported = FALSE]
    <2>1. SetVariantResult(id, outcome, req, refcount).req = u
      BY <1>2 DEF SetVariantResult
    <2>2. \A x \in Ids : u[x] = IF x = id THEN [req[x] EXCEPT !.supported = FALSE] ELSE req[x]
      OBVIOUS
    <2>3. u = [x \in Ids |-> u[x]]
      OBVIOUS
    <2> HIDE DEF u
    <2>4. ASSUME NEW x \in Ids
          PROVE  u[x] \in Request /\ u[x].state = req[x].state /\ u[x].flush = req[x].flush /\ u[x].pending = req[x].pending
      BY <2>2 DEF Request
    <2> QED BY <2>1, <2>3, <2>4
  <1>3. CASE outcome # "error"
    <2> DEFINE u == [req EXCEPT ![id].isset = (outcome = "value"), ![id].res = <<id, "made">>]
    <2>1. SetVariantResult(id, outcome, req, refcount).req = u
      BY <1>3 DEF SetVariantResult
    <2>2. \A x \in Ids : u[x] = IF x = id THEN [req[x] EXCEPT !.isset = (outcome = "value"), !.res = <<id, "made">>] ELSE req[x]
      OBVIOUS
    <2>3. u = [x \in Ids |-> u[x]]
      OBVIOUS
    <2> HIDE DEF u
    <2>4. ASSUME NEW x \in Ids
          PROVE  u[x] \in Request /\ u[x].state = req[x].state /\ u[x].flush = req[x].flush /\ u[x].pending = req[x].pending
      <3>1. req[x] \in Request
        OBVIOUS
      <3>2. u[x] = req[x] \/ u[x] = [req[x] EXCEPT !.isset = (outcome = "value"), !.res = <<id, "made">>]
        BY <2>2
      <3>3. (outcome = "value") \in BOOLEAN
        OBVIOUS
      <3> QED BY ONLY <1>1, <3>1, <3>2, <3>3 DEF Request
    <2> QED BY <2>1, <2>3, <2>4
  <1> QED BY <1>2, <1>3

(* preprocessor_add_result.                                                *)
LEMMA ResultMoves ==
  ASSUME IInv, NEW w \in Workers, preprocessor_add_result(w)
  PROVE  DoneMoves(task[w]) /\ flushed' = flushed
  <1>1. /\ ResultOf(w) \in {"value", "none", "error"} /\ task[w] \in Ids /\ req[task[w]].state = "PROCESSING"
        /\ req \in [Ids -> Request] /\ refcount \in [Results -> Int]
    BY AddResultReply
  <1>2. preprocessor_set_request_state_done(task[w], SetVariantResult(task[w], ResultOf(w), req, refcount).req)
        /\ flushed' = flushed
    BY DEF preprocessor_add_result, ovars, ResultOf
  <1>3. ASSUME NEW id \in Ids, id = task[w], NEW o \in {"value", "none", "error"}, o = ResultOf(w)
        PROVE  DoneMoves(id)
    <2> DEFINE v == SetVariantResult(id, o, req, refcount)
               r == v.req
    <2>1. /\ r \in [Ids -> Request]
          /\ \A x \in Ids : r[x].state = req[x].state /\ r[x].flush = req[x].flush /\ r[x].pending = req[x].pending
      BY <1>1, VariantKept
    <2>2. preprocessor_set_request_state_done(id, r) /\ req[id].state \in {"QUEUED", "PROCESSING"}
      BY <1>1, <1>2, <1>3
    <2> HIDE DEF r
    <2> QED BY <2>1, <2>2, DoneMovesStep
  <1> QED BY <1>1, <1>2, <1>3

(* The requests left in the queue.                                         *)
LEMMA DoneNodes ==
  ASSUME TypeInv, QueueInv(queue, req), NEW id, DoneMoves(id)
  PROVE  /\ \A y : In1(queue', y) => In1(queue, y) /\ (id # Head(queue) => y # id)
         /\ id # Head(queue) => /\ Index(id) \in 1..Len(queue) /\ queue[Index(id)] = id
                                /\ Index(id) - 1 \in 1..Len(queue) /\ NewPosition(id) = queue[Index(id) - 1]
  <1>1. queue \in Seq(Ids) /\ Len(queue) \in Nat /\ In1(queue, id)
    BY DEF TypeInv, DoneMoves
  <1> DEFINE n == Index(id)
  <1>2. n \in 1..Len(queue) /\ queue[n] = id /\ Head(queue) = queue[1]
    <2>1. queue # <<>>
      BY <1>1 DEF In1
    <2>2. Head(queue) = queue[1]
      BY <1>1, <2>1
    <2> QED BY <1>1, <2>2, IndexProperties
  <1>3. CASE id = Head(queue)
    BY <1>3 DEF DoneMoves
  <1>4. CASE id # Head(queue)
    <2>1. queue' = RemoveAt(queue, n)
      BY <1>4 DEF DoneMoves
    <2>2. n - 1 \in 1..Len(queue)
      BY <1>1, <1>2, <1>4
    <2>3. NewPosition(id) = queue[n - 1]
      BY <1>4 DEF NewPosition
    <2> HIDE DEF n
    <2>4. /\ Len(queue') = Len(queue) - 1
          /\ \A k \in 1..(Len(queue) - 1) : queue'[k] = IF k < n THEN queue[k] ELSE queue[k + 1]
      BY <1>1, <1>2, <2>1, RemoveAtProperties
    <2>5. \A j, k \in 1..Len(queue) : queue[j] = queue[k] => j = k
      BY NodeFacts
    <2>6. ASSUME NEW k \in 1..Len(queue') PROVE In1(queue, queue'[k]) /\ queue'[k] # id
      <3>1. CASE k < n
        <4>1. k \in 1..Len(queue) /\ queue'[k] = queue[k] /\ k # n
          BY <1>1, <1>2, <2>4, <3>1
        <4> QED BY <1>2, <2>5, <4>1 DEF In1
      <3>2. CASE ~(k < n)
        <4>1. k + 1 \in 1..Len(queue) /\ queue'[k] = queue[k + 1] /\ k + 1 # n
          BY <1>1, <1>2, <2>4, <3>2
        <4> QED BY <1>2, <2>5, <4>1 DEF In1
      <3> QED BY <3>1, <3>2
    <2> QED BY <1>2, <2>2, <2>3, <2>6 DEF In1, n
  <1> QED BY <1>3, <1>4

(* The node before a value that is done takes over as the last priority    *)
(* request.                                                                *)
LEMMA TailDone ==
  ASSUME IInv, TailInv, NEW id, DoneMoves(id)
  PROVE  TailInv'
  <1> DEFINE F == FlushQueues(req)
             G == FlushQueues(req')
             t == priority_tail
             u == priority_tail'
             Q == queue'
  <1>1. TypeInv /\ QueueInv(queue, req)
    BY DEF IInv
  <1>2. queue \in Seq(Ids) /\ F \in Queues /\ Unique(queue, F)
    BY <1>1, HeldPlaces
  <1>3. Q \in Seq(Ids) /\ G \in Queues /\ Unique(Q, G)
    BY FlushQueuesType DEF DoneMoves, QueueInv
  <1>4. /\ u = IF t = id THEN NewPosition(id) ELSE t
        /\ In1(Q, NewPosition(id))
        /\ \A y : y # id /\ In1(queue, y) => In1(Q, y)
        /\ \A x, y : Before(queue, F, x, y) => Before(Q, G, x, y)
        /\ \A x : x \in Held(req') => x \in Held(req)
    BY DEF DoneMoves, MovePriorityTail, Held
  <1>5. u # None => In1(Q, u)
    BY <1>4 DEF TailInv
  <1>6. /\ \A y : In1(Q, y) => In1(queue, y) /\ (id # Head(queue) => y # id)
        /\ id # Head(queue) => /\ Index(id) \in 1..Len(queue) /\ queue[Index(id)] = id
                               /\ Index(id) - 1 \in 1..Len(queue) /\ NewPosition(id) = queue[Index(id) - 1]
    BY <1>1, DoneNodes
  <1>7. id = Head(queue) => NewPosition(id) = id
    BY DEF NewPosition
  <1>8. id \in Ids /\ t \in Ids \cup {None}
    BY <1>1 DEF DoneMoves, TypeInv
  <1>9. ASSUME t # None, NEW x, TailLast(queue, F, t, x) PROVE u # None /\ TailLast(Q, G, u, x)
    <2>1. u # None
      <3>1. NewPosition(id) \in Ids
        <4>1. PICK k \in 1..Len(Q) : Q[k] = NewPosition(id)
          BY <1>4 DEF In1
        <4> HIDE DEF Q
        <4>2. Q[k] \in Ids
          BY <1>3
        <4> QED BY <4>1, <4>2
      <3> QED BY <1>4, <1>9, <3>1, IdTypes
    <2>2. In1(queue, t)
      BY <1>9 DEF TailInv
    <2>3. PICK a \in 1..Len(queue) : queue[a] = t
      BY <2>2 DEF In1
    <2> HIDE DEF F, G, Q, t, u
    <2>4. ASSUME NEW j \in 1..Len(Q), NEW k \in 1..Len(Q), Q[j] = u, j < k PROVE Before(Q, G, x, Q[k])
      <3> DEFINE y == Q[k]
      <3>1. In1(Q, y)
        BY DEF In1
      <3>2. ~Before(Q, G, y, u) /\ y # u
        <4>1. ~(k < j) /\ ~(k < k)
          BY <2>4
        <4>2. Before(Q, G, Q[j], Q[k]) /\ ~Before(Q, G, Q[k], Q[j]) /\ ~Before(Q, G, Q[k], Q[k])
          BY <1>3, <2>4, <4>1, NodesBefore
        <4> QED BY <2>4, <4>2
      <3>3. PICK b \in 1..Len(queue) : queue[b] = y
        BY <1>6, <3>1 DEF In1
      <3> HIDE DEF y
      <3>4. \A c \in 1..Len(queue) : queue[c] = u => c < b
        <4>1. ASSUME NEW c \in 1..Len(queue), queue[c] = u PROVE c < b
          <5>1. c # b
            BY <3>2, <3>3, <4>1
          <5>2. ~(b < c)
            BY <1>2, <1>4, <3>2, <3>3, <4>1, NodesBefore
          <5> QED BY <5>1, <5>2
        <4> QED BY <4>1
      <3>5. a < b
        <4>1. CASE u = t
          BY <2>3, <3>4, <4>1
        <4>2. CASE u # t
          <5>1. t = id /\ id # Head(queue) /\ u = NewPosition(id)
            BY <1>4, <1>7, <4>2
          <5> DEFINE n == Index(id)
          <5>2. n \in 1..Len(queue) /\ queue[n] = id /\ n - 1 \in 1..Len(queue) /\ queue[n - 1] = u
            BY <1>6, <5>1
          <5> HIDE DEF n
          <5>3. a = n
            BY <1>1, <2>3, <5>1, <5>2, NodeFacts
          <5>4. b # n
            <6>1. y # id
              BY <1>6, <3>1, <5>1
            <6> QED BY <3>3, <5>2, <6>1
          <5>5. n - 1 < b
            BY <3>4, <5>2
          <5> QED BY <5>2, <5>3, <5>4, <5>5
        <4> QED BY <4>1, <4>2
      <3>6. Before(queue, F, x, queue[b])
        BY <1>9, <2>3, <3>5 DEF TailLast
      <3> QED BY <1>4, <3>3, <3>6 DEF y
    <2> QED BY <2>1, <2>4 DEF TailLast
  <1>10. ASSUME Stable, NEW x \in Held(req'), ItemOf(x) \in Internal
         PROVE  u # None /\ TailLast(Q, G, u, x)
    <2>1. t # None /\ TailLast(queue, F, t, x)
      BY <1>4, <1>10 DEF TailInv
    <2> HIDE DEF F, G, Q, t, u
    <2> QED BY <1>9, <2>1
  <1> QED BY <1>5, <1>10 DEF TailInv


(* Steps that move no value leave the last priority request alone.         *)
LEMMA TailQuiet ==
  ASSUME IInv, TailInv, QuietStep
  PROVE  TailInv'
  <1>1. UNCHANGED <<queue, req, priority_tail>>
    BY QuietSteps DEF Quiet
  <1>2. \A x \in Ids : req'[x].flush = req[x].flush /\ (x \in Held(req') <=> x \in Held(req))
    BY <1>1 DEF Held
  <1> QED BY <1>1, <1>2, TailSame

(* So does preproc_item_value_clear,                                       *)
LEMMA TailClear ==
  ASSUME TailInv, preproc_item_value_clear
  PROVE  TailInv'
  <1>1. UNCHANGED <<queue, req, priority_tail>>
    BY DEF preproc_item_value_clear
  <1>2. \A x \in Ids : req'[x].flush = req[x].flush /\ (x \in Held(req') <=> x \in Held(req))
    BY <1>1 DEF Held
  <1> QED BY <1>1, <1>2, TailSame

(* a value that is flushed at once,                                        *)
LEMMA TailEnqueueNow ==
  ASSUME TailInv, NEW id, EnqueueNow(id)
  PROVE  TailInv'
  <1>1. UNCHANGED <<queue, req, priority_tail>>
    BY DEF EnqueueNow
  <1>2. \A x \in Ids : req'[x].flush = req[x].flush /\ (x \in Held(req') <=> x \in Held(req))
    BY <1>1 DEF Held
  <1> QED BY <1>1, <1>2, TailSame

(* the derivation of dependent values,                                     *)
LEMMA TailDerived ==
  ASSUME IInv, TailInv, NEW id, NEW s, DependentsDerived(id, s)
  PROVE  TailInv'
  <1>1. id \in Ids
    BY DerivedFacts
  <1>2. req \in [Ids -> Request]
    BY DEF IInv, TypeInv
  <1>3. \A x \in Ids : req'[x].state = req[x].state /\ req'[x].flush = req[x].flush
    BY <1>1, <1>2, DerivedFields
  <1>4. UNCHANGED <<queue, priority_tail>>
    BY DEF DependentsDerived
  <1>5. \A x \in Ids : req'[x].flush = req[x].flush /\ (x \in Held(req') <=> x \in Held(req))
    BY <1>3 DEF Held
  <1> QED BY <1>4, <1>5, TailSame

(* a value sent to a worker,                                               *)
LEMMA TailAssignValue ==
  ASSUME IInv, TailInv, NEW w, NEW id, AssignValue(w, id)
  PROVE  TailInv'
  <1>1. /\ req[id].state = "QUEUED"
        /\ \A x \in Ids : /\ req'[x].state = IF x = id THEN "PROCESSING" ELSE req[x].state
                          /\ req'[x].flush = req[x].flush
    BY AssignValueFields
  <1>2. UNCHANGED <<queue, priority_tail>>
    BY DEF AssignValue
  <1>3. \A x \in Ids : req'[x].flush = req[x].flush /\ (x \in Held(req') <=> x \in Held(req))
    BY <1>1 DEF Held
  <1> QED BY <1>2, <1>3, TailSame

(* and a message with collected values.                                    *)
LEMMA TailAddRequest ==
  ASSUME IInv, TailInv, NEW batch \in Batches, preprocessor_add_request(batch)
  PROVE  TailInv'
  <1>1. TypeInv
    BY DEF IInv
  <1>2. \A x \in Ids : req'[x].state = req[x].state /\ req'[x].flush = req[x].flush
    BY <1>1, BatchFields
  <1>3. UNCHANGED <<queue, priority_tail>>
    BY DEF preprocessor_add_request
  <1>4. \A x \in Ids : req'[x].flush = req[x].flush /\ (x \in Held(req') <=> x \in Held(req))
    BY <1>2 DEF Held
  <1> QED BY <1>3, <1>4, TailSame

(* preprocessor_assign_tasks, a not supported value.                       *)
LEMMA TailUnsupported ==
  ASSUME IInv, TailInv, NEW k, NEW id, AssignUnsupported(k, id)
  PROVE  TailInv'
  BY UnsupportedMoves, TailDone

(* preprocessor_add_result.                                                *)
LEMMA TailAddResult ==
  ASSUME IInv, TailInv, NEW w \in Workers, preprocessor_add_result(w)
  PROVE  TailInv'
  <1>1. PICK id : id = task[w]
    OBVIOUS
  <1>2. DoneMoves(id)
    BY <1>1, ResultMoves
  <1> QED BY <1>2, TailDone

(* Every step keeps the last priority request where it belongs.            *)
LEMMA TailNext ==
  ASSUME IInv, TailInv, PresentInv, TopMasters(todo), [Next]_vars
  PROVE  TailInv'
  <1>1. CASE UNCHANGED vars
    <2>1. UNCHANGED <<queue, req, priority_tail>>
      BY <1>1 DEF vars, qvars
    <2>2. \A x \in Ids : req'[x].flush = req[x].flush /\ (x \in Held(req') <=> x \in Held(req))
      BY <2>1 DEF Held
    <2> QED BY <2>1, <2>2, TailSame
  <1>2. CASE Next
    BY <1>2, NextCases, TailQuiet, TailClear, TailEnqueueNow, TailEnqueueQueued, TailDerived,
       TailUnsupported, TailAssignValue, TailFlush, TailAddRequest, TailAddResult, Zenon
  <1> QED BY <1>1, <1>2

(* There is no priority request at first.                                  *)
LEMMA TailInit ==
  ASSUME Init
  PROVE  TailInv /\ PresentInv /\ TopMasters(todo)
  <1>1. todo = <<>> /\ priority_tail = None /\ req = [x \in Ids |-> NoRequest]
        /\ config = [i \in Items |-> [present |-> TRUE, ver |-> 0]] /\ item_config = config
    BY DEF Init
  <1>2. TopMasters(todo)
    BY <1>1 DEF TopMasters, In1
  <1>3. PresentInv
    BY <1>1, PreprocAssumption DEF PresentInv
  <1>4. Held(req) = {}
    BY <1>1, NoRequestFields DEF Held
  <1> QED BY <1>1, <1>2, <1>3, <1>4 DEF TailInv

(* The requests of internal items are not behind the last priority         *)
(* request.                                                                *)
LEMMA PriorityTailLastHolds == IInv /\ TailInv => PriorityTailLast
  <1> SUFFICES ASSUME IInv, TailInv PROVE PriorityTailLast
    OBVIOUS
  <1> DEFINE F == FlushQueues(req)
             t == priority_tail
  <1>1. TypeInv /\ QueueInv(queue, req)
    BY DEF IInv
  <1>2. /\ queue \in Seq(Ids) /\ F \in Queues /\ Unique(queue, F) /\ Len(queue) \in Nat
        /\ DOMAIN queue = 1..Len(queue)
        /\ \A k \in 1..Len(queue) : queue[k] \in Held(req)
    BY <1>1, HeldPlaces, NodeFacts
  <1>3. t # None => Contains(queue, t)
    BY <1>2 DEF TailInv, In1, Contains
  <1>4. ASSUME Stable, NEW k \in 1..Len(queue), ItemOf(queue[k]) \in Internal
        PROVE  t # None /\ k <= Index(t)
    <2>1. t # None /\ TailLast(queue, F, t, queue[k])
      BY <1>2, <1>4 DEF TailInv
    <2>2. In1(queue, t)
      BY <2>1 DEF TailInv
    <2>3. Index(t) \in 1..Len(queue) /\ queue[Index(t)] = t
      BY <1>2, <2>2, IndexProperties
    <2>4. PICK j \in 1..Len(queue) : j = Index(t)
      BY <2>3
    <2> HIDE DEF F
    <2>5. ~(j < k)
      <3> SUFFICES ASSUME j < k PROVE FALSE
        OBVIOUS
      <3>1. queue[j] = t
        BY <2>3, <2>4
      <3>2. Before(queue, F, queue[k], queue[k])
        BY <2>1, <3>1 DEF TailLast
      <3>3. k < k
        BY <1>2, <3>2, NodesBefore
      <3> QED BY <3>3
    <2>6. k <= j
      BY <1>2, <2>5
    <2> QED BY <2>1, <2>4, <2>6
  <1> QED BY <1>2, <1>3, <1>4 DEF PriorityTailLast, Stable

(* priority_tail is always in the queue                                    *)
(* (preprocessor_set_request_state_done frees nodes), and no request of an *)
(* internal item is behind it if the configuration does not change.        *)
THEOREM PreprocPriorityTailLast == Spec => []PriorityTailLast
  <1>1. Init => TailInv /\ PresentInv /\ TopMasters(todo)
    BY TailInit
  <1>2. IInv /\ TailInv /\ PresentInv /\ TopMasters(todo) /\ [Next]_vars
          => TailInv' /\ PresentInv' /\ TopMasters(todo)'
    <2> SUFFICES ASSUME IInv, TailInv, PresentInv, TopMasters(todo), [Next]_vars
                 PROVE  TailInv' /\ PresentInv' /\ TopMasters(todo)'
      OBVIOUS
    <2>1. TypeInv
      BY DEF IInv
    <2>2. TopMasters(todo')
      BY TopMastersNext
    <2>3. TailInv' /\ PresentInv'
      BY <2>1, TailNext, PresentNext
    <2> QED BY <2>2, <2>3
  <1> QED BY <1>1, <1>2, PreprocInvariant, PriorityTailLastHolds, PTL DEF Spec


------------------------------------------------------------------------------
(* The order of flushing *)
(* Two values of an item that receives values, x collected before y.       *)
Earlier(x, y) ==
    x \in Ids /\ y \in Ids /\ ItemOf(x) = ItemOf(y) /\ ItemOf(x) \in TopItems /\ x[1] < y[1]

(* Neither the flushed values nor the queue have them in another order,    *)
(* and x is enqueued before y is in the queue.                             *)
OrderInv ==
    \A x, y \in Ids : Earlier(x, y) =>
        /\ \A j, k \in 1..Len(flushed) : flushed[j] = x /\ flushed[k] = y => j < k
        /\ In1(flushed, y) => x \notin Held(req) /\ x \notin CallsIn(todo, "enqueue")
        /\ Before(queue, FlushQueues(req), x, y)
        /\ y \in Held(req) => x \notin CallsIn(todo, "enqueue")

(* Two values of an item are different, and their numbers are ordered.     *)
LEMMA EarlierFacts ==
  ASSUME NEW x, NEW y, Earlier(x, y)
  PROVE  /\ x \in Ids /\ y \in Ids /\ x[1] \in Nat /\ y[1] \in Nat /\ x[1] < y[1] /\ x # y
         /\ ItemOf(x) = ItemOf(y) /\ ItemOf(x) \in TopItems
  <1>1. x \in Ids /\ y \in Ids /\ ItemOf(x) = ItemOf(y) /\ ItemOf(x) \in TopItems /\ x[1] < y[1]
    BY DEF Earlier
  <1>2. x[1] \in Nat /\ y[1] \in Nat
    BY <1>1, IdTypes
  <1>3. ASSUME x = y PROVE FALSE
    <2>1. x[1] < x[1]
      BY <1>1, <1>3
    <2> QED BY <1>2, <2>1
  <1> QED BY <1>1, <1>2, <1>3

(* OrderInv for two values.                                                *)
LEMMA OrderFacts ==
  ASSUME OrderInv, NEW x, NEW y, Earlier(x, y)
  PROVE  /\ \A j, k \in 1..Len(flushed) : flushed[j] = x /\ flushed[k] = y => j < k
         /\ In1(flushed, y) => x \notin Held(req) /\ x \notin CallsIn(todo, "enqueue")
         /\ Before(queue, FlushQueues(req), x, y)
         /\ y \in Held(req) => x \notin CallsIn(todo, "enqueue")
  BY DEF OrderInv, Earlier

(* Values that are not in the queue. *)
LEMMA NotInBefore ==
  ASSUME NEW Q, NEW F, NEW x, NEW y, ~In(Q, F, x) \/ ~In(Q, F, y)
  PROVE  Before(Q, F, x, y)
  BY DEF In, Before

(* Steps that move no value that has been enqueued. *)
LEMMA OrderSame ==
  ASSUME IInv, OrderInv, UNCHANGED <<queue, flushed>>,
         \A x \in Ids : req'[x].flush = req[x].flush /\ (x \in Held(req') <=> x \in Held(req)),
         \A x \in CallsIn(todo', "enqueue") : ItemOf(x) \in TopItems =>
            x \in CallsIn(todo, "enqueue") \/ \A y \in Known(req) : y[1] < x[1]
  PROVE  OrderInv'
  <1>1. ValueInv(req, flushed, todo, received)
    BY DEF IInv
  <1>2. \A x \in Held(req) : x \in Known(req)
    BY <1>1, ValueFacts
  <1>3. \A x \in Ids : In1(flushed, x) => x \in Known(req)
    BY <1>1 DEF ValueInv
  <1>4. FlushQueues(req') = FlushQueues(req)
    BY FlushQueuesSame
  <1>5. ASSUME NEW x \in Ids, NEW y \in Ids, Earlier(x, y)
        PROVE  /\ \A j, k \in 1..Len(flushed) : flushed[j] = x /\ flushed[k] = y => j < k
               /\ In1(flushed, y) => x \notin Held(req') /\ x \notin CallsIn(todo', "enqueue")
               /\ Before(queue, FlushQueues(req'), x, y)
               /\ y \in Held(req') => x \notin CallsIn(todo', "enqueue")
    <2>1. /\ \A j, k \in 1..Len(flushed) : flushed[j] = x /\ flushed[k] = y => j < k
          /\ In1(flushed, y) => x \notin Held(req) /\ x \notin CallsIn(todo, "enqueue")
          /\ Before(queue, FlushQueues(req), x, y)
          /\ y \in Held(req) => x \notin CallsIn(todo, "enqueue")
      BY <1>5, OrderFacts
    <2>2. ASSUME y \in Known(req), x \notin CallsIn(todo, "enqueue") PROVE x \notin CallsIn(todo', "enqueue")
      <3> SUFFICES ASSUME x \in CallsIn(todo', "enqueue") PROVE FALSE
        OBVIOUS
      <3>1. ItemOf(x) \in TopItems /\ x[1] < y[1] /\ x[1] \in Nat /\ y[1] \in Nat
        BY <1>5, IdTypes DEF Earlier
      <3>2. y[1] < x[1]
        BY <2>2, <3>1
      <3> QED BY <3>1, <3>2
    <2>3. x \in Held(req') <=> x \in Held(req)
      OBVIOUS
    <2>4. y \in Held(req') <=> y \in Held(req)
      OBVIOUS
    <2> QED BY <1>2, <1>3, <1>4, <2>1, <2>2, <2>3, <2>4
  <1>6. queue' = queue /\ flushed' = flushed
    OBVIOUS
  <1> QED BY <1>5, <1>6 DEF OrderInv

(* Steps that move no value keep the order.                                *)
LEMMA OrderQuiet ==
  ASSUME IInv, IInv', OrderInv, QuietStep
  PROVE  OrderInv'
  <1>1. Quiet
    BY QuietSteps
  <1>2. UNCHANGED <<queue, req, flushed>>
    BY <1>1 DEF Quiet
  <1>3. \A x \in Ids : req'[x].flush = req[x].flush /\ (x \in Held(req') <=> x \in Held(req))
    BY <1>2 DEF Held
  <1>4. \A x : x \in CallsIn(todo', "enqueue") <=> x \in CallsIn(todo, "enqueue")
    BY <1>1, QuietCalls
  <1> QED BY <1>2, <1>3, <1>4, OrderSame

(* So does preproc_item_value_clear,                                       *)
LEMMA OrderClear ==
  ASSUME IInv, OrderInv, preproc_item_value_clear
  PROVE  OrderInv'
  <1>1. UNCHANGED <<queue, req, flushed>>
    BY DEF preproc_item_value_clear, ovars
  <1>2. \A x \in Ids : req'[x].flush = req[x].flush /\ (x \in Held(req') <=> x \in Held(req))
    BY <1>1 DEF Held
  <1>3. todo \in Seq(CallRecord) /\ CallInv(todo) /\ todo # <<>> /\ todo' = Tail(todo)
    BY DEF IInv, TypeInv, preproc_item_value_clear, Calling, Return
  <1>4. \A x : x \in CallsIn(todo', "enqueue") => x \in CallsIn(todo, "enqueue")
    BY <1>3, TodoReturn
  <1> QED BY <1>1, <1>2, <1>4, OrderSame

(* the derivation of dependent values, which are not collected,            *)
LEMMA OrderDerived ==
  ASSUME IInv, OrderInv, NEW id, NEW s, DependentsDerived(id, s)
  PROVE  OrderInv'
  <1>1. id \in Ids /\ \A x : x \in CallsIn(todo', "enqueue") <=> x \in DerivedIds(id) \/ x \in CallsIn(todo, "enqueue")
    BY DerivedFacts
  <1>2. req \in [Ids -> Request] /\ todo \in Seq(CallRecord) /\ CallInv(todo)
    BY DEF IInv, TypeInv
  <1>3. \A x \in Ids : req'[x].state = req[x].state /\ req'[x].flush = req[x].flush
    BY <1>1, <1>2, DerivedFields
  <1>4. UNCHANGED <<queue, flushed>>
    BY DEF DependentsDerived, ovars
  <1>5. \A x \in Ids : req'[x].flush = req[x].flush /\ (x \in Held(req') <=> x \in Held(req))
    BY <1>3 DEF Held
  <1>6. DerivedIds(id) \subseteq Children(id)
    BY <1>2, DerivedCalls
  <1>7. \A x \in DerivedIds(id) : ItemOf(x) \notin TopItems
    BY <1>1, <1>6, ChildFacts
  <1> QED BY <1>1, <1>4, <1>5, <1>7, OrderSame

(* a value sent to a worker,                                               *)
LEMMA OrderAssignValue ==
  ASSUME IInv, IInv', OrderInv, NEW w, NEW id, AssignValue(w, id)
  PROVE  OrderInv'
  <1>1. /\ req[id].state = "QUEUED"
        /\ \A x \in Ids : /\ req'[x].state = IF x = id THEN "PROCESSING" ELSE req[x].state
                          /\ req'[x].flush = req[x].flush
    BY AssignValueFields
  <1>2. UNCHANGED <<queue, flushed>>
    BY DEF AssignValue, ovars
  <1>3. \A x \in Ids : req'[x].flush = req[x].flush /\ (x \in Held(req') <=> x \in Held(req))
    BY <1>1 DEF Held
  <1>4. todo \in Seq(CallRecord) /\ todo' \in Seq(CallRecord)
    BY DEF IInv, TypeInv
  <1>5. \A x : x \in CallsIn(todo', "enqueue") <=> x \in CallsIn(todo, "enqueue")
    BY <1>4, AssignValueCalls, KeepCallsIn
  <1> QED BY <1>2, <1>3, <1>5, OrderSame

(* and a message with collected values, which are later than all that are  *)
(* known.                                                                  *)
LEMMA OrderAddRequest ==
  ASSUME IInv, OrderInv, NEW batch \in Batches, preprocessor_add_request(batch)
  PROVE  OrderInv'
  <1>1. TypeInv /\ ValueInv(req, flushed, todo, received)
    BY DEF IInv
  <1>2. \A x \in Ids : req'[x].state = req[x].state /\ req'[x].flush = req[x].flush
    BY <1>1, BatchFields
  <1>3. UNCHANGED <<queue, flushed>>
    BY DEF preprocessor_add_request, ovars
  <1>4. \A x \in Ids : req'[x].flush = req[x].flush /\ (x \in Held(req') <=> x \in Held(req))
    BY <1>2 DEF Held
  <1>5. received + Len(batch) <= MaxReceived /\ \A x : x \in CallsIn(todo', "enqueue") <=> x \in BatchIds(batch)
    BY BatchFacts
  <1>6. \A x \in BatchIds(batch) : x \in Ids /\ x[1] > received
    BY <1>1, <1>5, BatchProperties
  <1>7. \A y \in Known(req) : y[1] <= received /\ y[1] \in Nat
    BY <1>1, IdTypes DEF ValueInv, Known
  <1>8. received \in Nat
    BY <1>1, PreprocAssumption DEF TypeInv
  <1>9. ASSUME NEW x \in CallsIn(todo', "enqueue") PROVE \A y \in Known(req) : y[1] < x[1]
    <2>1. x[1] > received /\ x[1] \in Nat
      BY <1>5, <1>6, IdTypes
    <2> QED BY <1>7, <1>8, <2>1
  <1> QED BY <1>3, <1>4, <1>9, OrderSame


(* preprocessor_enqueue of a value that is flushed at once: the queue is   *)
(* empty, and the earlier values of its item have been enqueued and        *)
(* flushed.                                                                *)
LEMMA OrderEnqueueNow ==
  ASSUME IInv, OrderInv, NEW id, EnqueueNow(id)
  PROVE  OrderInv'
  <1>1. TypeInv /\ QueueInv(queue, req) /\ flushed \in Seq(Ids) /\ Len(flushed) \in Nat
    BY DEF IInv, TypeInv
  <1>2. UNCHANGED <<queue, req>> /\ queue = <<>> /\ flushed' = Append(flushed, id)
    BY DEF EnqueueNow
  <1>3. /\ id \in Ids /\ id \in CallsIn(todo, "enqueue")
        /\ \A x : x \in CallsIn(todo', "enqueue") <=> x \in CallsIn(todo, "enqueue") /\ x # id
    BY EnqueueNowCallsKept
  <1>4. ~In1(flushed, id)
        /\ (ItemOf(id) \in TopItems => \A x \in CallsIn(todo, "enqueue") : ItemOf(x) = ItemOf(id) /\ x # id => id[1] < x[1])
    <2>1. Calling("enqueue") /\ id = Head(todo).id
      BY DEF EnqueueNow
    <2>2. /\ ~In1(flushed, id)
          /\ \A op, x : x \in CallsIn(todo, op) => x \in CallsIn(Tail(todo), op) \/ (op = "enqueue" /\ x = id)
          /\ ItemOf(id) \in TopItems => \A x \in CallsIn(Tail(todo), "enqueue") : ItemOf(x) = ItemOf(id) => id[1] < x[1]
      BY <2>1, EnqueueFacts
    <2> QED BY <2>2
  <1>5. \A x : ~In(queue, FlushQueues(req), x)
    BY <1>2 DEF In, Places
  <1>6. \A x \in Ids : x \notin Held(req)
    BY <1>1, <1>5, HeldPlaces
  <1>7. /\ Len(flushed') = Len(flushed) + 1
        /\ \A x : In1(flushed', x) <=> In1(flushed, x) \/ x = id
        /\ \A k \in 1..Len(flushed') : flushed'[k] = IF k = Len(flushed) + 1 THEN id ELSE flushed[k]
    BY <1>1, <1>2, <1>3, AppendIn
  <1>8. ASSUME NEW x \in Ids, NEW y \in Ids, Earlier(x, y)
        PROVE  /\ \A j, k \in 1..Len(flushed') : flushed'[j] = x /\ flushed'[k] = y => j < k
               /\ In1(flushed', y) => x \notin Held(req) /\ x \notin CallsIn(todo', "enqueue")
               /\ Before(queue, FlushQueues(req), x, y)
               /\ y \in Held(req) => x \notin CallsIn(todo', "enqueue")
    <2>1. /\ \A j, k \in 1..Len(flushed) : flushed[j] = x /\ flushed[k] = y => j < k
          /\ In1(flushed, y) => x \notin Held(req) /\ x \notin CallsIn(todo, "enqueue")
      BY <1>8, OrderFacts
    <2>2. /\ ItemOf(x) = ItemOf(y) /\ ItemOf(x) \in TopItems /\ x[1] < y[1] /\ x[1] \in Nat /\ y[1] \in Nat
          /\ x # y
      BY <1>8, EarlierFacts
    <2>3. ASSUME NEW j \in 1..Len(flushed'), NEW k \in 1..Len(flushed'), flushed'[j] = x, flushed'[k] = y
          PROVE  j < k
      <3>1. CASE k = Len(flushed) + 1
        BY <1>1, <1>7, <2>2, <2>3, <3>1
      <3>2. CASE k # Len(flushed) + 1
        <4>1. k \in 1..Len(flushed) /\ flushed[k] = y
          BY <1>1, <1>7, <2>3, <3>2
        <4>2. In1(flushed, y)
          BY <4>1 DEF In1
        <4>3. x # id
          BY <1>3, <2>1, <4>2
        <4>4. j \in 1..Len(flushed) /\ flushed[j] = x
          BY <1>1, <1>7, <2>3, <4>3
        <4> QED BY <2>1, <4>1, <4>4
      <3> QED BY <3>1, <3>2
    <2>4. ASSUME y = id PROVE x \notin CallsIn(todo', "enqueue")
      <3> SUFFICES ASSUME x \in CallsIn(todo', "enqueue") PROVE FALSE
        OBVIOUS
      <3>1. id[1] < x[1]
        BY <1>3, <1>4, <2>2, <2>4
      <3> QED BY <2>2, <2>4, <3>1
    <2>5. Before(queue, FlushQueues(req), x, y)
      BY <1>5, NotInBefore
    <2> QED BY <1>3, <1>6, <1>7, <2>1, <2>3, <2>4, <2>5
  <1>9. queue' = queue /\ req' = req
    BY <1>2
  <1> QED BY <1>8, <1>9 DEF OrderInv

(* A request is put behind the earlier values of its item. *)
LEMMA EnqueuedBehind ==
  ASSUME IInv, TailInv, TopMasters(todo), Stable,
         NEW id, NEW master, NEW done, NEW r, EnqueueQueued(id, master, done, r),
         ItemOf(id) \in TopItems, NEW x \in Held(req), ItemOf(x) = ItemOf(id)
  PROVE  \A p \in Places(queue, FlushQueues(req)) :
            At(queue, FlushQueues(req), p) = x => p[1] < InsertPosition(id, master)
  <1>1. TypeInv /\ QueueInv(queue, req) /\ todo \in Seq(CallRecord)
    BY DEF IInv, TypeInv
  <1>2. id \in Ids /\ Head(todo) = Enqueue(id, master) /\ In1(todo, Head(todo))
    BY QueuedPosition
  <1>3. master = None
    <2> DEFINE c == Head(todo)
    <2>1. c \in CallRecord /\ c.op = "enqueue" /\ c.id = id /\ c.master = master
      <3>1. todo # <<>>
        BY DEF EnqueueQueued, Calling
      <3>2. c \in CallRecord
        BY <1>1, <3>1, CallTypes
      <3> QED BY <1>2, <3>2 DEF Enqueue
    <2> HIDE DEF c
    <2> QED BY <1>2, <2>1 DEF TopMasters, c
  <1>4. CASE Priority(id, master)
    <2>1. ItemOf(x) \in Internal
      BY <1>4 DEF Priority
    <2>3. priority_tail # None => InsertPosition(id, master) = Index(priority_tail) + 1
      BY <1>4 DEF InsertPosition
    <2>4. PICK n : n = InsertPosition(id, master)
      OBVIOUS
    <2>5. \A p \in Places(queue, FlushQueues(req)) : At(queue, FlushQueues(req), p) = x => p[1] < n
      BY <2>1, <2>3, <2>4, PriorityPosition
    <2> QED BY <2>4, <2>5
  <1>5. CASE ~Priority(id, master)
    <2>1. InsertPosition(id, master) = Len(queue) + 1
      BY <1>3, <1>5 DEF InsertPosition
    <2>2. Len(queue) \in Nat /\ \A p \in Places(queue, FlushQueues(req)) : p[1] \in 1..Len(queue)
      BY <1>1, HeldPlaces
    <2> QED BY <2>1, <2>2
  <1> QED BY <1>4, <1>5

(* preprocessor_enqueue of a value that is queued.                         *)
LEMMA OrderEnqueueQueued ==
  ASSUME IInv, OrderInv, TailInv, TopMasters(todo), Stable,
         NEW id, NEW master, NEW done, NEW r, EnqueueQueued(id, master, done, r)
  PROVE  OrderInv'
  <1> DEFINE F == FlushQueues(req)
             n == InsertPosition(id, master)
  <1>1. TypeInv /\ QueueInv(queue, req)
    BY DEF IInv
  <1>2. queue \in Seq(Ids) /\ F \in Queues /\ \A x \in Ids : x \in Held(req) <=> In(queue, F, x)
    BY <1>1, HeldPlaces
  <1>3. /\ id \in Ids /\ n \in 1..(Len(queue) + 1) /\ queue' = InsertAt(queue, n, id)
        /\ F[id] = <<>> /\ ~In(queue, F, id) /\ FlushQueues(req') = F
        /\ \A x : x \in Held(req') <=> x \in Held(req) \/ x = id
    BY QueuedPosition
  <1>4. /\ id \in CallsIn(todo, "enqueue")
        /\ \A x : x \in CallsIn(todo', "enqueue") <=> x \in CallsIn(todo, "enqueue") /\ x # id
    BY EnqueueQueuedCallsKept
  <1>5. ItemOf(id) \in TopItems => \A x \in CallsIn(todo, "enqueue") : ItemOf(x) = ItemOf(id) /\ x # id => id[1] < x[1]
    <2>1. Calling("enqueue") /\ id = Head(todo).id
      BY DEF EnqueueQueued
    <2>2. /\ \A op, x : x \in CallsIn(todo, op) => x \in CallsIn(Tail(todo), op) \/ (op = "enqueue" /\ x = id)
          /\ ItemOf(id) \in TopItems => \A x \in CallsIn(Tail(todo), "enqueue") : ItemOf(x) = ItemOf(id) => id[1] < x[1]
      BY <2>1, EnqueueFacts
    <2> QED BY <2>2
  <1>6. flushed' = flushed
    BY DEF EnqueueQueued
  <1>7. /\ \A y : In(queue', F, y) <=> In(queue, F, y) \/ y = id
        /\ \A y, z : y # id /\ z # id /\ Before(queue, F, y, z) => Before(queue', F, y, z)
        /\ \A y : y # id /\ (\A p \in Places(queue, F) : At(queue, F, p) = y => p[1] < n) => Before(queue', F, y, id)
    <2> HIDE DEF F, n
    <2> QED BY <1>2, <1>3, InsertPlaces
  <1>8. \A x \in Held(req) : ItemOf(id) \in TopItems /\ ItemOf(x) = ItemOf(id)
          => \A p \in Places(queue, F) : At(queue, F, p) = x => p[1] < n
    BY EnqueuedBehind
  <1> HIDE DEF F, n
  <1>9. ASSUME NEW x \in Ids, NEW y \in Ids, Earlier(x, y)
        PROVE  /\ \A j, k \in 1..Len(flushed) : flushed[j] = x /\ flushed[k] = y => j < k
               /\ In1(flushed, y) => x \notin Held(req') /\ x \notin CallsIn(todo', "enqueue")
               /\ Before(queue', F, x, y)
               /\ y \in Held(req') => x \notin CallsIn(todo', "enqueue")
    <2>1. /\ \A j, k \in 1..Len(flushed) : flushed[j] = x /\ flushed[k] = y => j < k
          /\ In1(flushed, y) => x \notin Held(req) /\ x \notin CallsIn(todo, "enqueue")
          /\ Before(queue, F, x, y)
          /\ y \in Held(req) => x \notin CallsIn(todo, "enqueue")
      BY <1>9, OrderFacts DEF F
    <2>2. /\ ItemOf(x) = ItemOf(y) /\ ItemOf(x) \in TopItems /\ x[1] < y[1] /\ x[1] \in Nat /\ y[1] \in Nat
          /\ x # y
      BY <1>9, EarlierFacts
    <2>3. ASSUME y = id PROVE x \notin CallsIn(todo', "enqueue")
      <3> SUFFICES ASSUME x \in CallsIn(todo', "enqueue") PROVE FALSE
        OBVIOUS
      <3>1. id[1] < x[1]
        BY <1>4, <1>5, <2>2, <2>3
      <3> QED BY <2>2, <2>3, <3>1
    <2>4. Before(queue', F, x, y)
      <3>1. CASE x = id
        <4>1. y \notin Held(req)
          BY <1>4, <2>1, <3>1
        <4>2. ~In(queue', F, y)
          BY <1>2, <1>7, <2>2, <3>1, <4>1
        <4> QED BY <4>2, NotInBefore
      <3>2. CASE y = id /\ x \in Held(req)
        BY <1>7, <1>8, <2>2, <3>2
      <3>3. CASE y = id /\ x \notin Held(req)
        <4>1. ~In(queue', F, x)
          BY <1>2, <1>7, <2>2, <3>3
        <4> QED BY <4>1, NotInBefore
      <3>4. CASE x # id /\ y # id
        BY <1>7, <2>1, <3>4
      <3> QED BY <3>1, <3>2, <3>3, <3>4
    <2>5. In1(flushed, y) => x \notin Held(req')
      BY <1>3, <1>4, <2>1
    <2>6. y \in Held(req') => y \in Held(req) \/ y = id
      BY <1>3
    <2> QED BY <1>4, <2>1, <2>3, <2>4, <2>5, <2>6
  <1> QED BY <1>3, <1>6, <1>9 DEF OrderInv


(* A value that is done moves to the flush queue of the node before it:    *)
(* nothing overtakes.                                                      *)
LEMMA OrderDone ==
  ASSUME OrderInv, NEW id, DoneMoves(id), flushed' = flushed,
         \A x : x \in CallsIn(todo', "enqueue") => x \in CallsIn(todo, "enqueue")
  PROVE  OrderInv'
  <1>1. /\ \A x \in Ids : x \in Held(req') <=> x \in Held(req)
        /\ \A x, y : Before(queue, FlushQueues(req), x, y) => Before(queue', FlushQueues(req'), x, y)
    BY DEF DoneMoves
  <1>2. ASSUME NEW x \in Ids, NEW y \in Ids, Earlier(x, y)
        PROVE  /\ \A j, k \in 1..Len(flushed) : flushed[j] = x /\ flushed[k] = y => j < k
               /\ In1(flushed, y) => x \notin Held(req') /\ x \notin CallsIn(todo', "enqueue")
               /\ Before(queue', FlushQueues(req'), x, y)
               /\ y \in Held(req') => x \notin CallsIn(todo', "enqueue")
    <2>1. /\ \A j, k \in 1..Len(flushed) : flushed[j] = x /\ flushed[k] = y => j < k
          /\ In1(flushed, y) => x \notin Held(req) /\ x \notin CallsIn(todo, "enqueue")
          /\ Before(queue, FlushQueues(req), x, y)
          /\ y \in Held(req) => x \notin CallsIn(todo, "enqueue")
      BY <1>2, OrderFacts
    <2>2. x \notin CallsIn(todo, "enqueue") => x \notin CallsIn(todo', "enqueue")
      OBVIOUS
    <2>3. Before(queue', FlushQueues(req'), x, y)
      BY <1>1, <2>1
    <2> QED BY <1>1, <2>1, <2>2, <2>3
  <1>3. flushed' = flushed
    OBVIOUS
  <1> QED BY <1>2, <1>3 DEF OrderInv

(* preprocessor_assign_tasks, a not supported value.                       *)
LEMMA OrderUnsupported ==
  ASSUME IInv, IInv', OrderInv, NEW k, NEW id, AssignUnsupported(k, id)
  PROVE  OrderInv'
  <1>1. todo \in Seq(CallRecord) /\ todo' \in Seq(CallRecord)
    BY DEF IInv, TypeInv
  <1>2. \A x : x \in CallsIn(todo', "enqueue") => x \in CallsIn(todo, "enqueue")
    BY <1>1, AssignUnsupportedCalls, KeepCallsIn
  <1>3. DoneMoves(id) /\ flushed' = flushed
    BY UnsupportedMoves
  <1> QED BY <1>2, <1>3, OrderDone

(* preprocessor_add_result.                                                *)
LEMMA OrderAddResult ==
  ASSUME IInv, OrderInv, NEW w \in Workers, preprocessor_add_result(w)
  PROVE  OrderInv'
  <1>1. PICK id : id = task[w]
    OBVIOUS
  <1>2. \A x : x \in CallsIn(todo', "enqueue") => x \in CallsIn(todo, "enqueue")
    BY AddResultTodo
  <1>3. DoneMoves(id) /\ flushed' = flushed
    BY <1>1, ResultMoves
  <1> QED BY <1>2, <1>3, OrderDone

(* preprocessing_flush_queue: the first request leaves with its flush      *)
(* queue, behind what was flushed before.                                  *)
LEMMA OrderFlush ==
  ASSUME IInv, OrderInv, NEW ids, FlushFirst(ids)
  PROVE  OrderInv'
  <1> DEFINE F == FlushQueues(req)
             G == FlushQueues(req')
  <1>1. TypeInv /\ QueueInv(queue, req) /\ req \in [Ids -> Request] /\ flushed \in Seq(Ids) /\ Len(flushed) \in Nat
    BY DEF IInv, TypeInv
  <1>2. /\ queue \in Seq(Ids) /\ F \in Queues
        /\ \A x \in Ids : x \in Held(req) <=> In(queue, F, x)
        /\ \A p \in Places(queue, F) : p[1] \in 1..Len(queue)
    BY <1>1, HeldPlaces
  <1>3. queue # <<>> /\ queue' = Tail(queue) /\ flushed' = flushed \o ids /\ todo' = todo
    BY DEF FlushFirst
  <1>4. /\ ids \in Seq(Ids) /\ Len(ids) \in Nat
        /\ \A k \in 1..Len(ids) : <<1, k - 1>> \in Places(queue, F) /\ ids[k] = At(queue, F, <<1, k - 1>>)
        /\ \A x : In1(ids, x) <=> x \in FlushedIds
        /\ \A x : x \in FlushedIds => x \in Held(req) /\ x \in Ids /\ x \notin Unfinished(req)
        /\ Head(queue) \in FlushedIds
        /\ req' \in [Ids -> Request]
        /\ \A x \in Ids : /\ req'[x].state = IF x \in FlushedIds THEN "FREE" ELSE req[x].state
                          /\ req'[x].flush = req[x].flush
    BY FlushFields
  <1>5. \A x \in Ids : x \in Held(req') <=> x \in Held(req) /\ x \notin FlushedIds
    BY <1>4 DEF Held
  <1>6. \A x, y : Before(queue, F, x, y) => Before(Tail(queue), G, x, y)
    <2>1. \A x \in Ids : x \in Held(req') <=> x \in Held(req) /\ x \notin FirstNode(queue, FlushQueues(req))
      BY <1>5 DEF FlushedIds
    <2>2. \A y \in Unfinished(req') : y \in Unfinished(req) /\ y # Head(queue)
      BY <1>4 DEF Unfinished
    <2>3. \A x \in Ids : req'[x].flush = req[x].flush
      BY <1>4
    <2> QED BY <1>1, <1>2, <1>3, <1>4, <2>1, <2>2, <2>3, QueueTail
  <1>7. /\ Len(flushed') = Len(flushed) + Len(ids)
        /\ \A x : In1(flushed', x) <=> In1(flushed, x) \/ In1(ids, x)
        /\ \A k \in 1..Len(flushed') : IF k <= Len(flushed) THEN flushed'[k] = flushed[k] ELSE flushed'[k] = ids[k - Len(flushed)]
    BY <1>1, <1>3, <1>4, ConcatInjective
  <1>8. \A x : x \in FlushedIds => x \in FirstNode(queue, F)
    BY DEF FlushedIds
  <1> HIDE DEF F, G
  <1>9. ASSUME NEW x \in Ids, NEW y \in Ids, Earlier(x, y)
        PROVE  /\ \A j, k \in 1..Len(flushed') : flushed'[j] = x /\ flushed'[k] = y => j < k
               /\ In1(flushed', y) => x \notin Held(req') /\ x \notin CallsIn(todo, "enqueue")
               /\ Before(Tail(queue), G, x, y)
               /\ y \in Held(req') => x \notin CallsIn(todo, "enqueue")
    <2>1. /\ \A j, k \in 1..Len(flushed) : flushed[j] = x /\ flushed[k] = y => j < k
          /\ In1(flushed, y) => x \notin Held(req) /\ x \notin CallsIn(todo, "enqueue")
          /\ Before(queue, F, x, y)
          /\ y \in Held(req) => x \notin CallsIn(todo, "enqueue")
      BY <1>9, OrderFacts DEF F
    <2>2. ASSUME NEW j \in 1..Len(flushed'), NEW k \in 1..Len(flushed'), flushed'[j] = x, flushed'[k] = y
          PROVE  j < k
      <3>1. CASE j <= Len(flushed) /\ k <= Len(flushed)
        <4>1. j \in 1..Len(flushed) /\ k \in 1..Len(flushed) /\ flushed[j] = x /\ flushed[k] = y
          BY <1>1, <1>7, <2>2, <3>1
        <4> QED BY <2>1, <4>1
      <3>2. CASE j <= Len(flushed) /\ k > Len(flushed)
        BY <1>1, <1>7, <3>2
      <3>3. CASE j > Len(flushed) /\ k <= Len(flushed)
        <4>1. k \in 1..Len(flushed) /\ flushed[k] = y
          BY <1>1, <1>7, <2>2, <3>3
        <4>2. x \notin Held(req)
          BY <2>1, <4>1 DEF In1
        <4>3. j - Len(flushed) \in 1..Len(ids) /\ ids[j - Len(flushed)] = x
          BY <1>1, <1>4, <1>7, <2>2, <3>3
        <4>4. In1(ids, x)
          BY <4>3 DEF In1
        <4> QED BY <1>4, <4>2, <4>4
      <3>4. CASE j > Len(flushed) /\ k > Len(flushed)
        <4>0. /\ j - Len(flushed) \in 1..Len(ids) /\ ids[j - Len(flushed)] = x
              /\ k - Len(flushed) \in 1..Len(ids) /\ ids[k - Len(flushed)] = y
          BY <1>1, <1>4, <1>7, <2>2, <3>4
        <4>1. PICK a, b \in 1..Len(ids) : a = j - Len(flushed) /\ b = k - Len(flushed) /\ ids[a] = x /\ ids[b] = y
          BY <4>0
        <4>2. /\ <<1, a - 1>> \in Places(queue, F) /\ At(queue, F, <<1, a - 1>>) = x
              /\ <<1, b - 1>> \in Places(queue, F) /\ At(queue, F, <<1, b - 1>>) = y
          BY <1>4, <4>1
        <4>3. Less(<<1, a - 1>>, <<1, b - 1>>)
          BY <2>1, <4>2 DEF Before
        <4>4. a - 1 < b - 1
          BY <4>3 DEF Less
        <4> QED BY <1>1, <1>4, <4>1, <4>4
      <3> QED BY <1>1, <1>7, <3>1, <3>2, <3>3, <3>4
    <2>3. ASSUME y \in FlushedIds PROVE x \notin Held(req')
      <3> SUFFICES ASSUME x \in Held(req) PROVE x \in FlushedIds
        BY <1>5
      <3>1. In1(ids, y) /\ In(queue, F, x)
        BY <1>2, <1>4, <2>3
      <3>2. PICK k \in 1..Len(ids) : ids[k] = y
        BY <3>1 DEF In1
      <3>3. PICK p \in Places(queue, F) : At(queue, F, p) = x
        BY <3>1 DEF In
      <3>4. Less(p, <<1, k - 1>>)
        BY <1>4, <2>1, <3>2, <3>3 DEF Before
      <3>5. p[1] \in 1..Len(queue) /\ p[2] \in 0..Len(F[queue[p[1]]])
        BY <1>2, <3>3, PlacesType
      <3>6. p[1] = 1
        BY <1>2, <3>4, <3>5 DEF Less
      <3>7. x \in FirstNode(queue, F)
        BY <3>3, <3>5, <3>6 DEF FirstNode, At
      <3> QED BY <3>7 DEF FlushedIds, F
    <2>4. In1(flushed', y) => In1(flushed, y) \/ y \in FlushedIds
      BY <1>4, <1>7
    <2>5. y \in FlushedIds => y \in Held(req)
      BY <1>4
    <2>6. x \in Held(req') => x \in Held(req)
      BY <1>5
    <2>7. y \in Held(req') => y \in Held(req)
      BY <1>5
    <2>8. Before(Tail(queue), G, x, y)
      BY <1>6, <2>1
    <2> QED BY <2>1, <2>2, <2>3, <2>4, <2>5, <2>6, <2>7, <2>8
  <1>10. \A x, y \in Ids : Earlier(x, y) =>
            /\ \A j, k \in 1..Len(flushed') : flushed'[j] = x /\ flushed'[k] = y => j < k
            /\ In1(flushed', y) => x \notin Held(req') /\ x \notin CallsIn(todo', "enqueue")
            /\ Before(queue', FlushQueues(req'), x, y)
            /\ y \in Held(req') => x \notin CallsIn(todo', "enqueue")
    BY <1>3, <1>9 DEF G
  <1> QED BY <1>10 DEF OrderInv

(* Every step keeps the order.                                             *)
LEMMA OrderNext ==
  ASSUME IInv, IInv', OrderInv, TailInv, TopMasters(todo), Stable, [Next]_vars
  PROVE  OrderInv'
  <1>1. CASE UNCHANGED vars
    <2>1. UNCHANGED <<queue, req, flushed, todo>>
      BY <1>1 DEF vars, qvars, ovars
    <2> QED BY <2>1 DEF OrderInv
  <1>2. CASE Next
    BY <1>2, NextCases, OrderQuiet, OrderClear, OrderEnqueueNow, OrderEnqueueQueued, OrderDerived,
       OrderUnsupported, OrderAssignValue, OrderFlush, OrderAddRequest, OrderAddResult, Zenon
  <1> QED BY <1>1, <1>2

(* Nothing is queued at first.                                             *)
LEMMA OrderInit ==
  ASSUME Init
  PROVE  OrderInv
  <1>1. todo = <<>> /\ flushed = <<>> /\ queue = <<>> /\ req = [x \in Ids |-> NoRequest]
    BY DEF Init
  <1>2. Held(req) = {}
    BY <1>1, NoRequestFields DEF Held
  <1>3. \A x : ~In(queue, FlushQueues(req), x)
    BY <1>1 DEF In, Places
  <1>4. \A x, y : Before(queue, FlushQueues(req), x, y)
    BY <1>3, NotInBefore
  <1>5. \A x : ~In1(flushed, x)
    BY <1>1 DEF In1
  <1>6. \A j, k \in 1..Len(flushed) : FALSE
    BY <1>1
  <1> QED BY <1>2, <1>4, <1>5, <1>6 DEF OrderInv

(* The order of the places is the order of the flushed values and of the   *)
(* queue.                                                                  *)
LEMMA FlushOrderHolds == IInv /\ OrderInv => FlushOrder
  <1> SUFFICES ASSUME IInv, OrderInv, NEW x \in Ids, NEW y \in Ids, Earlier(x, y)
               PROVE  /\ \A j \in FlushedAt(x), k \in FlushedAt(y) : j < k
                      /\ FlushedAt(y) # {} => QueuedAt(x) = {}
                      /\ \A p \in QueuedAt(x), q \in QueuedAt(y) : p[1] < q[1] \/ (p[1] = q[1] /\ p[2] < q[2])
    BY DEF FlushOrder, InOrder, Earlier
  <1>1. /\ TypeInv /\ QueueInv(queue, req) /\ flushed \in Seq(Ids) /\ Injective(flushed)
    BY DEF IInv, TypeInv, ValueInv
  <1>2. /\ \A j, k \in 1..Len(flushed) : flushed[j] = x /\ flushed[k] = y => j < k
        /\ In1(flushed, y) => x \notin Held(req)
        /\ Before(queue, FlushQueues(req), x, y)
    BY OrderFacts
  <1>3. /\ QueuedAt(x) # {} <=> x \in Held(req)
        /\ QueuedAt(x) = {p \in Places(queue, FlushQueues(req)) : At(queue, FlushQueues(req), p) = x}
    BY <1>1, QueuedOnce
  <1>4. QueuedAt(y) = {p \in Places(queue, FlushQueues(req)) : At(queue, FlushQueues(req), p) = y}
    BY <1>1, QueuedOnce
  <1>5. FlushedAt(y) # {} <=> In1(flushed, y)
    BY <1>1, FlushedOnce
  <1>6. \A j \in FlushedAt(x), k \in FlushedAt(y) : j < k
    <2>1. DOMAIN flushed = 1..Len(flushed)
      BY <1>1
    <2> QED BY <1>2, <2>1 DEF FlushedAt
  <1>7. \A p \in QueuedAt(x), q \in QueuedAt(y) : p[1] < q[1] \/ (p[1] = q[1] /\ p[2] < q[2])
    BY <1>2, <1>3, <1>4 DEF Before, Less
  <1>8. FlushedAt(y) # {} => QueuedAt(x) = {}
    BY <1>2, <1>3, <1>5
  <1> QED BY <1>6, <1>7, <1>8

(* The collected values of an item are flushed in the order of collection, *)
(* although they are preprocessed in parallel (preprocessor_enqueue,       *)
(* preprocessor_set_request_state_done), if no internal item is taken out  *)
(* of the configuration and put back.                                      *)
THEOREM PreprocFlushOrder ==
  ASSUME Stable
  PROVE  Spec => []FlushOrder
  <1>1. Init => TailInv /\ PresentInv /\ TopMasters(todo) /\ OrderInv
    BY TailInit, OrderInit
  <1>2. IInv /\ IInv' /\ TailInv /\ PresentInv /\ TopMasters(todo) /\ OrderInv /\ [Next]_vars
          => TailInv' /\ PresentInv' /\ TopMasters(todo)' /\ OrderInv'
    <2> SUFFICES ASSUME IInv, IInv', TailInv, PresentInv, TopMasters(todo), OrderInv, [Next]_vars
                 PROVE  TailInv' /\ PresentInv' /\ TopMasters(todo)' /\ OrderInv'
      OBVIOUS
    <2>1. TypeInv
      BY DEF IInv
    <2>2. TopMasters(todo')
      BY TopMastersNext
    <2>3. TailInv' /\ PresentInv'
      BY <2>1, TailNext, PresentNext
    <2>4. OrderInv'
      BY OrderNext
    <2> QED BY <2>2, <2>3, <2>4
  <1> QED BY <1>1, <1>2, PreprocInvariant, FlushOrderHolds, PTL DEF Spec

==============================================================================
