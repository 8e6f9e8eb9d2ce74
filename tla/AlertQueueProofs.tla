-------------------------- MODULE AlertQueueProofs ---------------------------
(***************************************************************************)
(* Proofs about the three levels of queues of the alert manager: what each *)
(* operation on them does, and that it keeps the counters exact, the pools *)
(* sequential and nothing stranded, for any alerts, pools and media types. *)
(* AlertManagerProofs takes it from there.                                 *)
(***************************************************************************)
EXTENDS AlertManager, FiniteSetTheorems, FunctionTheorems, SequenceTheorems, TLAPS

(* The invariant of the queues.  F is the set of alerts the alerters work  *)
(* on, s holds the queues of the manager.                                  *)

OfType(m) == {a \in Alerts : MediaType[a] = m}
Of(m, p) == {a \in OfType(m) : Pool[a] = p}
QueuedOf(s, m) == {a \in OfType(m) : a \in s.ap[m][Pool[a]].queue}

QueuesRecord == [mt : [MediaTypes -> MediaTypeRecord], ap : [MediaTypes -> [Pools -> PoolRecord]],
                 q : SUBSET MediaTypes]

(* A pool holds alerts of its own that no alerter has, counts them and the *)
(* one that an alerter has, and is queued if it has only the former.       *)
PoolInv(s, F, m, p) ==
    /\ s.ap[m][p].queue \subseteq Of(m, p) \ F
    /\ s.ap[m][p].alerts_num = Cardinality(F \cap Of(m, p)) /\ s.ap[m][p].alerts_num <= 1
    /\ s.ap[m][p].refcount = s.ap[m][p].alerts_num + Cardinality(s.ap[m][p].queue)
    /\ p \in s.mt[m].queue <=> s.ap[m][p].queue # {} /\ s.ap[m][p].alerts_num = 0

(* A media type counts its alerts and is queued if it has a pool to send   *)
(* from, unless the alerts being sent keep it from it.                     *)
MediaInv(s, F, m) ==
    /\ s.mt[m].alerts_num = Cardinality(F \cap OfType(m))
    /\ s.mt[m].refcount = s.mt[m].alerts_num + Cardinality(QueuedOf(s, m))
    /\ m \in s.q => s.mt[m].queue # {}
    /\ s.mt[m].queue # {} => m \in s.q \/ s.mt[m].alerts_num > 0
    /\ ~s.mt[m].exists => s.mt[m] = Absent

QueuesInv(s, F) ==
    /\ s \in QueuesRecord /\ F \subseteq Alerts
    /\ \A m \in MediaTypes : MediaInv(s, F, m) /\ \A p \in Pools : PoolInv(s, F, m, p)

RemovedInUse(s) == \A m \in MediaTypes : s.mt[m].remove => s.mt[m].refcount > 0

(* The alerts the manager has. *)
ActiveIn(s, F) == {a \in Alerts : a \in F \/ a \in s.ap[MediaType[a]][Pool[a]].queue}

------------------------------------------------------------------------------
(* What the operations on the queues do, field by field. *)

(* Every alert has a media type and a pool. *)
LEMMA PlacesOf == \A a \in Alerts : MediaType[a] \in MediaTypes /\ Pool[a] \in Pools
  BY AlertAssumption

(* The counter of alerts is a number of its width. *)
LEMMA CountType == \A n \in Int : Count(n) \in 0..(Modulus - 1)
  BY AlertAssumption DEF Count

(* A record with other counters and another queue, and queues in which     *)
(* only media type m and its pool p are others.                            *)
With(r, n, k, Q) == [r EXCEPT !.alerts_num = n, !.refcount = k, !.queue = Q]
Changed(s, t, m, p, type, pool) ==
    /\ t.mt = [s.mt EXCEPT ![m] = type]
    /\ t.ap = [s.ap EXCEPT ![m] = [@ EXCEPT ![p] = pool]]

(* The fields of a media type and of a pool with other counters. *)
LEMMA WithMediatype ==
  ASSUME NEW r \in MediaTypeRecord, NEW n \in Nat, NEW k \in Nat, NEW Q \in SUBSET Pools, NEW w,
         w = With(r, n, k, Q)
  PROVE  /\ w \in MediaTypeRecord /\ w.exists = r.exists /\ w.remove = r.remove
         /\ w.settings = r.settings /\ w.alerts_num = n /\ w.refcount = k /\ w.queue = Q
  <1>1. w \in MediaTypeRecord
    BY DEF With, MediaTypeRecord
  <1>2. w.settings = r.settings /\ w.alerts_num = n /\ w.refcount = k /\ w.queue = Q
    BY DEF With, MediaTypeRecord
  <1>3. w.exists = r.exists /\ w.remove = r.remove
    BY Zenon DEF With, MediaTypeRecord
  <1> QED BY <1>1, <1>2, <1>3

(* The same for a pool. *)
LEMMA WithPool ==
  ASSUME NEW r \in PoolRecord, NEW n \in Nat, NEW k \in Nat, NEW Q \in SUBSET Alerts, NEW w,
         w = With(r, n, k, Q)
  PROVE  w \in PoolRecord /\ w.alerts_num = n /\ w.refcount = k /\ w.queue = Q
  BY DEF With, PoolRecord

(* The same of a pool that keeps its queue. *)
PoolIs(w, n, k, Q) == w \in PoolRecord /\ w.alerts_num = n /\ w.refcount = k /\ w.queue = Q

LEMMA SameQueue ==
  ASSUME NEW r \in PoolRecord, NEW n \in Nat, NEW k \in Nat
  PROVE  PoolIs(With(r, n, k, r.queue), n, k, r.queue)
  BY DEF PoolIs, With, PoolRecord

(* Changed queues have their type, and the fields that were said. *)
LEMMA ChangedType ==
  ASSUME NEW s \in QueuesRecord, NEW m \in MediaTypes, NEW p \in Pools, NEW type \in MediaTypeRecord,
         NEW pool \in PoolRecord, NEW t, Changed(s, t, m, p, type, pool)
  PROVE  /\ t.mt \in [MediaTypes -> MediaTypeRecord] /\ t.ap \in [MediaTypes -> [Pools -> PoolRecord]]
         /\ t.mt[m] = type /\ t.ap[m][p] = pool
         /\ \A n \in MediaTypes \ {m} : t.mt[n] = s.mt[n] /\ t.ap[n] = s.ap[n]
         /\ \A o \in Pools \ {p} : t.ap[m][o] = s.ap[m][o]
  BY DEF Changed, QueuesRecord

(* Two changes of the same media type and pool are one. *)
LEMMA ChangedTwice ==
  ASSUME NEW s \in QueuesRecord, NEW m \in MediaTypes, NEW p \in Pools, NEW t, NEW u,
         NEW type1, NEW pool1, NEW type2, NEW pool2,
         Changed(s, t, m, p, type1, pool1), Changed(t, u, m, p, type2, pool2)
  PROVE  Changed(s, u, m, p, type2, pool2)
  BY DEF Changed, QueuesRecord

(* The record of the queues is put together from its fields. *)
LEMMA QueuesRecordFields ==
  ASSUME NEW t, t = [mt |-> t.mt, ap |-> t.ap, q |-> t.q],
         t.mt \in [MediaTypes -> MediaTypeRecord], t.ap \in [MediaTypes -> [Pools -> PoolRecord]],
         t.q \in SUBSET MediaTypes
  PROVE  t \in QueuesRecord
  BY DEF QueuesRecord

(* The types of the fields. *)
LEMMA QueuesFields ==
  ASSUME NEW s \in QueuesRecord, NEW m \in MediaTypes, NEW p \in Pools
  PROVE  /\ s.mt[m] \in MediaTypeRecord /\ s.ap[m][p] \in PoolRecord
         /\ s.mt[m].alerts_num \in Nat /\ s.mt[m].refcount \in Nat /\ s.mt[m].queue \in SUBSET Pools
         /\ s.mt[m].settings \in AllSettings /\ s.mt[m].exists \in BOOLEAN /\ s.mt[m].remove \in BOOLEAN
         /\ s.ap[m][p].alerts_num \in Nat /\ s.ap[m][p].refcount \in Nat
         /\ s.ap[m][p].queue \in SUBSET Alerts /\ s.q \in SUBSET MediaTypes
  <1>1. s.mt[m] \in MediaTypeRecord /\ s.ap[m][p] \in PoolRecord /\ s.q \in SUBSET MediaTypes
    BY DEF QueuesRecord
  <1> QED BY <1>1 DEF MediaTypeRecord, PoolRecord

(* am_push_mediatype changes the queue of media types. *)
LEMMA PushMediatypeEffect ==
  ASSUME NEW s \in QueuesRecord, NEW m \in MediaTypes
  PROVE  /\ PushMediatype(s, m) \in QueuesRecord
         /\ PushMediatype(s, m).mt = s.mt /\ PushMediatype(s, m).ap = s.ap
         /\ PushMediatype(s, m).q = IF s.mt[m].queue # {} /\ Room(s.mt[m]) THEN s.q \cup {m} ELSE s.q
  BY DEF QueuesRecord, PushMediatype

(* am_push_alertpool queues the pool if none of its alerts is being sent. *)
LEMMA PushAlertpoolEffect ==
  ASSUME NEW s \in QueuesRecord, NEW m \in MediaTypes, NEW p \in Pools, NEW t, t = PushAlertpool(s, m, p)
  PROVE  /\ t \in QueuesRecord /\ t.q = s.q
         /\ Changed(s, t, m, p,
                    With(s.mt[m], s.mt[m].alerts_num, s.mt[m].refcount,
                         IF s.ap[m][p].alerts_num = 0 THEN s.mt[m].queue \cup {p} ELSE s.mt[m].queue),
                    s.ap[m][p])
  <1> DEFINE Q == IF s.ap[m][p].alerts_num = 0 THEN s.mt[m].queue \cup {p} ELSE s.mt[m].queue
             w == With(s.mt[m], s.mt[m].alerts_num, s.mt[m].refcount, Q)
  <1>0. s.mt[m] \in MediaTypeRecord /\ s.ap[m][p] \in PoolRecord /\ Q \in SUBSET Pools
    BY QueuesFields
  <1>1. t.mt = [s.mt EXCEPT ![m] = w] /\ t.ap = s.ap /\ t.q = s.q /\ t = [mt |-> t.mt, ap |-> t.ap, q |-> t.q]
    <2>1. CASE s.ap[m][p].alerts_num # 0
      <3>1. t = s
        BY <2>1 DEF PushAlertpool, PoolReady
      <3>2. w = s.mt[m]
        BY <2>1, <1>0 DEF With, MediaTypeRecord
      <3> HIDE DEF w
      <3> QED BY <3>1, <3>2 DEF QueuesRecord
    <2>2. CASE s.ap[m][p].alerts_num = 0
      <3>1. t = [s EXCEPT !.mt[m].queue = @ \cup {p}]
        BY <2>2 DEF PushAlertpool, PoolReady
      <3>2. w = [s.mt[m] EXCEPT !.queue = @ \cup {p}]
        BY <2>2, <1>0 DEF With, MediaTypeRecord
      <3> HIDE DEF w
      <3> QED BY <3>1, <3>2 DEF QueuesRecord
    <2> QED BY <2>1, <2>2
  <1>2. w \in MediaTypeRecord
    BY <1>0, WithMediatype, QueuesFields
  <1> HIDE DEF w
  <1>3. Changed(s, t, m, p, w, s.ap[m][p])
    BY <1>1 DEF Changed, QueuesRecord
  <1>4. t \in QueuesRecord
    <2>1. t.mt \in [MediaTypes -> MediaTypeRecord] /\ t.ap \in [MediaTypes -> [Pools -> PoolRecord]]
      BY <1>0, <1>2, <1>3, ChangedType
    <2>2. t.q \in SUBSET MediaTypes
      BY <1>1, QueuesFields
    <2> QED BY <1>1, <2>1, <2>2, QueuesRecordFields
  <1> QED BY <1>1, <1>3, <1>4 DEF w

(* The steps of am_pop_alert, am_remove_alert and am_retry_alert before    *)
(* anything is pushed.                                                     *)
Popped(s, m, p, a) ==
    [s EXCEPT !.q = @ \ {m},
              !.mt[m].queue = @ \ {p}, !.mt[m].alerts_num = @ + 1,
              !.ap[m][p].queue = @ \ {a}, !.ap[m][p].alerts_num = @ + 1]
Removed(s, m, p) ==
    [s EXCEPT !.mt[m].alerts_num = @ - 1, !.mt[m].refcount = @ - 1,
              !.ap[m][p].alerts_num = @ - 1, !.ap[m][p].refcount = @ - 1]
Retried(s, m, p, a) ==
    [s EXCEPT !.mt[m].alerts_num = @ - 1, !.ap[m][p].alerts_num = @ - 1,
              !.ap[m][p].queue = @ \cup {a}]

(* The step of am_pop_alert before the media type is pushed back. *)
LEMMA PoppedEffect ==
  ASSUME NEW s \in QueuesRecord, NEW m \in MediaTypes, NEW p \in Pools, NEW a, NEW u,
         u = Popped(s, m, p, a)
  PROVE  /\ u \in QueuesRecord /\ u.q = s.q \ {m}
         /\ Changed(s, u, m, p,
                    With(s.mt[m], s.mt[m].alerts_num + 1, s.mt[m].refcount, s.mt[m].queue \ {p}),
                    With(s.ap[m][p], s.ap[m][p].alerts_num + 1, s.ap[m][p].refcount, s.ap[m][p].queue \ {a}))
  <1> DEFINE g == s.ap[m]
             r == g[p]
             type == With(s.mt[m], s.mt[m].alerts_num + 1, s.mt[m].refcount, s.mt[m].queue \ {p})
             pool == With(r, r.alerts_num + 1, r.refcount, r.queue \ {a})
  <1>0. /\ s.mt[m] \in MediaTypeRecord /\ r \in PoolRecord
        /\ s.mt[m].alerts_num + 1 \in Nat /\ s.mt[m].refcount \in Nat /\ s.mt[m].queue \ {p} \in SUBSET Pools
        /\ r.alerts_num + 1 \in Nat /\ r.refcount \in Nat /\ r.queue \ {a} \in SUBSET Alerts
    BY QueuesFields
  <1>1. type \in MediaTypeRecord /\ pool \in PoolRecord
    <2>1. type \in MediaTypeRecord
      BY <1>0, WithMediatype
    <2>2. pool \in PoolRecord
      BY <1>0, WithPool
    <2> QED BY <2>1, <2>2
  <1>2. u.mt = [s.mt EXCEPT ![m] = type]
    BY DEF Popped, QueuesRecord, With, MediaTypeRecord
  <1>3. u.ap = [s.ap EXCEPT ![m] = [g EXCEPT ![p] = pool]]
    <2>1. u.ap = [s.ap EXCEPT ![m][p].queue = @ \ {a}, ![m][p].alerts_num = @ + 1]
      BY DEF Popped, QueuesRecord
    <2>0. s.ap \in [MediaTypes -> [Pools -> PoolRecord]]
      BY DEF QueuesRecord
    <2>2. u.ap = [s.ap EXCEPT ![m] = [g EXCEPT ![p] = [r EXCEPT !.queue = @ \ {a}, !.alerts_num = @ + 1]]]
      BY <2>0, <2>1
    <2>3. [r EXCEPT !.queue = @ \ {a}, !.alerts_num = @ + 1] = pool
      BY QueuesFields DEF PoolRecord, With
    <2> QED BY <2>2, <2>3
  <1>4. u.q = s.q \ {m} /\ u = [mt |-> u.mt, ap |-> u.ap, q |-> u.q] /\ s.q \in SUBSET MediaTypes
    BY DEF Popped, QueuesRecord
  <1> HIDE DEF type, pool
  <1>5. Changed(s, u, m, p, type, pool)
    BY <1>2, <1>3 DEF Changed
  <1>6. u \in QueuesRecord
    <2>0. s.mt \in [MediaTypes -> MediaTypeRecord] /\ s.ap \in [MediaTypes -> [Pools -> PoolRecord]]
      BY DEF QueuesRecord
    <2>1. u.mt \in [MediaTypes -> MediaTypeRecord] /\ u.ap \in [MediaTypes -> [Pools -> PoolRecord]]
      BY <2>0, <1>1, <1>2, <1>3
    <2>2. u.q \in SUBSET MediaTypes
      BY <1>4
    <2> QED BY <1>4, <2>1, <2>2, QueuesRecordFields
  <1> QED BY <1>4, <1>5, <1>6 DEF type, pool

(* am_remove_alert counts an alert less. *)
LEMMA RemovedEffect ==
  ASSUME NEW s \in QueuesRecord, NEW m \in MediaTypes, NEW p \in Pools, NEW u,
         u = Removed(s, m, p),
         s.mt[m].alerts_num > 0, s.mt[m].refcount > 0, s.ap[m][p].alerts_num > 0, s.ap[m][p].refcount > 0
  PROVE  /\ u \in QueuesRecord /\ u.q = s.q
         /\ Changed(s, u, m, p,
                    With(s.mt[m], s.mt[m].alerts_num - 1, s.mt[m].refcount - 1, s.mt[m].queue),
                    With(s.ap[m][p], s.ap[m][p].alerts_num - 1, s.ap[m][p].refcount - 1, s.ap[m][p].queue))
  <1> DEFINE g == s.ap[m]
             r == g[p]
             type == With(s.mt[m], s.mt[m].alerts_num - 1, s.mt[m].refcount - 1, s.mt[m].queue)
             pool == With(r, r.alerts_num - 1, r.refcount - 1, r.queue)
  <1>0. /\ s.mt[m] \in MediaTypeRecord /\ r \in PoolRecord
        /\ s.mt[m].alerts_num - 1 \in Nat /\ s.mt[m].refcount - 1 \in Nat /\ s.mt[m].queue \in SUBSET Pools
        /\ r.alerts_num - 1 \in Nat /\ r.refcount - 1 \in Nat /\ r.queue \in SUBSET Alerts
    BY QueuesFields
  <1>1. type \in MediaTypeRecord /\ pool \in PoolRecord
    <2>1. type \in MediaTypeRecord
      BY <1>0, WithMediatype
    <2>2. pool \in PoolRecord
      BY <1>0, WithPool
    <2> QED BY <2>1, <2>2
  <1>2. u.mt = [s.mt EXCEPT ![m] = type]
    BY DEF Removed, QueuesRecord, With, MediaTypeRecord
  <1>3. u.ap = [s.ap EXCEPT ![m] = [g EXCEPT ![p] = pool]]
    <2>1. u.ap = [s.ap EXCEPT ![m][p].alerts_num = @ - 1, ![m][p].refcount = @ - 1]
      BY DEF Removed, QueuesRecord
    <2>0. s.ap \in [MediaTypes -> [Pools -> PoolRecord]]
      BY DEF QueuesRecord
    <2>2. u.ap = [s.ap EXCEPT ![m] = [g EXCEPT ![p] = [r EXCEPT !.alerts_num = @ - 1, !.refcount = @ - 1]]]
      BY <2>0, <2>1
    <2>3. [r EXCEPT !.alerts_num = @ - 1, !.refcount = @ - 1] = pool
      BY QueuesFields DEF PoolRecord, With
    <2> QED BY <2>2, <2>3
  <1>4. u.q = s.q /\ u = [mt |-> u.mt, ap |-> u.ap, q |-> u.q] /\ s.q \in SUBSET MediaTypes
    BY DEF Removed, QueuesRecord
  <1> HIDE DEF type, pool
  <1>5. Changed(s, u, m, p, type, pool)
    BY <1>2, <1>3 DEF Changed
  <1>6. u \in QueuesRecord
    <2>0. s.mt \in [MediaTypes -> MediaTypeRecord] /\ s.ap \in [MediaTypes -> [Pools -> PoolRecord]]
      BY DEF QueuesRecord
    <2>1. u.mt \in [MediaTypes -> MediaTypeRecord] /\ u.ap \in [MediaTypes -> [Pools -> PoolRecord]]
      BY <2>0, <1>1, <1>2, <1>3
    <2>2. u.q \in SUBSET MediaTypes
      BY <1>4
    <2> QED BY <1>4, <2>1, <2>2, QueuesRecordFields
  <1> QED BY <1>4, <1>5, <1>6 DEF type, pool

(* am_retry_alert puts an alert back. *)
LEMMA RetriedEffect ==
  ASSUME NEW s \in QueuesRecord, NEW m \in MediaTypes, NEW p \in Pools, NEW a \in Alerts, NEW u,
         u = Retried(s, m, p, a),
         s.mt[m].alerts_num > 0, s.ap[m][p].alerts_num > 0
  PROVE  /\ u \in QueuesRecord /\ u.q = s.q
         /\ Changed(s, u, m, p,
                    With(s.mt[m], s.mt[m].alerts_num - 1, s.mt[m].refcount, s.mt[m].queue),
                    With(s.ap[m][p], s.ap[m][p].alerts_num - 1, s.ap[m][p].refcount,
                         s.ap[m][p].queue \cup {a}))
  <1> DEFINE g == s.ap[m]
             r == g[p]
             type == With(s.mt[m], s.mt[m].alerts_num - 1, s.mt[m].refcount, s.mt[m].queue)
             pool == With(r, r.alerts_num - 1, r.refcount, r.queue \cup {a})
  <1>0. /\ s.mt[m] \in MediaTypeRecord /\ r \in PoolRecord
        /\ s.mt[m].alerts_num - 1 \in Nat /\ s.mt[m].refcount \in Nat /\ s.mt[m].queue \in SUBSET Pools
        /\ r.alerts_num - 1 \in Nat /\ r.refcount \in Nat /\ r.queue \cup {a} \in SUBSET Alerts
    BY QueuesFields
  <1>1. type \in MediaTypeRecord /\ pool \in PoolRecord
    <2>1. type \in MediaTypeRecord
      BY <1>0, WithMediatype
    <2>2. pool \in PoolRecord
      BY <1>0, WithPool
    <2> QED BY <2>1, <2>2
  <1>2. u.mt = [s.mt EXCEPT ![m] = type]
    BY DEF Retried, QueuesRecord, With, MediaTypeRecord
  <1>3. u.ap = [s.ap EXCEPT ![m] = [g EXCEPT ![p] = pool]]
    <2>1. u.ap = [s.ap EXCEPT ![m][p].alerts_num = @ - 1, ![m][p].queue = @ \cup {a}]
      BY DEF Retried, QueuesRecord
    <2>0. s.ap \in [MediaTypes -> [Pools -> PoolRecord]]
      BY DEF QueuesRecord
    <2>2. u.ap = [s.ap EXCEPT ![m] = [g EXCEPT ![p] = [r EXCEPT !.alerts_num = @ - 1, !.queue = @ \cup {a}]]]
      BY <2>0, <2>1
    <2>3. [r EXCEPT !.alerts_num = @ - 1, !.queue = @ \cup {a}] = pool
      BY QueuesFields DEF PoolRecord, With
    <2> QED BY <2>2, <2>3
  <1>4. u.q = s.q /\ u = [mt |-> u.mt, ap |-> u.ap, q |-> u.q] /\ s.q \in SUBSET MediaTypes
    BY DEF Retried, QueuesRecord
  <1> HIDE DEF type, pool
  <1>5. Changed(s, u, m, p, type, pool)
    BY <1>2, <1>3 DEF Changed
  <1>6. u \in QueuesRecord
    <2>0. s.mt \in [MediaTypes -> MediaTypeRecord] /\ s.ap \in [MediaTypes -> [Pools -> PoolRecord]]
      BY DEF QueuesRecord
    <2>1. u.mt \in [MediaTypes -> MediaTypeRecord] /\ u.ap \in [MediaTypes -> [Pools -> PoolRecord]]
      BY <2>0, <1>1, <1>2, <1>3
    <2>2. u.q \in SUBSET MediaTypes
      BY <1>4
    <2> QED BY <1>4, <2>1, <2>2, QueuesRecordFields
  <1> QED BY <1>4, <1>5, <1>6 DEF type, pool

(* The operations, given the media type and the pool of the alert. *)
PopAt(s, m, p, a) == PushMediatype(Popped(s, m, p, a), m)
DropPool(s, m, p) ==
    IF s.ap[m][p].refcount = 0 THEN [s EXCEPT !.ap[m][p] = NoPool] ELSE PushAlertpool(s, m, p)
DropMediatype(s, m) ==
    IF s.mt[m].refcount # 0 THEN PushMediatype(s, m)
    ELSE IF s.mt[m].remove THEN [s EXCEPT !.mt[m] = Absent] ELSE s
RemoveAt(s, m, p) == DropMediatype(DropPool(Removed(s, m, p), m, p), m)
RetryAt(s, m, p, a) == PushMediatype(PushAlertpool(Retried(s, m, p, a), m, p), m)

(* They are the operations of the manager. *)
LEMMA OperationsAt ==
  ASSUME NEW s, NEW a
  PROVE  /\ PopAlert(s, a) = PopAt(s, MediaType[a], Pool[a], a)
         /\ RemoveAlert(s, a) = RemoveAt(s, MediaType[a], Pool[a])
         /\ RetryAlert(s, a) = RetryAt(s, MediaType[a], Pool[a], a)
  <1>1. PopAlert(s, a) = PopAt(s, MediaType[a], Pool[a], a)
    BY Zenon DEF PopAlert, PopAt, Popped
  <1>2. RemoveAlert(s, a) = RemoveAt(s, MediaType[a], Pool[a])
    BY Zenon DEF RemoveAlert, RemoveAt, Removed, DropPool, DropMediatype
  <1>3. RetryAlert(s, a) = RetryAt(s, MediaType[a], Pool[a], a)
    BY Zenon DEF RetryAlert, RetryAt, Retried
  <1> QED BY <1>1, <1>2, <1>3

(* am_pop_alert *)
LEMMA PopAlertEffect ==
  ASSUME NEW s \in QueuesRecord, NEW m \in MediaTypes, NEW p \in Pools, NEW a \in Alerts,
         NEW t, t = PopAt(s, m, p, a)
  PROVE  LET type == With(s.mt[m], s.mt[m].alerts_num + 1, s.mt[m].refcount, s.mt[m].queue \ {p})
             pool == With(s.ap[m][p], s.ap[m][p].alerts_num + 1, s.ap[m][p].refcount, s.ap[m][p].queue \ {a})
         IN /\ t \in QueuesRecord
            /\ Changed(s, t, m, p, type, pool)
            /\ t.q = IF type.queue # {} /\ Room(type) THEN s.q \cup {m} ELSE s.q \ {m}
  <1> DEFINE type == With(s.mt[m], s.mt[m].alerts_num + 1, s.mt[m].refcount, s.mt[m].queue \ {p})
             pool == With(s.ap[m][p], s.ap[m][p].alerts_num + 1, s.ap[m][p].refcount, s.ap[m][p].queue \ {a})
             u == Popped(s, m, p, a)
  <1>2. t = PushMediatype(u, m)
    BY DEF PopAt
  <1>3. u \in QueuesRecord /\ u.q = s.q \ {m} /\ Changed(s, u, m, p, type, pool)
    BY PoppedEffect
  <1> HIDE DEF u, type, pool
  <1>4. /\ t \in QueuesRecord /\ t.mt = u.mt /\ t.ap = u.ap
        /\ t.q = IF u.mt[m].queue # {} /\ Room(u.mt[m]) THEN u.q \cup {m} ELSE u.q
    BY <1>2, <1>3, PushMediatypeEffect
  <1>5. Changed(s, t, m, p, type, pool)
    BY <1>3, <1>4 DEF Changed
  <1>6. u.mt[m] = type
    BY <1>3 DEF Changed, QueuesRecord
  <1>7. t.q = IF type.queue # {} /\ Room(type) THEN s.q \cup {m} ELSE s.q \ {m}
    BY <1>3, <1>4, <1>6
  <1> QED BY <1>4, <1>5, <1>7 DEF type, pool

(* am_remove_alert *)
LEMMA RemoveAlertEffect ==
  ASSUME NEW s \in QueuesRecord, NEW m \in MediaTypes, NEW p \in Pools, NEW a \in Alerts,
         NEW t, t = RemoveAt(s, m, p),
         s.mt[m].alerts_num > 0, s.mt[m].refcount > 0, s.ap[m][p].alerts_num > 0, s.ap[m][p].refcount > 0
  PROVE  LET n == s.ap[m][p].alerts_num - 1
             k == s.ap[m][p].refcount - 1
             j == s.mt[m].refcount - 1
             pool == IF k = 0 THEN NoPool ELSE With(s.ap[m][p], n, k, s.ap[m][p].queue)
             Q == IF k # 0 /\ n = 0 THEN s.mt[m].queue \cup {p} ELSE s.mt[m].queue
             kept == With(s.mt[m], s.mt[m].alerts_num - 1, j, Q)
         IN /\ t \in QueuesRecord
            /\ Changed(s, t, m, p, IF j = 0 /\ s.mt[m].remove THEN Absent ELSE kept, pool)
            /\ t.q = IF j # 0 /\ Q # {} /\ Room(kept) THEN s.q \cup {m} ELSE s.q
  <1> DEFINE n == s.ap[m][p].alerts_num - 1
             k == s.ap[m][p].refcount - 1
             i == s.mt[m].alerts_num - 1
             j == s.mt[m].refcount - 1
             pool0 == With(s.ap[m][p], n, k, s.ap[m][p].queue)
             pool == IF k = 0 THEN NoPool ELSE pool0
             Q == IF k # 0 /\ n = 0 THEN s.mt[m].queue \cup {p} ELSE s.mt[m].queue
             type0 == With(s.mt[m], i, j, s.mt[m].queue)
             kept == With(s.mt[m], i, j, Q)
             r == Removed(s, m, p)
             u == DropPool(r, m, p)
  <1>2. t = DropMediatype(u, m)
    BY DEF RemoveAt
  <1>3. r \in QueuesRecord /\ r.q = s.q /\ Changed(s, r, m, p, type0, pool0)
    BY RemovedEffect
  <1>4. /\ s.mt[m] \in MediaTypeRecord /\ s.ap[m][p] \in PoolRecord
        /\ n \in Nat /\ k \in Nat /\ i \in Nat /\ j \in Nat /\ Q \in SUBSET Pools
        /\ s.mt[m].queue \in SUBSET Pools /\ s.ap[m][p].queue \in SUBSET Alerts
    BY QueuesFields
  <1> HIDE DEF n, k, i, j, Q, r, u
  <1>5. /\ type0 \in MediaTypeRecord /\ type0.alerts_num = i /\ type0.refcount = j
        /\ type0.queue = s.mt[m].queue
    BY <1>4, WithMediatype
  <1>6. pool0 \in PoolRecord /\ pool0.alerts_num = n /\ pool0.refcount = k
    BY <1>4, WithPool
  <1>7. kept \in MediaTypeRecord /\ kept.refcount = j /\ kept.remove = s.mt[m].remove /\ kept.queue = Q
    BY <1>4, WithMediatype
  <1>8. r.mt[m] = type0 /\ r.ap[m][p] = pool0
    BY <1>3 DEF Changed, QueuesRecord
  <1>9. u \in QueuesRecord /\ u.q = s.q /\ Changed(s, u, m, p, kept, pool)
    <2>1. CASE k = 0
      <3>1. u = [r EXCEPT !.ap[m][p] = NoPool]
        BY <1>6, <1>8, <2>1 DEF DropPool, u
      <3>2. NoPool \in PoolRecord
        BY DEF NoPool, PoolRecord
      <3>3. kept = type0 /\ pool = NoPool
        BY <2>1 DEF Q
      <3> HIDE DEF u, kept, type0, pool, pool0
      <3>4. u.mt = r.mt /\ u.q = r.q /\ u.ap = [r.ap EXCEPT ![m] = [@ EXCEPT ![p] = NoPool]]
            /\ u = [mt |-> u.mt, ap |-> u.ap, q |-> u.q]
        BY <1>3, <3>1 DEF QueuesRecord
      <3>a. r.mt = [r.mt EXCEPT ![m] = type0]
        BY <1>3, <1>8 DEF QueuesRecord
      <3>b. Changed(r, u, m, p, type0, NoPool)
        BY <3>4, <3>a DEF Changed
      <3>c. u.mt \in [MediaTypes -> MediaTypeRecord] /\ u.ap \in [MediaTypes -> [Pools -> PoolRecord]]
        BY <1>3, <1>5, <3>2, <3>b, ChangedType
      <3>5. Changed(s, u, m, p, kept, pool)
        <4>1. Changed(s, u, m, p, type0, NoPool)
          BY <1>3, <3>b, ChangedTwice
        <4> QED BY <3>3, <4>1
      <3>6. u \in QueuesRecord
        <4>1. u.q \in SUBSET MediaTypes
          BY <1>3, <3>4 DEF QueuesRecord
        <4> QED BY <3>4, <3>c, <4>1, QueuesRecordFields
      <3> QED BY <1>3, <3>4, <3>5, <3>6
    <2>2. CASE k # 0
      <3>1. u = PushAlertpool(r, m, p) /\ pool = pool0
        BY <1>6, <1>8, <2>2 DEF DropPool, u
      <3>2. Q = IF pool0.alerts_num = 0 THEN type0.queue \cup {p} ELSE type0.queue
        BY <1>5, <1>6, <2>2 DEF Q
      <3>3. With(type0, i, j, Q) = kept
        BY <1>4 DEF With, MediaTypeRecord
      <3> HIDE DEF u, kept, pool, pool0
      <3>4. u \in QueuesRecord /\ u.q = r.q /\ Changed(r, u, m, p, With(type0, i, j, Q), pool0)
        <4> HIDE DEF type0
        <4> QED BY <1>3, <1>5, <1>8, <3>1, <3>2, PushAlertpoolEffect
      <3>5. Changed(r, u, m, p, kept, pool)
        <4> HIDE DEF type0
        <4> QED BY <3>1, <3>3, <3>4
      <3>6. Changed(s, u, m, p, kept, pool)
        BY <1>3, <3>5, ChangedTwice
      <3> QED BY <1>3, <3>4, <3>6
    <2> QED BY <2>1, <2>2
  <1> HIDE DEF u, kept, type0, pool, pool0
  <1>10. u.mt[m] = kept
    BY <1>9 DEF Changed, QueuesRecord
  <1>11. CASE j # 0
    <2>1. t = PushMediatype(u, m)
      BY <1>2, <1>7, <1>10, <1>11 DEF DropMediatype
    <2>2. /\ t \in QueuesRecord /\ t.mt = u.mt /\ t.ap = u.ap
          /\ t.q = IF Q # {} /\ Room(kept) THEN s.q \cup {m} ELSE s.q
      BY <1>7, <1>9, <1>10, <2>1, PushMediatypeEffect
    <2>3. Changed(s, t, m, p, kept, pool)
      BY <1>9, <2>2 DEF Changed
    <2> QED BY <1>11, <2>2, <2>3 DEF n, k, j, i, Q, pool, pool0, kept
  <1>12. CASE j = 0 /\ s.mt[m].remove
    <2>1. t = [u EXCEPT !.mt[m] = Absent]
      BY <1>2, <1>7, <1>10, <1>12 DEF DropMediatype
    <2>2. Absent \in MediaTypeRecord
      BY DEF Absent, MediaTypeRecord, AllSettings
    <2>3. /\ t.mt = [u.mt EXCEPT ![m] = Absent] /\ t.ap = u.ap /\ t.q = u.q
          /\ t = [mt |-> t.mt, ap |-> t.ap, q |-> t.q]
      BY <1>9, <2>1 DEF QueuesRecord
    <2>4. t \in QueuesRecord
      BY <1>9, <2>2, <2>3 DEF QueuesRecord
    <2>5. Changed(s, t, m, p, Absent, pool)
      BY <1>9, <2>3 DEF Changed, QueuesRecord
    <2> QED BY <1>9, <1>12, <2>3, <2>4, <2>5 DEF n, k, j, i, Q, pool, pool0, kept
  <1>13. CASE j = 0 /\ ~s.mt[m].remove
    <2>1. t = u
      BY <1>2, <1>7, <1>10, <1>13 DEF DropMediatype
    <2> QED BY <1>9, <1>13, <2>1 DEF n, k, j, i, Q, pool, pool0, kept
  <1> QED BY <1>11, <1>12, <1>13

(* What am_retry_alert does. *)
RetriedTo(s, t, m, p, a) ==
    LET n == s.ap[m][p].alerts_num - 1
        pool == With(s.ap[m][p], n, s.ap[m][p].refcount, s.ap[m][p].queue \cup {a})
        Q == IF n = 0 THEN s.mt[m].queue \cup {p} ELSE s.mt[m].queue
        type == With(s.mt[m], s.mt[m].alerts_num - 1, s.mt[m].refcount, Q)
    IN /\ t \in QueuesRecord
       /\ Changed(s, t, m, p, type, pool)
       /\ t.q = IF Q # {} /\ Room(type) THEN s.q \cup {m} ELSE s.q

(* am_retry_alert *)
LEMMA RetryAlertEffect ==
  ASSUME NEW s \in QueuesRecord, NEW m \in MediaTypes, NEW p \in Pools, NEW a \in Alerts,
         NEW t, t = RetryAt(s, m, p, a), s.mt[m].alerts_num > 0, s.ap[m][p].alerts_num > 0
  PROVE  RetriedTo(s, t, m, p, a)
  <1> DEFINE n == s.ap[m][p].alerts_num - 1
             i == s.mt[m].alerts_num - 1
             j == s.mt[m].refcount
             pool == With(s.ap[m][p], n, s.ap[m][p].refcount, s.ap[m][p].queue \cup {a})
             Q == IF n = 0 THEN s.mt[m].queue \cup {p} ELSE s.mt[m].queue
             type0 == With(s.mt[m], i, j, s.mt[m].queue)
             type == With(s.mt[m], i, j, Q)
             r == Retried(s, m, p, a)
             u == PushAlertpool(r, m, p)
  <1>2. t = PushMediatype(u, m)
    BY DEF RetryAt
  <1>3. r \in QueuesRecord /\ r.q = s.q /\ Changed(s, r, m, p, type0, pool)
    BY RetriedEffect
  <1>4. /\ s.mt[m] \in MediaTypeRecord /\ s.ap[m][p] \in PoolRecord
        /\ n \in Nat /\ s.ap[m][p].refcount \in Nat /\ i \in Nat /\ j \in Nat /\ Q \in SUBSET Pools
        /\ s.mt[m].queue \in SUBSET Pools /\ s.ap[m][p].queue \cup {a} \in SUBSET Alerts
    BY QueuesFields
  <1> HIDE DEF n, i, j, Q, r, u
  <1>5. /\ type0 \in MediaTypeRecord /\ type0.alerts_num = i /\ type0.refcount = j
        /\ type0.queue = s.mt[m].queue
    BY <1>4, WithMediatype
  <1>6. pool \in PoolRecord /\ pool.alerts_num = n
    BY <1>4, WithPool
  <1>7. type \in MediaTypeRecord /\ type.queue = Q
    BY <1>4, WithMediatype
  <1>8. r.mt[m] = type0 /\ r.ap[m][p] = pool
    BY <1>3, <1>5, <1>6, ChangedType
  <1>9. Q = IF pool.alerts_num = 0 THEN type0.queue \cup {p} ELSE type0.queue
    BY <1>5, <1>6 DEF Q
  <1>10. With(type0, i, j, Q) = type
    BY <1>4 DEF With, MediaTypeRecord
  <1> HIDE DEF type, type0, pool
  <1>11. u \in QueuesRecord /\ u.q = r.q /\ Changed(r, u, m, p, With(type0, i, j, Q), pool)
    BY <1>3, <1>5, <1>8, <1>9, PushAlertpoolEffect DEF u
  <1>12. Changed(r, u, m, p, type, pool)
    BY <1>10, <1>11
  <1>13. Changed(s, u, m, p, type, pool)
    BY <1>3, <1>12, ChangedTwice
  <1>14. u.mt[m] = type
    BY <1>3, <1>12 DEF Changed, QueuesRecord
  <1>15. /\ t \in QueuesRecord /\ t.mt = u.mt /\ t.ap = u.ap
         /\ t.q = IF Q # {} /\ Room(type) THEN s.q \cup {m} ELSE s.q
    <2>1. /\ t \in QueuesRecord /\ t.mt = u.mt /\ t.ap = u.ap
          /\ t.q = IF u.mt[m].queue # {} /\ Room(u.mt[m]) THEN u.q \cup {m} ELSE u.q
      BY <1>2, <1>11, PushMediatypeEffect
    <2>2. u.q = s.q
      BY <1>3, <1>11
    <2> QED BY <1>7, <1>14, <2>1, <2>2
  <1>16. Changed(s, t, m, p, type, pool)
    BY <1>13, <1>15 DEF Changed
  <1> QED BY <1>15, <1>16 DEF RetriedTo, n, i, j, Q, pool, type

------------------------------------------------------------------------------
(* The operations keep the invariant of the queues. *)

(* Sets of alerts are finite. *)
LEMMA FiniteAlerts == \A S \in SUBSET Alerts : IsFiniteSet(S) /\ Cardinality(S) \in Nat
  BY AlertAssumption, FS_Subset, FS_CardinalityType

(* What is in the pools of a media type, and what the alerters have of it, *)
(* are sets of alerts.                                                     *)
LEMMA OfSubset ==
  \A m, p, s : /\ OfType(m) \in SUBSET Alerts /\ Of(m, p) \in SUBSET OfType(m)
               /\ QueuedOf(s, m) \in SUBSET Alerts
  BY DEF OfType, Of, QueuedOf

(* The invariant follows from what it says of the media type and the pool  *)
(* that changed.                                                           *)
LEMMA ChangedInv ==
  ASSUME NEW s, NEW F, QueuesInv(s, F), NEW m \in MediaTypes, NEW p \in Pools,
         NEW t \in QueuesRecord, NEW type \in MediaTypeRecord, NEW pool \in PoolRecord,
         Changed(s, t, m, p, type, pool),
         NEW G \in SUBSET Alerts, \A b \in Alerts \ Of(m, p) : b \in G <=> b \in F,
         \A n \in MediaTypes \ {m} : n \in t.q <=> n \in s.q,
         \A o \in Pools \ {p} : o \in type.queue <=> o \in s.mt[m].queue,
         PoolInv(t, G, m, p), MediaInv(t, G, m)
  PROVE  QueuesInv(t, G)
  <1>0. s \in QueuesRecord /\ F \in SUBSET Alerts
    BY DEF QueuesInv
  <1>1. /\ t.mt[m] = type
        /\ \A n \in MediaTypes \ {m} : t.mt[n] = s.mt[n] /\ t.ap[n] = s.ap[n]
        /\ \A o \in Pools \ {p} : t.ap[m][o] = s.ap[m][o]
    BY <1>0, ChangedType
  <1>2. ASSUME NEW n \in MediaTypes, NEW o \in Pools, n # m \/ o # p
        PROVE  PoolInv(t, G, n, o)
    <2>1. G \cap Of(n, o) = F \cap Of(n, o)
      BY <1>2 DEF Of, OfType
    <2>2. t.ap[n][o] = s.ap[n][o] /\ (o \in t.mt[n].queue <=> o \in s.mt[n].queue)
      BY <1>1, <1>2
    <2>3. PoolInv(s, F, n, o)
      BY DEF QueuesInv
    <2>4. s.ap[n][o].queue \subseteq Of(n, o) \ G
      BY <2>1, <2>3 DEF PoolInv
    <2> QED BY <2>1, <2>2, <2>3, <2>4 DEF PoolInv
  <1>3. ASSUME NEW n \in MediaTypes \ {m}
        PROVE  MediaInv(t, G, n)
    <2>1. G \cap OfType(n) = F \cap OfType(n)
      BY DEF Of, OfType
    <2>2. t.mt[n] = s.mt[n] /\ t.ap[n] = s.ap[n] /\ (n \in t.q <=> n \in s.q)
      BY <1>1
    <2>3. QueuedOf(t, n) = QueuedOf(s, n)
      BY <2>2 DEF QueuedOf
    <2>4. MediaInv(s, F, n)
      BY DEF QueuesInv
    <2> QED BY <2>1, <2>2, <2>3, <2>4 DEF MediaInv
  <1> QED BY <1>2, <1>3 DEF QueuesInv

(* What is queued of a media type after its pool p changed. *)
LEMMA QueuedChanged ==
  ASSUME NEW s, NEW F, QueuesInv(s, F), NEW m \in MediaTypes, NEW p \in Pools,
         NEW t, NEW type \in MediaTypeRecord, NEW pool \in PoolRecord, pool.queue \subseteq Of(m, p),
         Changed(s, t, m, p, type, pool)
  PROVE  /\ QueuedOf(t, m) = (QueuedOf(s, m) \ s.ap[m][p].queue) \cup pool.queue
         /\ s.ap[m][p].queue \subseteq QueuedOf(s, m)
         /\ \A a \in Alerts : a \in t.ap[MediaType[a]][Pool[a]].queue <=>
               IF a \in Of(m, p) THEN a \in pool.queue ELSE a \in s.ap[MediaType[a]][Pool[a]].queue
  <1>0. s \in QueuesRecord /\ PoolInv(s, F, m, p)
    BY DEF QueuesInv
  <1>1. /\ t.ap[m][p] = pool
        /\ \A n \in MediaTypes \ {m} : t.ap[n] = s.ap[n]
        /\ \A o \in Pools \ {p} : t.ap[m][o] = s.ap[m][o]
    BY <1>0, ChangedType
  <1>2. s.ap[m][p].queue \subseteq Of(m, p)
    BY <1>0 DEF PoolInv
  <1>3. s.ap[m][p].queue \subseteq QueuedOf(s, m)
    BY <1>2 DEF QueuedOf, Of
  <1>4. ASSUME NEW a \in Alerts
        PROVE  a \in t.ap[MediaType[a]][Pool[a]].queue <=>
                 IF a \in Of(m, p) THEN a \in pool.queue ELSE a \in s.ap[MediaType[a]][Pool[a]].queue
    <2>0. MediaType[a] \in MediaTypes /\ Pool[a] \in Pools
      BY PlacesOf
    <2>1. CASE MediaType[a] = m /\ Pool[a] = p
      BY <1>1, <2>1 DEF Of, OfType
    <2>2. CASE MediaType[a] = m /\ Pool[a] # p
      BY <1>1, <2>0, <2>2 DEF Of, OfType
    <2>3. CASE MediaType[a] # m
      BY <1>1, <2>0, <2>3 DEF Of, OfType
    <2> QED BY <2>1, <2>2, <2>3
  <1>5. QueuedOf(t, m) = (QueuedOf(s, m) \ s.ap[m][p].queue) \cup pool.queue
    BY <1>1, <1>2, <1>4, PlacesOf DEF QueuedOf, Of, OfType
  <1> QED BY <1>3, <1>4, <1>5

(* Alert a may be popped. *)
PopKeeps(s, F, a) ==
    /\ QueuesInv(PopAlert(s, a), F \cup {a}) /\ a \notin F
    /\ ActiveIn(PopAlert(s, a), F \cup {a}) = ActiveIn(s, F)
    /\ \A n \in MediaTypes : /\ PopAlert(s, a).mt[n].exists = s.mt[n].exists
                             /\ PopAlert(s, a).mt[n].remove = s.mt[n].remove
                             /\ PopAlert(s, a).mt[n].refcount = s.mt[n].refcount
                             /\ PopAlert(s, a).mt[n].settings = s.mt[n].settings

(* The first alert of a pool is given to an alerter. *)
LEMMA PopAlertInv ==
  ASSUME NEW s, NEW F, QueuesInv(s, F), NEW a \in Alerts,
         Pool[a] \in s.mt[MediaType[a]].queue, a \in s.ap[MediaType[a]][Pool[a]].queue
  PROVE  PopKeeps(s, F, a)
  <1> DEFINE m == MediaType[a]
             p == Pool[a]
             t == PopAt(s, m, p, a)
             type == With(s.mt[m], s.mt[m].alerts_num + 1, s.mt[m].refcount, s.mt[m].queue \ {p})
             pool == With(s.ap[m][p], s.ap[m][p].alerts_num + 1, s.ap[m][p].refcount, s.ap[m][p].queue \ {a})
             G == F \cup {a}
  <1>0. t = PopAlert(s, a)
    BY OperationsAt
  <1>1. m \in MediaTypes /\ p \in Pools /\ s \in QueuesRecord /\ F \in SUBSET Alerts
    BY PlacesOf DEF QueuesInv
  <1>2. MediaInv(s, F, m) /\ PoolInv(s, F, m, p)
    BY <1>1 DEF QueuesInv
  <1>3. /\ t \in QueuesRecord /\ Changed(s, t, m, p, type, pool)
        /\ t.q = IF type.queue # {} /\ Room(type) THEN s.q \cup {m} ELSE s.q \ {m}
    <2> HIDE DEF m, p
    <2> QED BY <1>1, PopAlertEffect, Zenon
  <1>4. a \in Of(m, p)
    BY DEF Of, OfType
  <1>5. p \in s.mt[m].queue /\ a \in s.ap[m][p].queue
    OBVIOUS
  <1> HIDE DEF m, p, t
  <1>6. /\ s.mt[m] \in MediaTypeRecord /\ s.ap[m][p] \in PoolRecord /\ s.mt[m].alerts_num \in Nat
        /\ s.mt[m].refcount \in Nat /\ s.mt[m].queue \in SUBSET Pools /\ s.ap[m][p].alerts_num \in Nat
        /\ s.ap[m][p].refcount \in Nat /\ s.ap[m][p].queue \in SUBSET Alerts
    BY <1>1, QueuesFields
  <1>7. /\ type \in MediaTypeRecord /\ type.exists = s.mt[m].exists /\ type.remove = s.mt[m].remove
        /\ type.settings = s.mt[m].settings /\ type.alerts_num = s.mt[m].alerts_num + 1
        /\ type.refcount = s.mt[m].refcount /\ type.queue = s.mt[m].queue \ {p}
    <2>1. s.mt[m].alerts_num + 1 \in Nat /\ s.mt[m].queue \ {p} \in SUBSET Pools
      BY <1>6
    <2> HIDE DEF type
    <2>2. type = With(s.mt[m], s.mt[m].alerts_num + 1, s.mt[m].refcount, s.mt[m].queue \ {p})
      BY DEF type
    <2> QED BY <1>6, <2>1, <2>2, WithMediatype
  <1>8. /\ pool \in PoolRecord /\ pool.alerts_num = s.ap[m][p].alerts_num + 1
        /\ pool.refcount = s.ap[m][p].refcount /\ pool.queue = s.ap[m][p].queue \ {a}
    <2>1. s.ap[m][p].alerts_num + 1 \in Nat /\ s.ap[m][p].queue \ {a} \in SUBSET Alerts
      BY <1>6
    <2> HIDE DEF pool
    <2>2. pool = With(s.ap[m][p], s.ap[m][p].alerts_num + 1, s.ap[m][p].refcount, s.ap[m][p].queue \ {a})
      BY DEF pool
    <2> QED BY <1>6, <2>1, <2>2, WithPool
  <1> HIDE DEF type, pool
  <1>9. /\ t.mt[m] = type /\ t.ap[m][p] = pool
        /\ \A n \in MediaTypes \ {m} : t.mt[n] = s.mt[n] /\ t.ap[n] = s.ap[n]
    BY <1>1, <1>3, <1>7, <1>8, ChangedType
  <1>10. s.ap[m][p].alerts_num = 0 /\ a \notin F
    BY <1>2, <1>5 DEF PoolInv
  <1>11. pool.queue \subseteq Of(m, p) \ G
    BY <1>2, <1>8 DEF PoolInv
  <1>16. /\ QueuedOf(t, m) = (QueuedOf(s, m) \ s.ap[m][p].queue) \cup pool.queue
         /\ s.ap[m][p].queue \subseteq QueuedOf(s, m)
         /\ \A b \in Alerts : b \in t.ap[MediaType[b]][Pool[b]].queue <=>
               IF b \in Of(m, p) THEN b \in pool.queue ELSE b \in s.ap[MediaType[b]][Pool[b]].queue
    <2>1. pool.queue \subseteq Of(m, p)
      BY <1>11
    <2> HIDE DEF G
    <2> QED BY <1>1, <1>3, <1>7, <1>8, <2>1, QueuedChanged, Zenon
  <1>12. PoolInv(t, G, m, p)
    <2>1. F \cap Of(m, p) = {}
      BY <1>1, <1>2, <1>10, FiniteAlerts, OfSubset, FS_EmptySet DEF PoolInv
    <2>2. G \cap Of(m, p) = {a} /\ Cardinality({a}) = 1
      BY <1>4, <2>1, FS_Singleton
    <2>3. Cardinality(s.ap[m][p].queue \ {a}) = Cardinality(s.ap[m][p].queue) - 1
      BY <1>5, <1>6, FiniteAlerts, FS_RemoveElement
    <2>4. Cardinality(s.ap[m][p].queue) \in Nat
      BY <1>6, FiniteAlerts
    <2>5. p \notin t.mt[m].queue
      BY <1>7, <1>9
    <2>6. t.ap[m][p].alerts_num = 1
      BY <1>8, <1>9, <1>10
    <2>8. s.ap[m][p].refcount = s.ap[m][p].alerts_num + Cardinality(s.ap[m][p].queue)
      BY <1>2 DEF PoolInv
    <2>7. t.ap[m][p].refcount = 1 + Cardinality(t.ap[m][p].queue)
      <3>1. Cardinality(t.ap[m][p].queue) = Cardinality(s.ap[m][p].queue \ {a})
        BY <1>8, <1>9, Zenon
      <3>2. t.ap[m][p].refcount = s.ap[m][p].refcount
        BY <1>8, <1>9
      <3> QED BY <1>6, <1>10, <2>3, <2>4, <2>8, <3>1, <3>2
    <2>9. Cardinality(G \cap Of(m, p)) = 1
      BY <2>2, Zenon
    <2> HIDE DEF G
    <2> QED BY <1>9, <1>11, <2>9, <2>5, <2>6, <2>7 DEF PoolInv
  <1>13. MediaInv(t, G, m)
    <2>1. G \cap OfType(m) = (F \cap OfType(m)) \cup {a} /\ a \notin F \cap OfType(m)
      BY <1>4, <1>10 DEF Of
    <2>2. Cardinality(G \cap OfType(m)) = Cardinality(F \cap OfType(m)) + 1
      BY <1>1, <2>1, FiniteAlerts, FS_AddElement
    <2>3. QueuedOf(t, m) = QueuedOf(s, m) \ {a} /\ a \in QueuedOf(s, m)
      BY <1>5, <1>8, <1>16
    <2>4. Cardinality(QueuedOf(t, m)) = Cardinality(QueuedOf(s, m)) - 1 /\ Cardinality(QueuedOf(s, m)) \in Nat
      BY <2>3, FiniteAlerts, OfSubset, FS_RemoveElement
    <2>5. type.exists
      <3>1. Absent.queue = {}
        BY DEF Absent
      <3> QED BY <1>2, <1>5, <1>7, <3>1 DEF MediaInv
    <2> QED BY <1>2, <1>3, <1>6, <1>7, <1>9, <2>2, <2>4, <2>5 DEF MediaInv
  <1>14. QueuesInv(t, G)
    <2>1. \A b \in Alerts \ Of(m, p) : b \in G <=> b \in F
      BY <1>4
    <2>2. \A n \in MediaTypes \ {m} : n \in t.q <=> n \in s.q
      BY <1>3
    <2>3. G \in SUBSET Alerts
      BY <1>1
    <2>4. \A o \in Pools \ {p} : o \in type.queue <=> o \in s.mt[m].queue
      BY <1>7
    <2> HIDE DEF G
    <2> QED BY <1>1, <1>3, <1>7, <1>8, <1>12, <1>13, <2>1, <2>2, <2>3, <2>4, ChangedInv
  <1>15. ActiveIn(t, G) = ActiveIn(s, F)
    <2>2. \A b \in Of(m, p) : MediaType[b] = m /\ Pool[b] = p
      BY DEF Of, OfType
    <2> QED BY <1>4, <1>5, <1>8, <1>16, <2>2 DEF ActiveIn
  <1> QED BY <1>0, <1>7, <1>9, <1>10, <1>14, <1>15 DEF PopKeeps

(* Nothing is queued of a media type that has nothing queued in its pools. *)
LEMMA NothingQueued ==
  ASSUME NEW s, NEW F, QueuesInv(s, F), NEW m \in MediaTypes, QueuedOf(s, m) = {}
  PROVE  s.mt[m].queue = {} /\ m \notin s.q
  <1>1. s.mt[m].queue \subseteq Pools
    BY QueuesFields DEF QueuesInv, QueuesRecord, MediaTypeRecord
  <1>2. ASSUME NEW p \in s.mt[m].queue PROVE FALSE
    <2>1. p \in Pools /\ PoolInv(s, F, m, p)
      BY <1>1 DEF QueuesInv
    <2>2. PICK a \in s.ap[m][p].queue : a \in Of(m, p)
      BY <2>1 DEF PoolInv
    <2>3. a \in QueuedOf(s, m)
      BY <2>2 DEF QueuedOf, Of
    <2> QED BY <2>3
  <1>3. MediaInv(s, F, m)
    BY DEF QueuesInv
  <1> QED BY <1>2, <1>3 DEF MediaInv

(* An alert that an alerter has is counted. *)
LEMMA FlyingCounted ==
  ASSUME NEW s, NEW F, QueuesInv(s, F), NEW a \in F, NEW m, NEW p, m = MediaType[a], p = Pool[a]
  PROVE  /\ s.mt[m].alerts_num > 0 /\ s.mt[m].refcount > 0
         /\ s.ap[m][p].alerts_num = 1 /\ s.ap[m][p].refcount > 0
         /\ F \cap Of(m, p) = {a} /\ a \notin s.ap[m][p].queue
  <1>0. a \in Alerts /\ s \in QueuesRecord /\ F \in SUBSET Alerts
    BY DEF QueuesInv
  <1>1. m \in MediaTypes /\ p \in Pools /\ a \in OfType(m) /\ a \in Of(m, p)
    BY <1>0, PlacesOf DEF Of, OfType
  <1>2. MediaInv(s, F, m) /\ PoolInv(s, F, m, p)
    BY <1>1 DEF QueuesInv
  <1>3. ASSUME NEW S \in SUBSET Alerts, a \in S PROVE Cardinality(S) \in Nat /\ Cardinality(S) > 0
    BY <1>3, FiniteAlerts, FS_EmptySet
  <1>4. Cardinality(F \cap OfType(m)) > 0 /\ Cardinality(F \cap Of(m, p)) > 0
    BY <1>0, <1>1, <1>3
  <1>5. Cardinality(QueuedOf(s, m)) \in Nat /\ Cardinality(s.ap[m][p].queue) \in Nat
    BY <1>0, <1>1, FiniteAlerts, OfSubset, QueuesFields
  <1>6. Cardinality(F \cap OfType(m)) \in Nat /\ Cardinality(F \cap Of(m, p)) \in Nat
    BY <1>0, <1>1, <1>3
  <1>7. s.mt[m].alerts_num > 0 /\ s.mt[m].refcount > 0
    BY <1>2, <1>4, <1>5, <1>6 DEF MediaInv
  <1>8. s.ap[m][p].alerts_num = 1
    BY <1>2, <1>4, <1>6 DEF PoolInv
  <1>9. s.ap[m][p].refcount > 0
    BY <1>2, <1>5, <1>8 DEF PoolInv
  <1>10. F \cap Of(m, p) = {a}
    <2>1. Cardinality(F \cap Of(m, p)) = 1 /\ IsFiniteSet(F \cap Of(m, p))
      BY <1>0, <1>2, <1>8, FiniteAlerts, OfSubset DEF PoolInv
    <2>2. PICK b : F \cap Of(m, p) = {b}
      BY <2>1, FS_Singleton
    <2> QED BY <1>1, <2>2
  <1>11. a \notin s.ap[m][p].queue
    BY <1>2 DEF PoolInv
  <1> QED BY <1>7, <1>8, <1>9, <1>10, <1>11

(* Alert a may be removed. *)
RemoveKeeps(s, F, a) ==
    /\ QueuesInv(RemoveAlert(s, a), F \ {a})
    /\ ActiveIn(RemoveAlert(s, a), F \ {a}) = ActiveIn(s, F) \ {a}
    /\ \A n \in MediaTypes : s.mt[n].exists /\ ~s.mt[n].remove
         => RemoveAlert(s, a).mt[n].exists /\ ~RemoveAlert(s, a).mt[n].remove
    /\ RemovedInUse(s) => RemovedInUse(RemoveAlert(s, a))

(* An alert leaves the manager. *)
LEMMA RemoveAlertInv ==
  ASSUME NEW s, NEW F, QueuesInv(s, F), NEW a \in F
  PROVE  RemoveKeeps(s, F, a)
  <1> DEFINE m == MediaType[a]
             p == Pool[a]
             t == RemoveAt(s, m, p)
             n == s.ap[m][p].alerts_num - 1
             k == s.ap[m][p].refcount - 1
             i == s.mt[m].alerts_num - 1
             j == s.mt[m].refcount - 1
             pool == IF k = 0 THEN NoPool ELSE With(s.ap[m][p], n, k, s.ap[m][p].queue)
             Q == IF k # 0 /\ n = 0 THEN s.mt[m].queue \cup {p} ELSE s.mt[m].queue
             kept == With(s.mt[m], i, j, Q)
             type == IF j = 0 /\ s.mt[m].remove THEN Absent ELSE kept
             G == F \ {a}
  <1>0. t = RemoveAlert(s, a)
    BY OperationsAt
  <1>1. m \in MediaTypes /\ p \in Pools /\ s \in QueuesRecord /\ F \in SUBSET Alerts /\ a \in Alerts
    BY PlacesOf DEF QueuesInv
  <1>2. MediaInv(s, F, m) /\ PoolInv(s, F, m, p)
    BY <1>1 DEF QueuesInv
  <1>3. /\ s.mt[m].alerts_num > 0 /\ s.mt[m].refcount > 0
        /\ s.ap[m][p].alerts_num = 1 /\ s.ap[m][p].refcount > 0
        /\ F \cap Of(m, p) = {a} /\ a \notin s.ap[m][p].queue
    BY FlyingCounted
  <1>4. a \in Of(m, p)
    BY <1>1 DEF Of, OfType
  <1>5. /\ t \in QueuesRecord /\ Changed(s, t, m, p, type, pool)
        /\ t.q = IF j # 0 /\ Q # {} /\ Room(kept) THEN s.q \cup {m} ELSE s.q
    <2> HIDE DEF m, p
    <2>1. s.ap[m][p].alerts_num > 0
      BY <1>3
    <2> QED BY <1>1, <1>3, <2>1, RemoveAlertEffect, Zenon
  <1> HIDE DEF m, p, t
  <1>6. /\ s.mt[m] \in MediaTypeRecord /\ s.ap[m][p] \in PoolRecord /\ s.mt[m].alerts_num \in Nat
        /\ s.mt[m].refcount \in Nat /\ s.mt[m].queue \in SUBSET Pools /\ s.ap[m][p].alerts_num \in Nat
        /\ s.ap[m][p].refcount \in Nat /\ s.ap[m][p].queue \in SUBSET Alerts
        /\ s.mt[m].remove \in BOOLEAN /\ s.mt[m].settings \in AllSettings
    BY <1>1, QueuesFields
  <1>7. n = 0 /\ k \in Nat /\ i \in Nat /\ j \in Nat /\ Q \in SUBSET Pools
    BY <1>1, <1>3, <1>6
  <1>8. /\ kept \in MediaTypeRecord /\ kept.exists = s.mt[m].exists /\ kept.remove = s.mt[m].remove
        /\ kept.settings = s.mt[m].settings /\ kept.alerts_num = i /\ kept.refcount = j /\ kept.queue = Q
    <2> HIDE DEF i, j, Q, kept
    <2>1. kept = With(s.mt[m], i, j, Q)
      BY DEF kept
    <2> QED BY <1>6, <1>7, <2>1, WithMediatype
  <1>9. /\ k = Cardinality(s.ap[m][p].queue) /\ IsFiniteSet(s.ap[m][p].queue)
        /\ (k = 0) = (s.ap[m][p].queue = {})
    <2>1. IsFiniteSet(s.ap[m][p].queue) /\ Cardinality(s.ap[m][p].queue) \in Nat
      BY <1>6, FiniteAlerts
    <2>2. s.ap[m][p].refcount = s.ap[m][p].alerts_num + Cardinality(s.ap[m][p].queue)
      BY <1>2 DEF PoolInv
    <2>3. k = Cardinality(s.ap[m][p].queue)
      BY <1>3, <2>1, <2>2
    <2> HIDE DEF k
    <2> QED BY <2>1, <2>3, FS_EmptySet
  <1>10. /\ pool \in PoolRecord /\ pool.alerts_num = 0 /\ pool.refcount = k
         /\ pool.queue = s.ap[m][p].queue
    <2> HIDE DEF n, k
    <2>1. CASE k = 0
      BY <1>9, <2>1 DEF NoPool, PoolRecord
    <2>2. CASE k # 0
      <3>1. pool = With(s.ap[m][p], n, k, s.ap[m][p].queue)
        BY <2>2
      <3>2. n \in Nat
        BY <1>7
      <3> HIDE DEF pool
      <3>3. s.ap[m][p] \in PoolRecord /\ s.ap[m][p].queue \in SUBSET Alerts /\ k \in Nat
        BY <1>6, <1>7
      <3>4. pool \in PoolRecord /\ pool.alerts_num = n /\ pool.refcount = k /\ pool.queue = s.ap[m][p].queue
        <4>1. PoolIs(pool, n, k, s.ap[m][p].queue)
          BY <3>1, <3>2, <3>3, SameQueue, Zenon
        <4> QED BY <4>1, Zenon DEF PoolIs
      <3> QED BY <1>7, <3>4
    <2> QED BY <2>1, <2>2
  <1> HIDE DEF pool, kept
  <1>11. pool.queue \subseteq Of(m, p) \ G
    BY <1>2, <1>10 DEF PoolInv
  <1>12. type \in MediaTypeRecord
    BY <1>8 DEF Absent, MediaTypeRecord, AllSettings
  <1>13. /\ t.mt[m] = type /\ t.ap[m][p] = pool
         /\ \A o \in MediaTypes \ {m} : t.mt[o] = s.mt[o] /\ t.ap[o] = s.ap[o]
    <2> HIDE DEF type
    <2> QED BY <1>1, <1>5, <1>10, <1>12, ChangedType
  <1>14. /\ QueuedOf(t, m) = (QueuedOf(s, m) \ s.ap[m][p].queue) \cup pool.queue
         /\ s.ap[m][p].queue \subseteq QueuedOf(s, m)
         /\ \A b \in Alerts : b \in t.ap[MediaType[b]][Pool[b]].queue <=>
               IF b \in Of(m, p) THEN b \in pool.queue ELSE b \in s.ap[MediaType[b]][Pool[b]].queue
    <2>1. pool.queue \subseteq Of(m, p)
      BY <1>11
    <2> HIDE DEF G, type
    <2> QED BY <1>1, <1>5, <1>10, <1>12, <2>1, QueuedChanged, Zenon
  <1>15. QueuedOf(t, m) = QueuedOf(s, m)
    BY <1>10, <1>14
  <1>16. /\ s.mt[m].alerts_num = Cardinality(F \cap OfType(m))
         /\ s.mt[m].refcount = s.mt[m].alerts_num + Cardinality(QueuedOf(s, m))
         /\ Cardinality(QueuedOf(s, m)) \in Nat /\ IsFiniteSet(QueuedOf(s, m))
    <2>1. Cardinality(QueuedOf(s, m)) \in Nat /\ IsFiniteSet(QueuedOf(s, m))
      BY FiniteAlerts, OfSubset
    <2> QED BY <1>2, <2>1 DEF MediaInv
  <1>17. Cardinality(G \cap OfType(m)) = i
    <2>1. G \cap OfType(m) = (F \cap OfType(m)) \ {a} /\ a \in F \cap OfType(m)
      BY <1>4 DEF Of
    <2>2. Cardinality((F \cap OfType(m)) \ {a}) = Cardinality(F \cap OfType(m)) - 1
      BY <1>1, <2>1, FiniteAlerts, FS_RemoveElement
    <2>3. Cardinality(G \cap OfType(m)) = Cardinality((F \cap OfType(m)) \ {a})
      BY <2>1, Zenon
    <2> HIDE DEF G
    <2> QED BY <1>16, <2>2, <2>3
  <1>18. /\ type.alerts_num = i /\ type.refcount = j /\ type.queue = Q /\ (j = 0 => Q = {} /\ m \notin s.q)
    <2>1. CASE j # 0
      BY <1>8, <2>1
    <2>2. CASE j = 0
      <3>1. i = 0 /\ Cardinality(QueuedOf(s, m)) = 0
        BY <1>3, <1>6, <1>16, <2>2
      <3>2. QueuedOf(s, m) = {}
        BY <1>16, <3>1, FS_EmptySet
      <3>3. s.mt[m].queue = {} /\ m \notin s.q
        BY <1>1, <3>2, NothingQueued
      <3>4. s.ap[m][p].queue = {}
        BY <1>14, <3>2
      <3>5. Q = {}
        BY <1>9, <3>3, <3>4
      <3>6. Absent.alerts_num = 0 /\ Absent.refcount = 0 /\ Absent.queue = {}
        BY DEF Absent
      <3> HIDE DEF i, j, Q
      <3> QED BY <1>8, <2>2, <3>1, <3>3, <3>5, <3>6
    <2> QED BY <2>1, <2>2
  <1>19. PoolInv(t, G, m, p)
    <2>1. G \cap Of(m, p) = {} /\ Cardinality({}) = 0
      BY <1>3, FS_EmptySet
    <2>2. Cardinality(G \cap Of(m, p)) = 0
      BY <2>1, Zenon
    <2>3. Cardinality(pool.queue) = k
      BY <1>9, <1>10, Zenon
    <2>4. s.ap[m][p].alerts_num # 0
      BY <1>3
    <2>5. p \notin s.mt[m].queue
      BY <1>2, <2>4 DEF PoolInv
    <2>6. p \in Q <=> pool.queue # {}
      BY <1>7, <1>9, <1>10, <2>5
    <2> HIDE DEF G, Q, type, k
    <2>7. p \in t.mt[m].queue <=> t.ap[m][p].queue # {} /\ t.ap[m][p].alerts_num = 0
      BY <1>10, <1>13, <1>18, <2>6
    <2> QED BY <1>7, <1>10, <1>11, <1>13, <2>2, <2>3, <2>7 DEF PoolInv
  <1>20. MediaInv(t, G, m)
    <2>1. t.mt[m].refcount = t.mt[m].alerts_num + Cardinality(QueuedOf(t, m))
      <3>1. Cardinality(QueuedOf(t, m)) = Cardinality(QueuedOf(s, m))
        BY <1>15, Zenon
      <3> HIDE DEF type
      <3> QED BY <1>6, <1>13, <1>16, <1>18, <3>1
    <2>2. m \in t.q => t.mt[m].queue # {}
      <3>1. m \in s.q => s.mt[m].queue # {}
        BY <1>2 DEF MediaInv
      <3>2. Q = {} => s.mt[m].queue = {}
        OBVIOUS
      <3> HIDE DEF type, Q, j
      <3> QED BY <1>5, <1>13, <1>18, <3>1, <3>2
    <2>3. t.mt[m].queue # {} => m \in t.q \/ t.mt[m].alerts_num > 0
      <3>1. ASSUME ~Room(kept) PROVE i > 0
        <4>1. kept.settings.maxsessions \in Nat
          BY <1>6, <1>8, AlertAssumption DEF AllSettings, NoSettings
        <4> HIDE DEF i
        <4> QED BY <1>7, <1>8, <3>1, <4>1 DEF Room
      <3> HIDE DEF type, Q, i, j
      <3> QED BY <1>5, <1>13, <1>18, <3>1
    <2>4. ~t.mt[m].exists => t.mt[m] = Absent
      <3>1. s.mt[m].refcount # 0 /\ Absent.refcount = 0
        BY <1>3, <1>6 DEF Absent
      <3>2. s.mt[m].exists
        BY <1>2, <3>1 DEF MediaInv
      <3> QED BY <1>8, <1>13, <3>2
    <2>5. t.mt[m].alerts_num = Cardinality(G \cap OfType(m))
      BY <1>13, <1>17, <1>18
    <2> HIDE DEF G, type
    <2> QED BY <2>1, <2>2, <2>3, <2>4, <2>5 DEF MediaInv
  <1>21. QueuesInv(t, G)
    <2>1. \A b \in Alerts \ Of(m, p) : b \in G <=> b \in F
      BY <1>4
    <2>2. \A o \in MediaTypes \ {m} : o \in t.q <=> o \in s.q
      BY <1>5
    <2>3. G \in SUBSET Alerts
      BY <1>1
    <2>4. \A o \in Pools \ {p} : o \in type.queue <=> o \in s.mt[m].queue
      BY <1>18
    <2> HIDE DEF G, type
    <2> QED BY <1>1, <1>5, <1>10, <1>12, <1>19, <1>20, <2>1, <2>2, <2>3, <2>4, ChangedInv
  <1>22. ActiveIn(t, G) = ActiveIn(s, F) \ {a}
    <2>1. \A b \in Of(m, p) : MediaType[b] = m /\ Pool[b] = p
      BY DEF Of, OfType
    <2> QED BY <1>3, <1>4, <1>10, <1>14, <2>1 DEF ActiveIn
  <1>23. ASSUME NEW o \in MediaTypes, s.mt[o].exists, ~s.mt[o].remove
         PROVE  t.mt[o].exists /\ ~t.mt[o].remove
    BY <1>8, <1>13, <1>23
  <1>24. RemovedInUse(s) => RemovedInUse(t)
    <2>1. t.mt[m].remove => t.mt[m].refcount > 0
      <3>1. Absent.remove = FALSE
        BY DEF Absent
      <3> HIDE DEF j
      <3> QED BY <1>7, <1>8, <1>13, <3>1
    <2> QED BY <1>13, <2>1 DEF RemovedInUse
  <1> QED BY <1>0, <1>21, <1>22, <1>23, <1>24 DEF RemoveKeeps

(* Alert a may be tried again. *)
RetryKeeps(s, F, a) ==
    /\ QueuesInv(RetryAlert(s, a), F \ {a})
    /\ ActiveIn(RetryAlert(s, a), F \ {a}) = ActiveIn(s, F)
    /\ \A n \in MediaTypes : /\ RetryAlert(s, a).mt[n].exists = s.mt[n].exists
                             /\ RetryAlert(s, a).mt[n].remove = s.mt[n].remove
                             /\ RetryAlert(s, a).mt[n].refcount = s.mt[n].refcount

(* An alert goes back to its pool. *)
LEMMA RetryAlertInv ==
  ASSUME NEW s, NEW F, QueuesInv(s, F), NEW a \in F
  PROVE  RetryKeeps(s, F, a)
  <1> DEFINE m == MediaType[a]
             p == Pool[a]
             t == RetryAt(s, m, p, a)
             n == s.ap[m][p].alerts_num - 1
             i == s.mt[m].alerts_num - 1
             pool == With(s.ap[m][p], n, s.ap[m][p].refcount, s.ap[m][p].queue \cup {a})
             Q == IF n = 0 THEN s.mt[m].queue \cup {p} ELSE s.mt[m].queue
             type == With(s.mt[m], i, s.mt[m].refcount, Q)
             G == F \ {a}
  <1>0. t = RetryAlert(s, a)
    BY OperationsAt
  <1>1. m \in MediaTypes /\ p \in Pools /\ s \in QueuesRecord /\ F \in SUBSET Alerts /\ a \in Alerts
    BY PlacesOf DEF QueuesInv
  <1>2. MediaInv(s, F, m) /\ PoolInv(s, F, m, p)
    BY <1>1 DEF QueuesInv
  <1>3. /\ s.mt[m].alerts_num > 0 /\ s.mt[m].refcount > 0
        /\ s.ap[m][p].alerts_num = 1 /\ s.ap[m][p].refcount > 0
        /\ F \cap Of(m, p) = {a} /\ a \notin s.ap[m][p].queue
    BY FlyingCounted
  <1>4. a \in Of(m, p)
    BY <1>1 DEF Of, OfType
  <1>5. /\ t \in QueuesRecord /\ Changed(s, t, m, p, type, pool)
        /\ t.q = IF Q # {} /\ Room(type) THEN s.q \cup {m} ELSE s.q
    <2> HIDE DEF m, p
    <2>1. s.ap[m][p].alerts_num > 0
      BY <1>3
    <2>2. t = RetryAt(s, m, p, a) /\ s.mt[m].alerts_num > 0
      BY <1>3
    <2>3. RetriedTo(s, t, m, p, a)
      <3> HIDE DEF t
      <3> QED BY <1>1, <2>1, <2>2, RetryAlertEffect, Zenon
    <2> HIDE DEF t
    <2> QED BY <2>3, Zenon DEF RetriedTo
  <1> HIDE DEF m, p, t
  <1>6. /\ s.mt[m] \in MediaTypeRecord /\ s.ap[m][p] \in PoolRecord /\ s.mt[m].alerts_num \in Nat
        /\ s.mt[m].refcount \in Nat /\ s.mt[m].queue \in SUBSET Pools /\ s.ap[m][p].alerts_num \in Nat
        /\ s.ap[m][p].refcount \in Nat /\ s.ap[m][p].queue \in SUBSET Alerts
        /\ s.mt[m].settings \in AllSettings
    BY <1>1, QueuesFields
  <1>7. /\ n = 0 /\ i \in Nat /\ Q \in SUBSET Pools /\ Q = s.mt[m].queue \cup {p}
        /\ s.ap[m][p].queue \cup {a} \in SUBSET Alerts
    BY <1>1, <1>3, <1>6
  <1>8. /\ type \in MediaTypeRecord /\ type.exists = s.mt[m].exists /\ type.remove = s.mt[m].remove
        /\ type.settings = s.mt[m].settings /\ type.alerts_num = i
        /\ type.refcount = s.mt[m].refcount /\ type.queue = Q
    <2> HIDE DEF i, Q, type
    <2>1. type = With(s.mt[m], i, s.mt[m].refcount, Q)
      BY DEF type
    <2> QED BY <1>6, <1>7, <2>1, WithMediatype
  <1>9. /\ pool \in PoolRecord /\ pool.alerts_num = 0 /\ pool.refcount = s.ap[m][p].refcount
        /\ pool.queue = s.ap[m][p].queue \cup {a}
    <2> HIDE DEF n, pool
    <2>1. pool = With(s.ap[m][p], n, s.ap[m][p].refcount, s.ap[m][p].queue \cup {a}) /\ n \in Nat
      BY <1>7 DEF pool
    <2>2. /\ pool \in PoolRecord /\ pool.alerts_num = n /\ pool.refcount = s.ap[m][p].refcount
          /\ pool.queue = s.ap[m][p].queue \cup {a}
      BY <1>6, <1>7, <2>1, WithPool
    <2> QED BY <1>7, <2>2
  <1> HIDE DEF pool, type
  <1>10. pool.queue \subseteq Of(m, p) \ G
    BY <1>2, <1>4, <1>9 DEF PoolInv
  <1>11. /\ t.mt[m] = type /\ t.ap[m][p] = pool
         /\ \A o \in MediaTypes \ {m} : t.mt[o] = s.mt[o] /\ t.ap[o] = s.ap[o]
    BY <1>1, <1>5, <1>8, <1>9, ChangedType
  <1>12. /\ QueuedOf(t, m) = (QueuedOf(s, m) \ s.ap[m][p].queue) \cup pool.queue
         /\ s.ap[m][p].queue \subseteq QueuedOf(s, m)
         /\ \A b \in Alerts : b \in t.ap[MediaType[b]][Pool[b]].queue <=>
               IF b \in Of(m, p) THEN b \in pool.queue ELSE b \in s.ap[MediaType[b]][Pool[b]].queue
    <2>1. pool.queue \subseteq Of(m, p)
      BY <1>10
    <2> HIDE DEF G
    <2> QED BY <1>1, <1>5, <1>8, <1>9, <2>1, QueuedChanged, Zenon
  <1>13. PoolInv(t, G, m, p)
    <2>1. G \cap Of(m, p) = {} /\ Cardinality({}) = 0
      BY <1>3, FS_EmptySet
    <2>2. Cardinality(G \cap Of(m, p)) = 0
      BY <2>1, Zenon
    <2>3. Cardinality(pool.queue) = Cardinality(s.ap[m][p].queue) + 1
      <3>1. Cardinality(s.ap[m][p].queue \cup {a}) = Cardinality(s.ap[m][p].queue) + 1
        BY <1>3, <1>6, FiniteAlerts, FS_AddElement
      <3> QED BY <1>9, <3>1, Zenon
    <2>4. s.ap[m][p].refcount = 1 + Cardinality(s.ap[m][p].queue) /\ Cardinality(s.ap[m][p].queue) \in Nat
      BY <1>2, <1>3, <1>6, FiniteAlerts DEF PoolInv
    <2>5. p \in t.mt[m].queue /\ t.ap[m][p].queue # {}
      BY <1>7, <1>8, <1>9, <1>11
    <2>6. t.ap[m][p].refcount = t.ap[m][p].alerts_num + Cardinality(t.ap[m][p].queue)
      <3>1. Cardinality(t.ap[m][p].queue) = Cardinality(pool.queue)
        BY <1>11, Zenon
      <3> QED BY <1>9, <1>11, <2>3, <2>4, <3>1
    <2> HIDE DEF G
    <2> QED BY <1>9, <1>10, <1>11, <2>2, <2>5, <2>6 DEF PoolInv
  <1>14. MediaInv(t, G, m)
    <2>0. /\ s.mt[m].alerts_num = Cardinality(F \cap OfType(m))
          /\ s.mt[m].refcount = s.mt[m].alerts_num + Cardinality(QueuedOf(s, m))
          /\ Cardinality(QueuedOf(s, m)) \in Nat /\ IsFiniteSet(QueuedOf(s, m))
      <3>1. Cardinality(QueuedOf(s, m)) \in Nat /\ IsFiniteSet(QueuedOf(s, m))
        BY FiniteAlerts, OfSubset
      <3> QED BY <1>2, <3>1 DEF MediaInv
    <2>1. t.mt[m].alerts_num = Cardinality(G \cap OfType(m))
      <3>1. G \cap OfType(m) = (F \cap OfType(m)) \ {a} /\ a \in F \cap OfType(m)
        BY <1>4 DEF Of
      <3>2. Cardinality((F \cap OfType(m)) \ {a}) = Cardinality(F \cap OfType(m)) - 1
        BY <1>1, <3>1, FiniteAlerts, FS_RemoveElement
      <3>3. Cardinality(G \cap OfType(m)) = Cardinality((F \cap OfType(m)) \ {a})
        BY <3>1, Zenon
      <3> HIDE DEF G
      <3> QED BY <1>8, <1>11, <2>0, <3>2, <3>3
    <2>2. t.mt[m].refcount = t.mt[m].alerts_num + Cardinality(QueuedOf(t, m))
      <3>1. a \notin QueuedOf(s, m)
        BY <1>3, <1>4 DEF QueuedOf, Of, OfType
      <3>2. QueuedOf(t, m) = QueuedOf(s, m) \cup {a}
        BY <1>9, <1>12
      <3>3. Cardinality(QueuedOf(s, m) \cup {a}) = Cardinality(QueuedOf(s, m)) + 1
        BY <2>0, <3>1, FS_AddElement
      <3>4. Cardinality(QueuedOf(t, m)) = Cardinality(QueuedOf(s, m)) + 1
        BY <3>2, <3>3, Zenon
      <3> QED BY <1>6, <1>8, <1>11, <2>0, <3>4
    <2>3. t.mt[m].queue # {}
      BY <1>7, <1>8, <1>11
    <2>4. m \in t.q \/ t.mt[m].alerts_num > 0
      <3>1. ASSUME ~Room(type) PROVE i > 0
        <4>1. type.settings.maxsessions \in Nat
          BY <1>6, <1>8, AlertAssumption DEF AllSettings, NoSettings
        <4> HIDE DEF i
        <4> QED BY <1>7, <1>8, <3>1, <4>1 DEF Room
      <3>2. Q # {}
        BY <1>7
      <3> HIDE DEF Q, i
      <3> QED BY <1>5, <1>8, <1>11, <3>1, <3>2
    <2>5. t.mt[m].exists
      <3>1. s.mt[m].refcount # 0 /\ Absent.refcount = 0
        BY <1>3, <1>6 DEF Absent
      <3>2. s.mt[m].exists
        BY <1>2, <3>1 DEF MediaInv
      <3> QED BY <1>8, <1>11, <3>2
    <2> HIDE DEF G
    <2> QED BY <2>1, <2>2, <2>3, <2>4, <2>5 DEF MediaInv
  <1>15. QueuesInv(t, G)
    <2>1. \A b \in Alerts \ Of(m, p) : b \in G <=> b \in F
      BY <1>4
    <2>2. \A o \in MediaTypes \ {m} : o \in t.q <=> o \in s.q
      BY <1>5
    <2>3. G \in SUBSET Alerts
      BY <1>1
    <2>4. \A o \in Pools \ {p} : o \in type.queue <=> o \in s.mt[m].queue
      BY <1>8
    <2> HIDE DEF G
    <2> QED BY <1>1, <1>5, <1>8, <1>9, <1>13, <1>14, <2>1, <2>2, <2>3, <2>4, ChangedInv
  <1>16. ActiveIn(t, G) = ActiveIn(s, F)
    <2>1. \A b \in Of(m, p) : MediaType[b] = m /\ Pool[b] = p
      BY DEF Of, OfType
    <2> QED BY <1>4, <1>9, <1>12, <2>1 DEF ActiveIn
  <1> QED BY <1>0, <1>8, <1>11, <1>15, <1>16 DEF RetryKeeps

(* Media types change in other fields than counters and queues. *)
LEMMA SameCounters ==
  ASSUME NEW s, NEW F, QueuesInv(s, F), NEW t \in QueuesRecord, t.ap = s.ap, t.q = s.q,
         \A m \in MediaTypes : /\ t.mt[m].alerts_num = s.mt[m].alerts_num
                               /\ t.mt[m].refcount = s.mt[m].refcount
                               /\ t.mt[m].queue = s.mt[m].queue
                               /\ ~t.mt[m].exists => t.mt[m] = Absent
  PROVE  QueuesInv(t, F) /\ ActiveIn(t, F) = ActiveIn(s, F)
  <1>1. ASSUME NEW m \in MediaTypes PROVE MediaInv(t, F, m)
    <2>1. MediaInv(s, F, m)
      BY DEF QueuesInv
    <2>2. QueuedOf(t, m) = QueuedOf(s, m)
      BY DEF QueuedOf
    <2> QED BY <2>1, <2>2 DEF MediaInv
  <1>2. ASSUME NEW m \in MediaTypes, NEW p \in Pools PROVE PoolInv(t, F, m, p)
    <2>1. PoolInv(s, F, m, p)
      BY DEF QueuesInv
    <2> QED BY <2>1 DEF PoolInv
  <1>3. ActiveIn(t, F) = ActiveIn(s, F)
    BY DEF ActiveIn
  <1> QED BY <1>1, <1>2, <1>3 DEF QueuesInv

(* A media type that nobody refers to is like one that does not exist. *)
LEMMA UnusedCounters ==
  ASSUME NEW s, NEW F, QueuesInv(s, F), NEW m \in MediaTypes, s.mt[m].refcount = 0
  PROVE  s.mt[m].alerts_num = 0 /\ s.mt[m].queue = {}
  <1>1. MediaInv(s, F, m) /\ F \in SUBSET Alerts
    BY DEF QueuesInv
  <1>2. /\ Cardinality(QueuedOf(s, m)) \in Nat /\ IsFiniteSet(QueuedOf(s, m))
        /\ Cardinality(F \cap OfType(m)) \in Nat
    BY <1>1, FiniteAlerts, OfSubset
  <1>3. s.mt[m].alerts_num = 0 /\ Cardinality(QueuedOf(s, m)) = 0
    BY <1>1, <1>2 DEF MediaInv
  <1>4. QueuedOf(s, m) = {}
    BY <1>2, <1>3, FS_EmptySet
  <1> QED BY <1>3, <1>4, NothingQueued

(* Media type m may be updated. *)
UpdateKeeps(s, t, F, m, remove) ==
    /\ QueuesInv(t, F) /\ ActiveIn(t, F) = ActiveIn(s, F)
    /\ t.mt \in [MediaTypes -> MediaTypeRecord] /\ t.ap = s.ap /\ t.q = s.q
    /\ t.mt[m].exists /\ t.mt[m].remove = (~s.mt[m].exists /\ remove)
    /\ t.mt[m].alerts_num = s.mt[m].alerts_num /\ t.mt[m].refcount = s.mt[m].refcount
    /\ t.mt[m].queue = s.mt[m].queue
    /\ \A n \in MediaTypes \ {m} : t.mt[n] = s.mt[n]

(* A media type is created or updated. *)
LEMMA UpdateMediatypeInv ==
  ASSUME NEW s, NEW F, QueuesInv(s, F), NEW m \in MediaTypes, NEW v \in AllSettings, NEW remove \in BOOLEAN,
         NEW t, t = UpdateMediatype(s, m, v, remove)
  PROVE  UpdateKeeps(s, t, F, m, remove)
  <1> DEFINE old == s.mt[m]
             type == IF old.exists THEN [old EXCEPT !.remove = FALSE, !.settings = v]
                     ELSE [Absent EXCEPT !.exists = TRUE, !.remove = remove, !.settings = v]
  <1>1. s \in QueuesRecord /\ MediaInv(s, F, m)
    BY DEF QueuesInv
  <1>2. old \in MediaTypeRecord
    BY <1>1, QueuesFields DEF QueuesRecord
  <1>3. t = [s EXCEPT !.mt[m] = type]
    BY Zenon DEF UpdateMediatype
  <1>4. ~old.exists => old = Absent
    BY <1>1 DEF MediaInv
  <1>5. /\ type \in MediaTypeRecord /\ type.alerts_num = old.alerts_num
        /\ type.refcount = old.refcount /\ type.queue = old.queue
    <2>1. CASE old.exists
      <3>1. type = [old EXCEPT !.remove = FALSE, !.settings = v]
        BY <2>1
      <3> HIDE DEF old, type
      <3> QED BY <1>2, <3>1 DEF MediaTypeRecord
    <2>2. CASE ~old.exists
      <3>1. type = [Absent EXCEPT !.exists = TRUE, !.remove = remove, !.settings = v] /\ old = Absent
        BY <1>4, <2>2
      <3> HIDE DEF old, type
      <3> QED BY <3>1 DEF MediaTypeRecord, Absent
    <2> QED BY <2>1, <2>2
  <1>6. type.exists /\ type.remove = (~old.exists /\ remove)
    <2>1. CASE old.exists
      <3>1. type = [old EXCEPT !.remove = FALSE, !.settings = v]
        BY <2>1
      <3> HIDE DEF old, type
      <3>2. type.exists = old.exists /\ type.remove = FALSE
        BY <1>2, <3>1, Zenon DEF MediaTypeRecord
      <3> QED BY <2>1, <3>2
    <2>2. CASE ~old.exists
      <3>1. type = [Absent EXCEPT !.exists = TRUE, !.remove = remove, !.settings = v]
        BY <2>2
      <3> HIDE DEF old, type
      <3>2. type.exists = TRUE /\ type.remove = remove
        BY <3>1 DEF Absent
      <3> QED BY <2>2, <3>2
    <2> QED BY <2>1, <2>2
  <1> HIDE DEF old, type
  <1>7. /\ t.mt = [s.mt EXCEPT ![m] = type] /\ t.ap = s.ap /\ t.q = s.q
        /\ t = [mt |-> t.mt, ap |-> t.ap, q |-> t.q]
    BY <1>1, <1>3 DEF QueuesRecord
  <1>8. t.mt \in [MediaTypes -> MediaTypeRecord] /\ t.ap \in [MediaTypes -> [Pools -> PoolRecord]]
        /\ t.q \in SUBSET MediaTypes
    BY <1>1, <1>5, <1>7 DEF QueuesRecord
  <1>9. t \in QueuesRecord
    BY <1>7, <1>8, QueuesRecordFields
  <1>10. t.mt[m] = type /\ \A n \in MediaTypes \ {m} : t.mt[n] = s.mt[n]
    BY <1>1, <1>7 DEF QueuesRecord
  <1>11. \A n \in MediaTypes : /\ t.mt[n].alerts_num = s.mt[n].alerts_num
                               /\ t.mt[n].refcount = s.mt[n].refcount
                               /\ t.mt[n].queue = s.mt[n].queue
                               /\ ~t.mt[n].exists => t.mt[n] = Absent
    BY <1>5, <1>6, <1>10 DEF old, QueuesInv, MediaInv
  <1>12. QueuesInv(t, F) /\ ActiveIn(t, F) = ActiveIn(s, F)
    BY <1>7, <1>9, <1>11, SameCounters
  <1> QED BY <1>5, <1>6, <1>7, <1>8, <1>10, <1>12 DEF old, UpdateKeeps

(* The alerts of A that go to a media type, and to a pool of it. *)
AddedTo(A, m) == {a \in A : MediaType[a] = m}
AddedIn(A, m, p) == {a \in AddedTo(A, m) : Pool[a] = p}
ReadyPools(s, A, m) == {p \in Pools : AddedIn(A, m, p) # {} /\ PoolReady(s.ap[m][p])}

(* What adding alerts A does. *)
AddedBy(s, t, A) ==
    /\ t \in QueuesRecord
    /\ \A m \in MediaTypes :
         t.mt[m] = With(s.mt[m], s.mt[m].alerts_num, s.mt[m].refcount + Cardinality(AddedTo(A, m)),
                        s.mt[m].queue \cup ReadyPools(s, A, m))
    /\ \A m \in MediaTypes, p \in Pools :
         t.ap[m][p] = With(s.ap[m][p], s.ap[m][p].alerts_num,
                           s.ap[m][p].refcount + Cardinality(AddedIn(A, m, p)),
                           s.ap[m][p].queue \cup AddedIn(A, m, p))
    /\ t.q = s.q \cup {m \in MediaTypes : AddedTo(A, m) # {} /\ t.mt[m].queue # {} /\ Room(t.mt[m])}

(* Alerts become part of the queues. *)
LEMMA AddAlertsEffect ==
  ASSUME NEW s \in QueuesRecord, NEW A \in SUBSET Alerts, NEW t, t = AddAlerts(s, A)
  PROVE  AddedBy(s, t, A)
  <1> DEFINE ap == [m \in MediaTypes |-> [p \in Pools |->
                      [s.ap[m][p] EXCEPT !.refcount = @ + Cardinality(AddedIn(A, m, p)),
                                         !.queue = @ \cup AddedIn(A, m, p)]]]
             mt == [m \in MediaTypes |->
                      [s.mt[m] EXCEPT !.refcount = @ + Cardinality(AddedTo(A, m)),
                                      !.queue = @ \cup ReadyPools(s, A, m)]]
             u == [s EXCEPT !.ap = ap, !.mt = mt]
             q == {m \in MediaTypes : AddedTo(A, m) # {} /\ u.mt[m].queue # {} /\ Room(u.mt[m])}
  <1>1. t = [u EXCEPT !.q = @ \cup q]
    BY DEF AddAlerts, AddedTo, AddedIn, ReadyPools
  <1>2. ASSUME NEW m \in MediaTypes
        PROVE  /\ mt[m] = With(s.mt[m], s.mt[m].alerts_num, s.mt[m].refcount + Cardinality(AddedTo(A, m)),
                               s.mt[m].queue \cup ReadyPools(s, A, m))
               /\ mt[m] \in MediaTypeRecord
    <2> DEFINE r == s.mt[m]
               c == Cardinality(AddedTo(A, m))
               R == ReadyPools(s, A, m)
    <2>1. r \in MediaTypeRecord /\ R \in SUBSET Pools
      BY DEF QueuesRecord, ReadyPools
    <2>2. c \in Nat
      BY FiniteAlerts DEF AddedTo
    <2>3. mt[m] = [r EXCEPT !.refcount = @ + c, !.queue = @ \cup R]
      OBVIOUS
    <2> HIDE DEF mt, r, c, R
    <2>4. mt[m] = With(r, r.alerts_num, r.refcount + c, r.queue \cup R)
      BY <2>1, <2>3 DEF With, MediaTypeRecord
    <2>5. r.alerts_num \in Nat /\ r.refcount + c \in Nat /\ r.queue \cup R \in SUBSET Pools
      BY <2>1, <2>2 DEF MediaTypeRecord
    <2>6. mt[m] \in MediaTypeRecord
      BY <2>1, <2>4, <2>5, WithMediatype
    <2> QED BY <2>4, <2>6 DEF r, c, R
  <1>3. ASSUME NEW m \in MediaTypes, NEW p \in Pools
        PROVE  /\ ap[m][p] = With(s.ap[m][p], s.ap[m][p].alerts_num,
                                  s.ap[m][p].refcount + Cardinality(AddedIn(A, m, p)),
                                  s.ap[m][p].queue \cup AddedIn(A, m, p))
               /\ ap[m][p] \in PoolRecord
    <2> DEFINE r == s.ap[m][p]
               c == Cardinality(AddedIn(A, m, p))
               R == AddedIn(A, m, p)
    <2>1. r \in PoolRecord /\ R \in SUBSET Alerts
      BY DEF QueuesRecord, AddedIn, AddedTo
    <2>2. c \in Nat
      BY FiniteAlerts DEF AddedTo, AddedIn
    <2>3. ap[m][p] = [r EXCEPT !.refcount = @ + c, !.queue = @ \cup R]
      OBVIOUS
    <2> HIDE DEF ap, r, c, R
    <2>4. ap[m][p] = With(r, r.alerts_num, r.refcount + c, r.queue \cup R)
      BY <2>1, <2>3 DEF With, PoolRecord
    <2>5. r.alerts_num \in Nat /\ r.refcount + c \in Nat /\ r.queue \cup R \in SUBSET Alerts
      BY <2>1, <2>2 DEF PoolRecord
    <2>6. ap[m][p] \in PoolRecord
      BY <2>1, <2>4, <2>5, WithPool
    <2> QED BY <2>4, <2>6 DEF r, c, R
  <1>4. mt \in [MediaTypes -> MediaTypeRecord]
    BY <1>2
  <1>5. ap \in [MediaTypes -> [Pools -> PoolRecord]]
    BY <1>3
  <1> HIDE DEF mt, ap
  <1>6. u.mt = mt /\ u.ap = ap /\ u.q = s.q /\ u = [mt |-> mt, ap |-> ap, q |-> s.q]
    <2>1. DOMAIN s = {"mt", "ap", "q"} /\ s = [x \in {"mt", "ap", "q"} |-> s[x]]
      BY DEF QueuesRecord
    <2>2. u = [x \in {"mt", "ap", "q"} |-> IF x = "mt" THEN mt ELSE IF x = "ap" THEN ap ELSE s[x]]
      BY <2>1
    <2>3. u.mt = mt
      BY <2>2
    <2>4. u.ap = ap
      BY <2>2
    <2>5. u.q = s.q
      BY <2>2
    <2>6. u = [mt |-> mt, ap |-> ap, q |-> s.q]
      BY <2>2
    <2> QED BY <2>3, <2>4, <2>5, <2>6
  <1> HIDE DEF u
  <1>7. q \in SUBSET MediaTypes
    OBVIOUS
  <1>8. t.mt = mt /\ t.ap = ap /\ t.q = s.q \cup q /\ t = [mt |-> mt, ap |-> ap, q |-> s.q \cup q]
    <2> HIDE DEF q
    <2> QED BY <1>1, <1>6
  <1>9. t \in QueuesRecord
    <2> HIDE DEF q
    <2> QED BY <1>4, <1>5, <1>7, <1>8 DEF QueuesRecord
  <1>10. t.q = s.q \cup {m \in MediaTypes : AddedTo(A, m) # {} /\ t.mt[m].queue # {} /\ Room(t.mt[m])}
    BY <1>6, <1>8
  <1> QED BY <1>2, <1>3, <1>8, <1>9, <1>10 DEF AddedBy

(* Disjoint sets of alerts are counted apart. *)
LEMMA DisjointAlerts ==
  ASSUME NEW S \in SUBSET Alerts, NEW T \in SUBSET Alerts, S \cap T = {}
  PROVE  /\ Cardinality(S \cup T) = Cardinality(S) + Cardinality(T)
         /\ Cardinality(S) \in Nat /\ Cardinality(T) \in Nat
  <1>1. IsFiniteSet(S) /\ IsFiniteSet(T) /\ Cardinality(S) \in Nat /\ Cardinality(T) \in Nat
    BY FiniteAlerts
  <1>2. Cardinality(S \cap T) = 0
    BY FS_EmptySet, Zenon
  <1>3. Cardinality(S \cup T) = Cardinality(S) + Cardinality(T) - Cardinality(S \cap T)
    BY <1>1, FS_Union
  <1> QED BY <1>1, <1>2, <1>3

(* Alerts A are in the queues t, and were not in s. *)
Grown(s, t, F, A) ==
    /\ QueuesInv(t, F) /\ ActiveIn(t, F) = ActiveIn(s, F) \cup A
    /\ \A m \in MediaTypes : /\ t.mt[m].exists = s.mt[m].exists
                             /\ t.mt[m].remove = s.mt[m].remove
                             /\ t.mt[m].settings = s.mt[m].settings
                             /\ t.mt[m].refcount = s.mt[m].refcount + Cardinality(AddedTo(A, m))

(* Alerts that the manager does not have yet are added. *)
LEMMA AddAlertsInv ==
  ASSUME NEW s, NEW F, QueuesInv(s, F), NEW A \in SUBSET Alerts, A \cap ActiveIn(s, F) = {},
         \A a \in A : s.mt[MediaType[a]].exists,
         NEW t, t = AddAlerts(s, A)
  PROVE  Grown(s, t, F, A)
  <1>0. s \in QueuesRecord /\ F \in SUBSET Alerts
    BY DEF QueuesInv
  <1>1. /\ t \in QueuesRecord
        /\ \A m \in MediaTypes :
              t.mt[m] = With(s.mt[m], s.mt[m].alerts_num, s.mt[m].refcount + Cardinality(AddedTo(A, m)),
                             s.mt[m].queue \cup ReadyPools(s, A, m))
        /\ \A m \in MediaTypes, p \in Pools :
              t.ap[m][p] = With(s.ap[m][p], s.ap[m][p].alerts_num,
                                s.ap[m][p].refcount + Cardinality(AddedIn(A, m, p)),
                                s.ap[m][p].queue \cup AddedIn(A, m, p))
        /\ t.q = s.q \cup {m \in MediaTypes : AddedTo(A, m) # {} /\ t.mt[m].queue # {} /\ Room(t.mt[m])}
    <2>1. AddedBy(s, t, A)
      BY <1>0, AddAlertsEffect
    <2> QED BY <2>1, Zenon DEF AddedBy
  <1>2. ASSUME NEW m \in MediaTypes
        PROVE  /\ AddedTo(A, m) \in SUBSET OfType(m) /\ Cardinality(AddedTo(A, m)) \in Nat
               /\ ReadyPools(s, A, m) \in SUBSET Pools
               /\ \A p \in Pools : /\ AddedIn(A, m, p) \in SUBSET Of(m, p)
                                   /\ Cardinality(AddedIn(A, m, p)) \in Nat
    <2>1. AddedTo(A, m) \in SUBSET Alerts /\ \A p \in Pools : AddedIn(A, m, p) \in SUBSET Alerts
      BY DEF AddedTo, AddedIn
    <2>2. Cardinality(AddedTo(A, m)) \in Nat /\ \A p \in Pools : Cardinality(AddedIn(A, m, p)) \in Nat
      BY <2>1, FiniteAlerts
    <2> QED BY <2>2 DEF AddedTo, AddedIn, OfType, Of, ReadyPools
  <1>3. ASSUME NEW m \in MediaTypes
        PROVE  /\ t.mt[m].exists = s.mt[m].exists /\ t.mt[m].remove = s.mt[m].remove
               /\ t.mt[m].settings = s.mt[m].settings /\ t.mt[m].alerts_num = s.mt[m].alerts_num
               /\ t.mt[m].refcount = s.mt[m].refcount + Cardinality(AddedTo(A, m))
               /\ t.mt[m].queue = s.mt[m].queue \cup ReadyPools(s, A, m)
    <2> DEFINE r == s.mt[m]
               k == s.mt[m].refcount + Cardinality(AddedTo(A, m))
               Q == s.mt[m].queue \cup ReadyPools(s, A, m)
    <2>1. r \in MediaTypeRecord /\ r.alerts_num \in Nat /\ k \in Nat /\ Q \in SUBSET Pools
      BY <1>0, <1>2 DEF QueuesRecord, MediaTypeRecord
    <2>2. t.mt[m] = With(r, r.alerts_num, k, Q)
      BY <1>1
    <2> HIDE DEF r, k, Q
    <2>3. /\ t.mt[m].exists = r.exists /\ t.mt[m].remove = r.remove
          /\ t.mt[m].settings = r.settings /\ t.mt[m].alerts_num = r.alerts_num
          /\ t.mt[m].refcount = k /\ t.mt[m].queue = Q
      BY <2>1, <2>2, WithMediatype
    <2> QED BY <2>3 DEF r, k, Q
  <1>4. ASSUME NEW m \in MediaTypes, NEW p \in Pools
        PROVE  /\ t.ap[m][p].alerts_num = s.ap[m][p].alerts_num
               /\ t.ap[m][p].refcount = s.ap[m][p].refcount + Cardinality(AddedIn(A, m, p))
               /\ t.ap[m][p].queue = s.ap[m][p].queue \cup AddedIn(A, m, p)
    <2> DEFINE r == s.ap[m][p]
               k == s.ap[m][p].refcount + Cardinality(AddedIn(A, m, p))
               Q == s.ap[m][p].queue \cup AddedIn(A, m, p)
    <2>1. r \in PoolRecord /\ r.alerts_num \in Nat /\ k \in Nat /\ Q \in SUBSET Alerts
      <3>1. r \in PoolRecord
        BY <1>0 DEF QueuesRecord
      <3>2. AddedIn(A, m, p) \in SUBSET Alerts
        BY DEF AddedIn, AddedTo
      <3>3. r.alerts_num \in Nat /\ r.refcount \in Nat /\ r.queue \in SUBSET Alerts
        BY <3>1 DEF PoolRecord
      <3> QED BY <1>2, <3>1, <3>2, <3>3
    <2>2. t.ap[m][p] = With(r, r.alerts_num, k, Q)
      BY <1>1
    <2> HIDE DEF r, k, Q
    <2>3. t.ap[m][p].alerts_num = r.alerts_num /\ t.ap[m][p].refcount = k /\ t.ap[m][p].queue = Q
      BY <2>1, <2>2, WithPool
    <2> QED BY <2>3 DEF r, k, Q
  <1>5. ASSUME NEW a \in A
        PROVE  /\ MediaType[a] \in MediaTypes /\ Pool[a] \in Pools /\ a \notin F
               /\ a \notin s.ap[MediaType[a]][Pool[a]].queue
    BY PlacesOf DEF ActiveIn
  <1>6. ASSUME NEW a \in Alerts
        PROVE  a \in t.ap[MediaType[a]][Pool[a]].queue <=> a \in s.ap[MediaType[a]][Pool[a]].queue \/ a \in A
    <2>1. MediaType[a] \in MediaTypes /\ Pool[a] \in Pools
      BY PlacesOf
    <2>2. a \in AddedIn(A, MediaType[a], Pool[a]) <=> a \in A
      BY DEF AddedIn, AddedTo
    <2> QED BY <1>4, <2>1, <2>2
  <1>7. ActiveIn(t, F) = ActiveIn(s, F) \cup A
    BY <1>6 DEF ActiveIn
  <1>8. ASSUME NEW m \in MediaTypes, NEW p \in Pools PROVE PoolInv(t, F, m, p)
    <2> DEFINE S == s.ap[m][p].queue
               T == AddedIn(A, m, p)
    <2>0. PoolInv(s, F, m, p)
      BY DEF QueuesInv
    <2>1. S \in SUBSET Alerts /\ T \in SUBSET Alerts /\ S \cap T = {}
      BY <1>0, <1>2, <1>5, QueuesFields, OfSubset DEF AddedIn, AddedTo
    <2>2. T \subseteq Of(m, p) \ F
      BY <1>2, <1>5 DEF AddedIn, AddedTo
    <2>3. t.ap[m][p].queue \subseteq Of(m, p) \ F
      BY <1>4, <2>0, <2>2 DEF PoolInv
    <2>4. Cardinality(S \cup T) = Cardinality(S) + Cardinality(T) /\ Cardinality(S) \in Nat
          /\ Cardinality(T) \in Nat
      <3> HIDE DEF S, T
      <3> QED BY <2>1, DisjointAlerts
    <2>5. Cardinality(t.ap[m][p].queue) = Cardinality(S \cup T)
      BY <1>4, Zenon
    <2>6. s.ap[m][p].refcount = s.ap[m][p].alerts_num + Cardinality(S)
      BY <2>0 DEF PoolInv
    <2>7. s.ap[m][p].alerts_num \in Nat
      BY <1>0, QueuesFields
    <2>8. t.ap[m][p].refcount = t.ap[m][p].alerts_num + Cardinality(t.ap[m][p].queue)
      BY <1>4, <2>4, <2>5, <2>6, <2>7
    <2>9. t.ap[m][p].alerts_num = Cardinality(F \cap Of(m, p)) /\ t.ap[m][p].alerts_num <= 1
      BY <1>4, <2>0 DEF PoolInv
    <2>10. p \in t.mt[m].queue <=> t.ap[m][p].queue # {} /\ t.ap[m][p].alerts_num = 0
      <3>1. p \in s.mt[m].queue <=> s.ap[m][p].queue # {} /\ s.ap[m][p].alerts_num = 0
        BY <2>0 DEF PoolInv
      <3>2. p \in t.mt[m].queue <=> p \in s.mt[m].queue \/ p \in ReadyPools(s, A, m)
        BY <1>3
      <3>3. p \in ReadyPools(s, A, m) <=> T # {} /\ s.ap[m][p].alerts_num = 0
        BY DEF ReadyPools, PoolReady
      <3>4. t.ap[m][p].queue # {} <=> s.ap[m][p].queue # {} \/ T # {}
        BY <1>4
      <3> HIDE DEF T
      <3> QED BY <1>4, <3>1, <3>2, <3>3, <3>4
    <2> QED BY <2>3, <2>8, <2>9, <2>10 DEF PoolInv
  <1>9. ASSUME NEW m \in MediaTypes PROVE MediaInv(t, F, m)
    <2> DEFINE S == QueuedOf(s, m)
               T == AddedTo(A, m)
    <2>0. MediaInv(s, F, m)
      BY DEF QueuesInv
    <2>1. S \in SUBSET Alerts /\ T \in SUBSET Alerts /\ S \cap T = {}
      BY <1>2, <1>5, OfSubset DEF QueuedOf, AddedTo
    <2>2. QueuedOf(t, m) = S \cup T
      BY <1>6 DEF QueuedOf, OfType, AddedTo
    <2>3. Cardinality(S \cup T) = Cardinality(S) + Cardinality(T) /\ Cardinality(S) \in Nat
          /\ Cardinality(T) \in Nat
      <3> HIDE DEF S, T
      <3> QED BY <2>1, DisjointAlerts
    <2>4. Cardinality(QueuedOf(t, m)) = Cardinality(S \cup T)
      BY <2>2, Zenon
    <2>5. /\ s.mt[m].refcount = s.mt[m].alerts_num + Cardinality(S)
          /\ s.mt[m].alerts_num = Cardinality(F \cap OfType(m))
      BY <2>0 DEF MediaInv
    <2>6. s.mt[m].alerts_num \in Nat /\ s.mt[m].settings \in AllSettings
      BY <1>0 DEF QueuesRecord, MediaTypeRecord
    <2>7. t.mt[m].refcount = t.mt[m].alerts_num + Cardinality(QueuedOf(t, m))
      BY <1>3, <2>3, <2>4, <2>5, <2>6
    <2>8. t.mt[m].alerts_num = Cardinality(F \cap OfType(m))
      BY <1>3, <2>5
    <2>9. m \in t.q => t.mt[m].queue # {}
      <3>1. m \in s.q => s.mt[m].queue # {}
        BY <2>0 DEF MediaInv
      <3>2. t.mt[m].queue = {} => s.mt[m].queue = {}
        BY <1>3
      <3> QED BY <1>1, <3>1, <3>2
    <2>10. t.mt[m].queue # {} => m \in t.q \/ t.mt[m].alerts_num > 0
      <3>1. CASE s.mt[m].queue # {}
        <4>1. m \in s.q \/ s.mt[m].alerts_num > 0
          BY <2>0, <3>1 DEF MediaInv
        <4> QED BY <1>1, <1>3, <4>1
      <3>2. CASE s.mt[m].queue = {} /\ t.mt[m].queue # {}
        <4>1. ReadyPools(s, A, m) # {}
          BY <1>3, <3>2
        <4>2. AddedTo(A, m) # {}
          BY <4>1 DEF ReadyPools, AddedIn
        <4>3. CASE Room(t.mt[m])
          BY <1>1, <3>2, <4>2, <4>3
        <4>4. CASE ~Room(t.mt[m])
          <5>1. t.mt[m].settings.maxsessions \in Nat
            BY <1>3, <2>6, AlertAssumption DEF AllSettings, NoSettings
          <5> QED BY <1>3, <2>6, <4>4, <5>1 DEF Room
        <4> QED BY <4>3, <4>4
      <3> QED BY <3>1, <3>2
    <2>11. ~t.mt[m].exists => t.mt[m] = Absent
      <3> SUFFICES ASSUME ~t.mt[m].exists PROVE t.mt[m] = Absent
        OBVIOUS
      <3>1. s.mt[m] = Absent
        BY <1>3, <2>0 DEF MediaInv
      <3>2. AddedTo(A, m) = {}
        BY <1>3 DEF AddedTo
      <3>3. ReadyPools(s, A, m) = {} /\ Cardinality(AddedTo(A, m)) = 0
        BY <3>2, FS_EmptySet, Zenon DEF ReadyPools, AddedIn
      <3>4. t.mt[m] = With(Absent, Absent.alerts_num, Absent.refcount + 0, Absent.queue \cup {})
        BY <1>1, <3>1, <3>3
      <3>5. Absent.alerts_num = 0 /\ Absent.refcount + 0 = 0 /\ Absent.queue \cup {} = {}
        BY DEF Absent
      <3>6. t.mt[m] = With(Absent, 0, 0, {})
        BY <3>4, <3>5, Zenon
      <3>7. With(Absent, 0, 0, {}) = Absent
        <4>1. Absent \in MediaTypeRecord
          BY DEF Absent, MediaTypeRecord, AllSettings
        <4>2. With(Absent, Absent.alerts_num, Absent.refcount, Absent.queue) = Absent
          BY <4>1 DEF With, MediaTypeRecord
        <4>3. Absent.alerts_num = 0 /\ Absent.refcount = 0 /\ Absent.queue = {}
          BY DEF Absent
        <4> QED BY <4>2, <4>3, Zenon
      <3> QED BY <3>6, <3>7, Zenon
    <2> QED BY <2>7, <2>8, <2>9, <2>10, <2>11 DEF MediaInv
  <1>10. QueuesInv(t, F)
    BY <1>0, <1>1, <1>8, <1>9 DEF QueuesInv
  <1> QED BY <1>3, <1>7, <1>10, Zenon DEF Grown

(* Added alerts refer to their media types. *)
LEMMA AddAlertsRemoved ==
  ASSUME NEW s, NEW F, QueuesInv(s, F), NEW A \in SUBSET Alerts, NEW t,
         \A m \in MediaTypes : /\ t.mt[m].remove = s.mt[m].remove
                               /\ t.mt[m].refcount = s.mt[m].refcount + Cardinality(AddedTo(A, m)),
         \A m \in MediaTypes : s.mt[m].remove => s.mt[m].refcount > 0 \/ AddedTo(A, m) # {}
  PROVE  RemovedInUse(t)
  <1> SUFFICES ASSUME NEW m \in MediaTypes, t.mt[m].remove PROVE t.mt[m].refcount > 0
    BY DEF RemovedInUse
  <1>1. s.mt[m].refcount \in Nat
    BY DEF QueuesInv, QueuesRecord, MediaTypeRecord
  <1>2. AddedTo(A, m) \in SUBSET Alerts
    BY DEF AddedTo
  <1>3. IsFiniteSet(AddedTo(A, m)) /\ Cardinality(AddedTo(A, m)) \in Nat
    BY <1>2, FiniteAlerts
  <1>4. Cardinality(AddedTo(A, m)) = 0 => AddedTo(A, m) = {}
    BY <1>3, FS_EmptySet
  <1> QED BY <1>1, <1>3, <1>4

==============================================================================
