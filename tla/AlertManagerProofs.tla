------------------------- MODULE AlertManagerProofs --------------------------
(***************************************************************************)
(* Proofs about the alert manager, its syncer and its alerters, for any    *)
(* alerts, pools, media types, settings and number of alerters: the queues *)
(* and their counters are right, the syncer and the manager agree on the   *)
(* media types the manager has, no alert is lost and none is sent twice by *)
(* one run of the server.                                                  *)
(***************************************************************************)
EXTENDS AlertQueueProofs

(* The alerts that alerters have. *)
Flying == {a \in Alerts : sending[a] # "no"}

(* The alerts the manager has. *)
Active == ActiveIn(Queues, Flying)

(* The alerts in a message and in a sequence of messages, and whether no   *)
(* two messages of a sequence have one in common.                          *)
Carried(msg) == IF msg.type = "ALERTS" THEN msg.ids ELSE {}
CarriedBy(q) == UNION {Carried(q[i]) : i \in 1..Len(q)}
Apart(q) == \A i, j \in 1..Len(q) : i # j => Carried(q[i]) \cap Carried(q[j]) = {}

Final(r) == r.status \in {"SENT", "FAILED"}

(* An alert is in one place at a time: in a message to the manager, in the *)
(* manager, or in a final result; until the result is written the alert is *)
(* not sent according to the database, and the syncer does not take it     *)
(* again.                                                                  *)
LifeInv(a) ==
    /\ a \in CarriedBy(inbox) \/ a \in Active \/ results[a] # NoResult \/ answer[a] # NoResult
         => db[a].status = "NOT_SENT" /\ status_limit = 1
    /\ a \in Active => a \notin CarriedBy(inbox)
    /\ Final(results[a]) => a \notin CarriedBy(inbox) /\ a \notin Active
    /\ Final(answer[a]) => a \notin CarriedBy(inbox) /\ a \notin Active /\ results[a] = NoResult
    /\ results[a].status = "none" => results[a] = NoResult
    /\ answer[a].status = "none" => answer[a] = NoResult

(* A request that is pending, and a watchdog alert that was made, are the  *)
(* only ones the manager may have.                                         *)
OthersInv ==
    /\ \A x \in External : x \in Active => test[x].state = "pending"
    /\ \A w \in Watchdog : w \in Active => w \in made

(* Every alerter that has connected is free or has an alert. *)
AlertersInv == free + unregistered + Cardinality(Flying) = Alerters

IInv ==
    /\ TypeOK
    /\ QueuesInv(Queues, Flying) /\ RemovedInUse(Queues)
    /\ \A a \in DbAlerts : LifeInv(a)
    /\ Apart(inbox) /\ OthersInv /\ AlertersInv

(* The syncer waits for the answer to its last message, and has no other   *)
(* results than those of that answer.                                      *)
SyncerInv ==
    /\ \A i \in 1..Len(inbox) : inbox[i].type = "RESULTS" => syncer = "wait" /\ i = Len(inbox)
    /\ syncer # "answered" => answer = NoResults

(* The manager has media type m, and for longer than until its last alert; *)
(* a step after which that is so of every media type it was so of.         *)
Known(m) == mediatypes[m].exists /\ ~mediatypes[m].remove
KnownKept == \A m \in MediaTypes : Known(m) => Known(m)'

------------------------------------------------------------------------------
(* Sequences of messages *)

(* The first message and the others. *)
LEMMA CarriedByTail ==
  ASSUME NEW q \in Seq(MessageRecord), q # <<>>, Apart(q)
  PROVE  /\ CarriedBy(q) = Carried(Head(q)) \cup CarriedBy(Tail(q))
         /\ Carried(Head(q)) \cap CarriedBy(Tail(q)) = {}
         /\ Apart(Tail(q)) /\ Head(q) \in MessageRecord /\ Tail(q) \in Seq(MessageRecord)
  <1>1. /\ Head(q) = q[1] /\ Tail(q) \in Seq(MessageRecord) /\ Len(q) \in Nat /\ Len(q) >= 1
        /\ Len(Tail(q)) = Len(q) - 1 /\ \A i \in 1..Len(Tail(q)) : Tail(q)[i] = q[i + 1]
        /\ Head(q) \in MessageRecord
    BY HeadTailProperties, EmptySeq, LenProperties
  <1>2. CarriedBy(q) = Carried(q[1]) \cup CarriedBy(Tail(q))
    <2>1. ASSUME NEW a \in CarriedBy(q) PROVE a \in Carried(q[1]) \cup CarriedBy(Tail(q))
      <3>1. PICK i \in 1..Len(q) : a \in Carried(q[i])
        BY DEF CarriedBy
      <3>2. CASE i = 1
        BY <3>1, <3>2
      <3>3. CASE i # 1
        <4>1. i - 1 \in 1..Len(Tail(q)) /\ Tail(q)[i - 1] = q[i]
          BY <1>1, <3>3
        <4> QED BY <3>1, <4>1 DEF CarriedBy
      <3> QED BY <3>2, <3>3
    <2>2. ASSUME NEW a \in Carried(q[1]) PROVE a \in CarriedBy(q)
      BY <1>1 DEF CarriedBy
    <2>3. ASSUME NEW a \in CarriedBy(Tail(q)) PROVE a \in CarriedBy(q)
      <3>1. PICK i \in 1..Len(Tail(q)) : a \in Carried(Tail(q)[i])
        BY DEF CarriedBy
      <3>2. i + 1 \in 1..Len(q) /\ a \in Carried(q[i + 1])
        BY <1>1, <3>1
      <3> QED BY <3>2 DEF CarriedBy
    <2> QED BY <2>1, <2>2, <2>3
  <1>3. Carried(q[1]) \cap CarriedBy(Tail(q)) = {}
    <2>1. ASSUME NEW a \in CarriedBy(Tail(q)), a \in Carried(q[1]) PROVE FALSE
      <3>1. PICK i \in 1..Len(Tail(q)) : a \in Carried(Tail(q)[i])
        BY DEF CarriedBy
      <3>2. i + 1 \in 1..Len(q) /\ i + 1 # 1 /\ 1 \in 1..Len(q) /\ a \in Carried(q[i + 1])
        BY <1>1, <3>1
      <3> QED BY <2>1, <3>2 DEF Apart
    <2> QED BY <2>1
  <1>4. Apart(Tail(q))
    <2> SUFFICES ASSUME NEW i \in 1..Len(Tail(q)), NEW j \in 1..Len(Tail(q)), i # j
                 PROVE  Carried(Tail(q)[i]) \cap Carried(Tail(q)[j]) = {}
      BY DEF Apart
    <2>1. i + 1 \in 1..Len(q) /\ j + 1 \in 1..Len(q) /\ i + 1 # j + 1
      BY <1>1
    <2>2. Carried(q[i + 1]) \cap Carried(q[j + 1]) = {}
      BY <2>1 DEF Apart
    <2> QED BY <1>1, <2>2
  <1> QED BY <1>1, <1>2, <1>3, <1>4

(* Messages are sent after others. *)
LEMMA CarriedByConcat ==
  ASSUME NEW q \in Seq(MessageRecord), NEW r \in Seq(MessageRecord)
  PROVE  /\ q \o r \in Seq(MessageRecord)
         /\ CarriedBy(q \o r) = CarriedBy(q) \cup CarriedBy(r)
         /\ Apart(q) /\ Apart(r) /\ CarriedBy(q) \cap CarriedBy(r) = {} => Apart(q \o r)
  <1>1. /\ q \o r \in Seq(MessageRecord) /\ Len(q \o r) = Len(q) + Len(r)
        /\ Len(q) \in Nat /\ Len(r) \in Nat
        /\ \A i \in 1..Len(q \o r) : (q \o r)[i] = IF i <= Len(q) THEN q[i] ELSE r[i - Len(q)]
    BY ConcatProperties, LenProperties
  <1> DEFINE t == q \o r
  <1> HIDE DEF t
  <1>2. /\ t \in Seq(MessageRecord) /\ Len(t) = Len(q) + Len(r)
        /\ \A i \in 1..Len(t) : t[i] = IF i <= Len(q) THEN q[i] ELSE r[i - Len(q)]
    BY <1>1 DEF t
  <1>3. CarriedBy(t) = CarriedBy(q) \cup CarriedBy(r)
    <2>1. ASSUME NEW a \in CarriedBy(t) PROVE a \in CarriedBy(q) \cup CarriedBy(r)
      <3>1. PICK i \in 1..Len(t) : a \in Carried(t[i])
        BY DEF CarriedBy
      <3>2. CASE i <= Len(q)
        BY <1>1, <1>2, <3>1, <3>2 DEF CarriedBy
      <3>3. CASE i > Len(q)
        <4>1. i - Len(q) \in 1..Len(r) /\ t[i] = r[i - Len(q)]
          BY <1>1, <1>2, <3>3
        <4> QED BY <3>1, <4>1 DEF CarriedBy
      <3> QED BY <1>1, <1>2, <3>2, <3>3
    <2>2. ASSUME NEW a \in CarriedBy(q) PROVE a \in CarriedBy(t)
      <3>1. PICK i \in 1..Len(q) : a \in Carried(q[i])
        BY DEF CarriedBy
      <3>2. i \in 1..Len(t) /\ t[i] = q[i]
        BY <1>1, <1>2
      <3> QED BY <3>1, <3>2 DEF CarriedBy
    <2>3. ASSUME NEW a \in CarriedBy(r) PROVE a \in CarriedBy(t)
      <3>1. PICK i \in 1..Len(r) : a \in Carried(r[i])
        BY DEF CarriedBy
      <3>2. i + Len(q) \in 1..Len(t) /\ t[i + Len(q)] = r[i]
        <4>1. i + Len(q) \in 1..Len(t) /\ ~(i + Len(q) <= Len(q)) /\ (i + Len(q)) - Len(q) = i
          BY <1>1, <1>2
        <4> QED BY <1>2, <4>1
      <3> QED BY <3>1, <3>2 DEF CarriedBy
    <2> QED BY <2>1, <2>2, <2>3
  <1>4. ASSUME Apart(q), Apart(r), CarriedBy(q) \cap CarriedBy(r) = {} PROVE Apart(t)
    <2> SUFFICES ASSUME NEW i \in 1..Len(t), NEW j \in 1..Len(t), i # j
                 PROVE  Carried(t[i]) \cap Carried(t[j]) = {}
      BY DEF Apart
    <2>1. CASE i <= Len(q) /\ j <= Len(q)
      <3>1. i \in 1..Len(q) /\ j \in 1..Len(q) /\ t[i] = q[i] /\ t[j] = q[j]
        BY <1>1, <1>2, <2>1
      <3> QED BY <1>4, <3>1 DEF Apart
    <2>2. CASE i > Len(q) /\ j > Len(q)
      <3>1. /\ i - Len(q) \in 1..Len(r) /\ j - Len(q) \in 1..Len(r) /\ i - Len(q) # j - Len(q)
            /\ t[i] = r[i - Len(q)] /\ t[j] = r[j - Len(q)]
        BY <1>1, <1>2, <2>2
      <3> QED BY <1>4, <3>1 DEF Apart
    <2>3. CASE i <= Len(q) /\ j > Len(q)
      <3>1. i \in 1..Len(q) /\ j - Len(q) \in 1..Len(r) /\ t[i] = q[i] /\ t[j] = r[j - Len(q)]
        BY <1>1, <1>2, <2>3
      <3>2. Carried(t[i]) \subseteq CarriedBy(q) /\ Carried(t[j]) \subseteq CarriedBy(r)
        BY <3>1 DEF CarriedBy
      <3> QED BY <1>4, <3>2
    <2>4. CASE i > Len(q) /\ j <= Len(q)
      <3>1. i - Len(q) \in 1..Len(r) /\ j \in 1..Len(q) /\ t[i] = r[i - Len(q)] /\ t[j] = q[j]
        BY <1>1, <1>2, <2>4
      <3>2. Carried(t[i]) \subseteq CarriedBy(r) /\ Carried(t[j]) \subseteq CarriedBy(q)
        BY <3>1 DEF CarriedBy
      <3> QED BY <1>4, <3>2
    <2> QED BY <1>1, <1>2, <2>1, <2>2, <2>3, <2>4
  <1> QED BY <1>1, <1>3, <1>4 DEF t

(* No message, and one. *)
LEMMA CarriedByFew ==
  /\ <<>> \in Seq(MessageRecord) /\ CarriedBy(<<>>) = {} /\ Apart(<<>>)
  /\ \A msg \in MessageRecord : /\ <<msg>> \in Seq(MessageRecord) /\ CarriedBy(<<msg>>) = Carried(msg)
                                /\ Apart(<<msg>>)
  <1>1. <<>> \in Seq(MessageRecord) /\ CarriedBy(<<>>) = {} /\ Apart(<<>>)
    BY EmptySeq DEF CarriedBy, Apart
  <1>2. ASSUME NEW msg \in MessageRecord
        PROVE  <<msg>> \in Seq(MessageRecord) /\ CarriedBy(<<msg>>) = Carried(msg) /\ Apart(<<msg>>)
    BY DEF CarriedBy, Apart
  <1> QED BY <1>1, <1>2

------------------------------------------------------------------------------
(* What the parts of the invariant depend on. *)

(* The queues become s. *)
LEMMA BecomeQueues == ASSUME NEW s \in QueuesRecord, Become(s) PROVE Queues' = s
  BY DEF Become, Queues, QueuesRecord

(* The queues become queues in which the same media types are known. *)
LEMMA BecomeKnown ==
  ASSUME NEW s, Become(s),
         \A m \in MediaTypes : Queues.mt[m].exists /\ ~Queues.mt[m].remove => s.mt[m].exists /\ ~s.mt[m].remove
  PROVE  KnownKept
  <1>1. mediatypes' = s.mt /\ mediatypes = Queues.mt
    BY DEF Become, Queues
  <1> QED BY <1>1 DEF KnownKept, Known

(* The queues have the type the variables have. *)
LEMMA QueuesTyped ==
  ASSUME Queues \in QueuesRecord
  PROVE  /\ mediatypes \in [MediaTypes -> MediaTypeRecord] /\ queue \in SUBSET MediaTypes
         /\ alertpools \in [MediaTypes -> [Pools -> PoolRecord]]
         /\ Queues.mt = mediatypes /\ Queues.ap = alertpools /\ Queues.q = queue
  BY DEF Queues, QueuesRecord

(* The alerts that alerters have, after one changed hands. *)
LEMMA FlyingChange ==
  ASSUME TypeOK, NEW a \in Alerts, NEW v, sending' = [sending EXCEPT ![a] = v]
  PROVE  Flying' = IF v = "no" THEN Flying \ {a} ELSE Flying \cup {a}
  BY DEF TypeOK, Flying

(* How many there are. *)
LEMMA FlyingCount ==
  ASSUME NEW a \in Alerts
  PROVE  /\ Cardinality(Flying) \in Nat
         /\ a \in Flying => Cardinality(Flying \ {a}) = Cardinality(Flying) - 1 /\ Cardinality(Flying) > 0
         /\ a \notin Flying => Cardinality(Flying \cup {a}) = Cardinality(Flying) + 1
  <1>1. IsFiniteSet(Flying) /\ Cardinality(Flying) \in Nat
    BY FiniteAlerts DEF Flying
  <1>2. a \in Flying => Cardinality(Flying) # 0
    BY <1>1, FS_EmptySet
  <1>3. ASSUME a \in Flying PROVE Cardinality(Flying \ {a}) = Cardinality(Flying) - 1
    BY <1>1, <1>3, FS_RemoveElement
  <1>4. ASSUME a \notin Flying PROVE Cardinality(Flying \cup {a}) = Cardinality(Flying) + 1
    BY <1>1, <1>4, FS_AddElement
  <1> QED BY <1>1, <1>2, <1>3, <1>4

(* What becomes of an alert that nothing happens to but, perhaps, that it  *)
(* is gone from the manager or from a message.                             *)
LEMMA LifeKept ==
  ASSUME NEW a \in DbAlerts, LifeInv(a), a \in Active' => a \in Active,
         a \in CarriedBy(inbox)' => a \in CarriedBy(inbox),
         results'[a] = results[a], answer'[a] = answer[a], db'[a] = db[a], status_limit' = status_limit
  PROVE  LifeInv(a)'
  BY DEF LifeInv, Final

(* A step that leaves the queues and the alerts where they are. *)
LEMMA QuietIInv ==
  ASSUME IInv, TypeOK', Flying' = Flying, free' + unregistered' = free + unregistered,
         UNCHANGED <<mediatypes, alertpools, queue, results, inbox, answer, db, status_limit, made>>,
         \A x \in External : test[x].state = "pending" => test'[x].state = "pending"
  PROVE  IInv' /\ Active' = Active
  <1>1. Queues' = Queues
    BY DEF Queues
  <1>2. Active' = Active
    BY <1>1 DEF Active
  <1>3. QueuesInv(Queues, Flying)' /\ RemovedInUse(Queues)'
    BY <1>1 DEF IInv
  <1>4. \A a \in DbAlerts : LifeInv(a)'
    BY <1>2, LifeKept DEF IInv
  <1>5. Apart(inbox)' /\ AlertersInv' /\ OthersInv'
    BY <1>2 DEF IInv, AlertersInv, OthersInv
  <1> QED BY <1>2, <1>3, <1>4, <1>5 DEF IInv

(* The time is read. *)
LEMMA RipenIInv == ASSUME IInv, NEW a \in Alerts, Ripen(a) PROVE IInv'
  <1>1. TypeOK'
    BY DEF IInv, Ripen, TypeOK, alerterVars, syncerVars
  <1> QED BY <1>1, QuietIInv DEF Ripen, alerterVars, syncerVars, Flying

(* An alerter connects. *)
LEMMA RegisterIInv == ASSUME IInv, Register PROVE IInv'
  <1>1. unregistered' = unregistered - 1 /\ free' = free + 1 /\ unregistered > 0 /\ Flying' = Flying
    BY DEF Register, Flying
  <1>2. free \in Nat /\ unregistered \in Nat /\ Cardinality(Flying) \in Nat /\ Alerters \in Nat
    BY FiniteAlerts, AlertAssumption DEF IInv, TypeOK, Flying
  <1>3. free' \in 0..Alerters /\ unregistered' \in 0..Alerters
    BY <1>1, <1>2 DEF IInv, AlertersInv
  <1>4. TypeOK'
    BY <1>3 DEF IInv, Register, TypeOK, managerVars, syncerVars
  <1> QED BY <1>1, <1>2, <1>4, QuietIInv DEF Register, managerVars, syncerVars

(* An alerter sends an alert. *)
LEMMA DeliverIInv ==
  ASSUME IInv, NEW a \in Alerts, NEW ok \in BOOLEAN, Deliver(a, ok)
  PROVE  IInv' /\ Active' = Active /\ a \in Active
  <1>1. a \in Flying /\ TypeOK
    BY DEF IInv, Deliver, Flying
  <1>2. Flying' = Flying
    <2>1. PICK v \in {"sent", "failed"} : sending' = [sending EXCEPT ![a] = v]
      BY DEF Deliver
    <2>2. Flying' = Flying \cup {a}
      BY <1>1, <2>1, FlyingChange
    <2> QED BY <1>1, <2>2
  <1>3. sending' \in [Alerts -> {"no", "sending", "sent", "failed"}] /\ delivered' \in [DbAlerts -> Nat]
    BY DEF IInv, TypeOK, Deliver
  <1>4. TypeOK'
    BY <1>3 DEF IInv, Deliver, TypeOK, managerVars, syncerVars
  <1>5. a \in Active
    BY <1>1 DEF Active, ActiveIn
  <1>6. IInv' /\ Active' = Active
    BY <1>2, <1>4, QuietIInv DEF Deliver, managerVars, syncerVars
  <1> QED BY <1>5, <1>6

(* A trapper asks for a test. *)
LEMMA RequestTestIInv == ASSUME IInv, NEW x \in External, RequestTest(x) PROVE IInv'
  <1>1. x \in Alerts /\ config[MediaType[x]] \in AllSettings
    BY AlertAssumption DEF Alerts, IInv, TypeOK, AllSettings
  <1>2. test' \in [External -> TestRecord]
    <2>1. [state |-> "requested", settings |-> config[MediaType[x]]] \in TestRecord
      BY <1>1 DEF TestRecord
    <2> QED BY <2>1 DEF IInv, TypeOK, RequestTest
  <1>3. TypeOK'
    BY <1>2 DEF IInv, RequestTest, TypeOK, managerVars, alerterVars, syncerVars
  <1>4. \A y \in External : test[y].state = "pending" => test'[y].state = "pending"
    BY DEF RequestTest, IInv, TypeOK
  <1> QED BY <1>3, <1>4, QuietIInv DEF RequestTest, managerVars, alerterVars, syncerVars, Flying

(* Somebody changes a media type. *)
LEMMA ChangeMediatypeIInv == ASSUME IInv, NEW m \in MediaTypes, ChangeMediatype(m) PROVE IInv'
  <1>1. config' \in [MediaTypes -> Settings] /\ changes' \in 0..MaxChanges
    BY AlertAssumption DEF IInv, TypeOK, ChangeMediatype
  <1>2. TypeOK'
    BY <1>1 DEF IInv, ChangeMediatype, TypeOK, managerVars, alerterVars, syncerVars
  <1> QED BY <1>2, QuietIInv DEF ChangeMediatype, managerVars, alerterVars, syncerVars, Flying

(* Watchdog alerts are made. *)
LEMMA QueueWatchdogAlertsIInv ==
  ASSUME IInv, QueueWatchdogAlerts PROVE IInv' /\ KnownKept /\ Active \subseteq Active'
  <1> DEFINE W == {w \in Watchdog \ made : MediaType[w] \in watchdog /\ mediatypes[MediaType[w]].exists}
             t == AddAlerts(Queues, W)
  <1>0. /\ Become(t) /\ due' = due \cup W /\ made' = made \cup W
        /\ UNCHANGED <<alerts_num, retries, results, watchdog, sending, free, unregistered, syncer,
                       status_limit, cache, inbox, answer, db, config, test, delivered, restarts, changes>>
    BY DEF QueueWatchdogAlerts, alerterVars, syncerVars
  <1>1. QueuesInv(Queues, Flying) /\ TypeOK /\ Queues \in QueuesRecord
    BY DEF IInv, QueuesInv
  <1>2. W \in SUBSET Alerts /\ W \subseteq Watchdog /\ W \cap made = {}
    BY DEF Alerts
  <1>3. W \cap ActiveIn(Queues, Flying) = {}
    BY <1>2 DEF IInv, OthersInv, Active
  <1>4. \A a \in W : Queues.mt[MediaType[a]].exists
    BY <1>1, QueuesTyped
  <1> HIDE DEF W
  <1>5. /\ QueuesInv(t, Flying) /\ ActiveIn(t, Flying) = Active \cup W
        /\ \A m \in MediaTypes : /\ t.mt[m].exists = Queues.mt[m].exists
                                 /\ t.mt[m].remove = Queues.mt[m].remove
                                 /\ t.mt[m].refcount = Queues.mt[m].refcount + Cardinality(AddedTo(W, m))
    <2>1. Grown(Queues, t, Flying, W)
      BY <1>1, <1>2, <1>3, <1>4, AddAlertsInv
    <2> QED BY <2>1, Zenon DEF Grown, Active
  <1> HIDE DEF t
  <1>6. Queues' = t /\ Flying' = Flying /\ t \in QueuesRecord
    BY <1>0, <1>5, BecomeQueues DEF Flying, QueuesInv
  <1>7. Active' = Active \cup W
    BY <1>5, <1>6 DEF Active
  <1>8. RemovedInUse(t)
    <2>1. W \in SUBSET Alerts
      BY <1>2
    <2>2. \A m \in MediaTypes : Queues.mt[m].remove => Queues.mt[m].refcount > 0 \/ AddedTo(W, m) # {}
      BY DEF IInv, RemovedInUse
    <2>3. \A m \in MediaTypes : /\ t.mt[m].remove = Queues.mt[m].remove
                               /\ t.mt[m].refcount = Queues.mt[m].refcount + Cardinality(AddedTo(W, m))
      BY <1>5, Zenon
    <2> QED BY <1>1, <2>1, <2>2, <2>3, AddAlertsRemoved
  <1>9. \A a \in DbAlerts : LifeInv(a)'
    <2>1. ASSUME NEW a \in DbAlerts PROVE a \in Active' => a \in Active
      BY <1>2, <1>7, AlertAssumption
    <2> QED BY <1>0, <2>1, LifeKept DEF IInv
  <1>10. OthersInv'
    <2>1. ASSUME NEW x \in External PROVE x \in Active' => x \in Active
      BY <1>2, <1>7, AlertAssumption
    <2> QED BY <1>0, <1>7, <2>1 DEF IInv, OthersInv
  <1>11. TypeOK'
    <2>1. Queues' \in QueuesRecord
      BY <1>6
    <2>2. /\ mediatypes' \in [MediaTypes -> MediaTypeRecord] /\ queue' \in SUBSET MediaTypes
          /\ alertpools' \in [MediaTypes -> [Pools -> PoolRecord]]
      BY <2>1 DEF Queues, QueuesRecord
    <2> QED BY <1>0, <1>1, <1>2, <2>2 DEF TypeOK
  <1>12. Apart(inbox)' /\ AlertersInv'
    BY <1>0, <1>6 DEF IInv, AlertersInv
  <1>13. IInv'
    BY <1>5, <1>6, <1>8, <1>9, <1>10, <1>11, <1>12 DEF IInv
  <1>14. KnownKept
    BY <1>0, <1>5, BecomeKnown
  <1> QED BY <1>7, <1>13, <1>14

(* A result is reported. *)
LEMMA ReportType ==
  ASSUME IInv, NEW a \in Alerts, NEW st \in {"NOT_SENT", "SENT", "FAILED"}, NEW n \in Nat, Report(a, st, n)
  PROVE  results' \in [DbAlerts -> ResultRecord] /\ test' \in [External -> TestRecord]
  <1>1. [status |-> st, retries |-> n] \in ResultRecord
    BY DEF ResultRecord
  <1>2. results' \in [DbAlerts -> ResultRecord]
    BY <1>1 DEF IInv, TypeOK, Report
  <1>3. test' \in [External -> TestRecord]
    <2>1. CASE a \in External
      <3>1. test \in [External -> TestRecord] /\ test' = [test EXCEPT ![a].state = "answered"]
        BY <2>1 DEF IInv, TypeOK, Report
      <3> QED BY <3>1 DEF TestRecord
    <2>2. CASE a \notin External
      BY <2>2 DEF IInv, TypeOK, Report
    <2> QED BY <2>1, <2>2
  <1> QED BY <1>2, <1>3

(* The final result of an alert is reported when it leaves the manager. *)
LEMMA LeaveLife ==
  ASSUME IInv, NEW a \in Active, NEW st \in {"SENT", "FAILED"}, NEW n \in Nat, Report(a, st, n),
         Active' = Active \ {a}, UNCHANGED <<inbox, answer, db, status_limit, made>>
  PROVE  (\A b \in DbAlerts : LifeInv(b)') /\ OthersInv'
  <1>1. ASSUME NEW b \in DbAlerts PROVE LifeInv(b)'
    <2>0. LifeInv(b) /\ results \in [DbAlerts -> ResultRecord]
      BY DEF IInv, TypeOK
    <2>1. CASE b # a
      <3>1. results'[b] = results[b]
        BY <2>0, <2>1 DEF Report
      <3> QED BY <2>0, <3>1, LifeKept
    <2>2. CASE b = a
      <3>1. results'[b] = [status |-> st, retries |-> n]
        BY <2>0, <2>2 DEF Report
      <3>2. results'[b].status = st
        BY <3>1
      <3>3. st # "none"
        OBVIOUS
      <3>4. b \in Active /\ b \notin Active' /\ b \notin CarriedBy(inbox) /\ ~Final(answer[b])
        BY <2>0, <2>2 DEF LifeInv
      <3>5. db[b].status = "NOT_SENT" /\ status_limit = 1 /\ (answer[b].status = "none" => answer[b] = NoResult)
        BY <2>0, <3>4 DEF LifeInv
      <3> QED BY <3>2, <3>3, <3>4, <3>5 DEF LifeInv, Final
    <2> QED BY <2>1, <2>2
  <1>2. OthersInv'
    <2>1. ASSUME NEW x \in External, x \in Active' PROVE test'[x].state = "pending"
      <3>1. x # a /\ x \in Active /\ test[x].state = "pending"
        BY <2>1 DEF IInv, OthersInv
      <3> QED BY <3>1 DEF Report, IInv, TypeOK
    <2> QED BY <2>1 DEF IInv, OthersInv
  <1> QED BY <1>1, <1>2

(* An alert that is tried again is reported as not sent. *)
LEMMA StayLife ==
  ASSUME IInv, NEW a \in Active, a \notin External, NEW n \in Nat, Report(a, "NOT_SENT", n),
         Active' = Active, UNCHANGED <<inbox, answer, db, status_limit, made>>
  PROVE  (\A b \in DbAlerts : LifeInv(b)') /\ OthersInv'
  <1>1. ASSUME NEW b \in DbAlerts PROVE LifeInv(b)'
    <2>0. LifeInv(b) /\ results \in [DbAlerts -> ResultRecord]
      BY DEF IInv, TypeOK
    <2>1. CASE b # a
      <3>1. results'[b] = results[b]
        BY <2>0, <2>1 DEF Report
      <3> QED BY <2>0, <3>1, LifeKept
    <2>2. CASE b = a
      <3>1. results'[b] = [status |-> "NOT_SENT", retries |-> n]
        BY <2>0, <2>2 DEF Report
      <3>2. results'[b].status = "NOT_SENT"
        BY <3>1
      <3>4. b \in Active /\ b \notin CarriedBy(inbox) /\ ~Final(answer[b])
        BY <2>0, <2>2 DEF LifeInv
      <3>5. db[b].status = "NOT_SENT" /\ status_limit = 1 /\ (answer[b].status = "none" => answer[b] = NoResult)
        BY <2>0, <3>4 DEF LifeInv
      <3> QED BY <3>2, <3>4, <3>5 DEF LifeInv, Final
    <2> QED BY <2>1, <2>2
  <1>2. test' = test
    BY DEF Report
  <1> QED BY <1>1, <1>2 DEF IInv, OthersInv

(* An alert is given to an alerter, or fails at once. *)
LEMMA DispatchIInv ==
  ASSUME IInv, NEW a \in Alerts, NEW prepared \in BOOLEAN, Dispatch(a, prepared)
  PROVE  /\ IInv' /\ KnownKept
         /\ \/ Active' = Active /\ UNCHANGED results /\ sending' = [sending EXCEPT ![a] = "sending"]
               /\ a \in Active /\ a \notin Flying
            \/ Active' = Active \ {a} /\ a \in Active /\ Report(a, "FAILED", 0) /\ UNCHANGED sending
  <1> DEFINE s == PopAlert(Queues, a)
             t == RemoveAlert(s, a)
             G == Flying \cup {a}
  <1>0. /\ free > 0 /\ a \in Sendable /\ due' = due \ {a}
        /\ UNCHANGED <<retries, watchdog, unregistered, syncer, status_limit, cache, inbox, answer, db,
                       config, made, delivered, restarts, changes>>
    BY DEF Dispatch, syncerVars
  <1>1. QueuesInv(Queues, Flying) /\ TypeOK /\ Queues \in QueuesRecord /\ RemovedInUse(Queues)
    BY DEF IInv, QueuesInv
  <1>2. Pool[a] \in Queues.mt[MediaType[a]].queue /\ a \in Queues.ap[MediaType[a]][Pool[a]].queue
    BY <1>0, <1>1, QueuesTyped DEF Sendable
  <1>3. /\ QueuesInv(s, G) /\ a \notin Flying /\ ActiveIn(s, G) = Active
        /\ \A n \in MediaTypes : /\ s.mt[n].exists = Queues.mt[n].exists
                                 /\ s.mt[n].remove = Queues.mt[n].remove
                                 /\ s.mt[n].refcount = Queues.mt[n].refcount
    <2>1. PopKeeps(Queues, Flying, a)
      BY <1>1, <1>2, PopAlertInv
    <2> QED BY <2>1, Zenon DEF PopKeeps, Active
  <1>4. RemovedInUse(s)
    BY <1>1, <1>3 DEF RemovedInUse
  <1>5. a \in Active
    BY <1>2 DEF Active, ActiveIn
  <1>6. free \in 0..Alerters /\ unregistered \in 0..Alerters /\ Cardinality(Flying) \in Nat
    BY <1>1, FlyingCount DEF TypeOK
  <1>7. CASE prepared /\ ~mediatypes[MediaType[a]].settings.error
    <2>1. /\ Become(s) /\ sending' = [sending EXCEPT ![a] = "sending"] /\ free' = free - 1
          /\ UNCHANGED <<alerts_num, results, test>>
      BY <1>7 DEF Dispatch
    <2> HIDE DEF s
    <2>2. Queues' = s /\ Flying' = G
      <3>1. s \in QueuesRecord
        BY <1>3 DEF QueuesInv
      <3>2. Queues' = s
        BY <2>1, <3>1, BecomeQueues
      <3>3. Flying' = Flying \cup {a}
        <4>1. sending \in [Alerts -> {"no", "sending", "sent", "failed"}]
          BY <1>1 DEF TypeOK
        <4>2. \A b \in Alerts : sending'[b] # "no" <=> sending[b] # "no" \/ b = a
          BY <2>1, <4>1
        <4> QED BY <4>2 DEF Flying
      <3> QED BY <3>2, <3>3
    <2>3. Active' = Active
      BY <1>3, <2>2 DEF Active
    <2>4. \A b \in DbAlerts : LifeInv(b)'
      BY <1>0, <2>1, <2>3, LifeKept DEF IInv
    <2>5. OthersInv' /\ Apart(inbox)'
      BY <1>0, <2>1, <2>3 DEF IInv, OthersInv
    <2>6. AlertersInv'
      <3>1. Cardinality(Flying') = Cardinality(Flying) + 1
        BY <1>3, <2>2, FlyingCount
      <3> QED BY <1>0, <1>6, <2>1, <3>1 DEF IInv, AlertersInv
    <2>7. TypeOK'
      <3>1. Queues' \in QueuesRecord
        BY <1>3, <2>2 DEF QueuesInv
      <3>2. /\ mediatypes' \in [MediaTypes -> MediaTypeRecord] /\ queue' \in SUBSET MediaTypes
            /\ alertpools' \in [MediaTypes -> [Pools -> PoolRecord]]
        BY <3>1 DEF Queues, QueuesRecord
      <3>3. free' \in 0..Alerters /\ sending' \in [Alerts -> {"no", "sending", "sent", "failed"}]
        <4>1. free' \in 0..Alerters
          BY <1>0, <1>6, <2>1, AlertAssumption
        <4>2. sending' \in [Alerts -> {"no", "sending", "sent", "failed"}]
          BY <1>1, <2>1 DEF TypeOK
        <4> QED BY <4>1, <4>2
      <3> QED BY <1>0, <1>1, <2>1, <3>2, <3>3 DEF TypeOK
    <2>8. IInv'
      BY <1>3, <1>4, <2>2, <2>4, <2>5, <2>6, <2>7 DEF IInv
    <2>9. KnownKept
      BY <1>3, <2>1, BecomeKnown
    <2> QED BY <1>3, <1>5, <2>1, <2>3, <2>8, <2>9
  <1>8. CASE ~(prepared /\ ~mediatypes[MediaType[a]].settings.error)
    <2>1. /\ Become(t) /\ Report(a, "FAILED", 0) /\ alerts_num' = Count(alerts_num - 1)
          /\ UNCHANGED <<sending, free>>
      BY <1>8 DEF Dispatch
    <2>2. G \ {a} = Flying /\ a \in G
      BY <1>3
    <2> HIDE DEF s, G
    <2>3. /\ QueuesInv(t, Flying) /\ ActiveIn(t, Flying) = Active \ {a} /\ RemovedInUse(t)
          /\ \A n \in MediaTypes : s.mt[n].exists /\ ~s.mt[n].remove => t.mt[n].exists /\ ~t.mt[n].remove
      <3>1. RemoveKeeps(s, G, a)
        BY <1>3, <2>2, RemoveAlertInv
      <3> QED BY <1>3, <1>4, <2>2, <3>1 DEF RemoveKeeps
    <2> HIDE DEF t
    <2>4. Queues' = t /\ Flying' = Flying
      BY <2>1, <2>3, BecomeQueues DEF QueuesInv, Flying
    <2>5. Active' = Active \ {a}
      BY <2>3, <2>4 DEF Active
    <2>6. (\A b \in DbAlerts : LifeInv(b)') /\ OthersInv'
      BY <1>0, <1>5, <2>1, <2>5, LeaveLife
    <2>7. Apart(inbox)' /\ AlertersInv'
      BY <1>0, <2>1, <2>4 DEF IInv, AlertersInv
    <2>8. TypeOK'
      <3>1. Queues' \in QueuesRecord
        BY <2>3, <2>4 DEF QueuesInv
      <3>2. /\ mediatypes' \in [MediaTypes -> MediaTypeRecord] /\ queue' \in SUBSET MediaTypes
            /\ alertpools' \in [MediaTypes -> [Pools -> PoolRecord]]
        BY <3>1 DEF Queues, QueuesRecord
      <3>3. results' \in [DbAlerts -> ResultRecord] /\ test' \in [External -> TestRecord]
        BY <2>1, ReportType
      <3>4. alerts_num' \in 0..(Modulus - 1)
        <4>1. alerts_num - 1 \in Int
          BY <1>1, AlertAssumption DEF TypeOK
        <4> QED BY <2>1, <4>1, CountType
      <3> QED BY <1>0, <1>1, <2>1, <3>2, <3>3, <3>4 DEF TypeOK
    <2>9. IInv'
      BY <2>3, <2>4, <2>6, <2>7, <2>8 DEF IInv
    <2>10. KnownKept
      BY <1>3, <2>1, <2>3, BecomeKnown
    <2> QED BY <1>5, <2>1, <2>5, <2>9, <2>10
  <1> QED BY <1>7, <1>8

(* The answer of an alerter is processed. *)
LEMMA ProcessResultIInv ==
  ASSUME IInv, NEW a \in Alerts, ProcessResult(a)
  PROVE  /\ IInv' /\ KnownKept /\ a \in Active
         /\ \E status \in {"NOT_SENT", "SENT", "FAILED"}, n \in Nat :
              /\ Report(a, status, n)
              /\ Active' = IF status = "NOT_SENT" THEN Active ELSE Active \ {a}
              /\ status = "SENT" <=> sending[a] = "sent"
  <1> DEFINE again == /\ sending[a] = "failed" /\ a \notin External
                      /\ retries[a] + 1 < mediatypes[MediaType[a]].settings.maxattempts
             n == IF sending[a] = "failed" THEN retries[a] + 1 ELSE retries[a]
             status == CASE sending[a] = "sent" -> "SENT" [] again -> "NOT_SENT" [] OTHER -> "FAILED"
             s == IF again THEN RetryAlert(Queues, a) ELSE RemoveAlert(Queues, a)
             G == Flying \ {a}
  <1>0. /\ sending[a] \in {"sent", "failed"} /\ Become(s)
        /\ alerts_num' = IF again THEN alerts_num ELSE Count(alerts_num - 1)
        /\ retries' = [retries EXCEPT ![a] = IF again THEN n ELSE 0]
        /\ Report(a, status, n)
        /\ sending' = [sending EXCEPT ![a] = "no"] /\ free' = free + 1
        /\ UNCHANGED <<due, watchdog, unregistered, syncer, status_limit, cache, inbox, answer, db, config,
                       made, delivered, restarts, changes>>
    BY DEF ProcessResult, syncerVars
  <1>1. QueuesInv(Queues, Flying) /\ TypeOK /\ Queues \in QueuesRecord /\ RemovedInUse(Queues)
    BY DEF IInv, QueuesInv
  <1>2. a \in Flying /\ a \in Active /\ n \in Nat
    BY <1>0, <1>1 DEF Flying, Active, ActiveIn, TypeOK
  <1>3. status \in {"NOT_SENT", "SENT", "FAILED"} /\ (again <=> status = "NOT_SENT")
        /\ (again => a \notin External) /\ (status = "SENT" <=> sending[a] = "sent")
    BY <1>0
  <1>4. /\ QueuesInv(s, G) /\ RemovedInUse(s) /\ ActiveIn(s, G) = IF again THEN Active ELSE Active \ {a}
        /\ \A m \in MediaTypes : Queues.mt[m].exists /\ ~Queues.mt[m].remove => s.mt[m].exists /\ ~s.mt[m].remove
    <2>1. CASE again
      <3>1. s = RetryAlert(Queues, a)
        BY <2>1
      <3> HIDE DEF again, s
      <3>2. /\ QueuesInv(s, G) /\ ActiveIn(s, G) = Active
            /\ \A m \in MediaTypes : /\ s.mt[m].exists = Queues.mt[m].exists
                                     /\ s.mt[m].remove = Queues.mt[m].remove
                                     /\ s.mt[m].refcount = Queues.mt[m].refcount
        <4>1. RetryKeeps(Queues, Flying, a)
          BY <1>1, <1>2, RetryAlertInv
        <4> QED BY <3>1, <4>1, Zenon DEF RetryKeeps, Active
      <3>3. RemovedInUse(s)
        BY <1>1, <3>2 DEF RemovedInUse
      <3> QED BY <2>1, <3>2, <3>3
    <2>2. CASE ~again
      <3>1. s = RemoveAlert(Queues, a)
        BY <2>2
      <3> HIDE DEF again, s
      <3>2. /\ QueuesInv(s, G) /\ ActiveIn(s, G) = Active \ {a} /\ RemovedInUse(s)
            /\ \A m \in MediaTypes : Queues.mt[m].exists /\ ~Queues.mt[m].remove => s.mt[m].exists /\ ~s.mt[m].remove
        <4>1. RemoveKeeps(Queues, Flying, a)
          BY <1>1, <1>2, RemoveAlertInv
        <4> QED BY <1>1, <3>1, <4>1 DEF RemoveKeeps, Active
      <3> QED BY <2>2, <3>2
    <2> QED BY <2>1, <2>2
  <1> HIDE DEF s, again, status, n
  <1>5. Queues' = s /\ Flying' = G
    BY <1>0, <1>1, <1>4, BecomeQueues, FlyingChange DEF QueuesInv
  <1>6. Active' = IF again THEN Active ELSE Active \ {a}
    BY <1>4, <1>5 DEF Active
  <1>7. (\A b \in DbAlerts : LifeInv(b)') /\ OthersInv'
    <2>1. CASE again
      <3>1. Active' = Active /\ Report(a, "NOT_SENT", n) /\ a \notin External
        BY <1>0, <1>3, <1>6, <2>1
      <3> QED BY <1>0, <1>2, <3>1, StayLife
    <2>2. CASE ~again
      <3>1. Active' = Active \ {a} /\ status \in {"SENT", "FAILED"}
        BY <1>3, <1>6, <2>2
      <3> QED BY <1>0, <1>2, <3>1, LeaveLife
    <2> QED BY <2>1, <2>2
  <1>8. AlertersInv' /\ free' \in 0..Alerters
    <2>1. Cardinality(Flying') = Cardinality(Flying) - 1 /\ Cardinality(Flying) \in Nat /\ Cardinality(Flying) > 0
      BY <1>2, <1>5, FlyingCount
    <2>2. free \in Nat /\ unregistered \in Nat /\ Alerters \in Nat
      BY <1>1, AlertAssumption DEF TypeOK
    <2> QED BY <1>0, <2>1, <2>2 DEF IInv, AlertersInv
  <1>9. TypeOK'
    <2>1. Queues' \in QueuesRecord
      BY <1>4, <1>5 DEF QueuesInv
    <2>2. /\ mediatypes' \in [MediaTypes -> MediaTypeRecord] /\ queue' \in SUBSET MediaTypes
          /\ alertpools' \in [MediaTypes -> [Pools -> PoolRecord]]
      BY <2>1 DEF Queues, QueuesRecord
    <2>3. results' \in [DbAlerts -> ResultRecord] /\ test' \in [External -> TestRecord]
      BY <1>0, <1>2, <1>3, ReportType
    <2>4. alerts_num' \in 0..(Modulus - 1)
      <3>1. alerts_num - 1 \in Int /\ alerts_num \in 0..(Modulus - 1)
        BY <1>1, AlertAssumption DEF TypeOK
      <3> QED BY <1>0, <3>1, CountType
    <2>5. retries' \in [Alerts -> Nat] /\ sending' \in [Alerts -> {"no", "sending", "sent", "failed"}]
      BY <1>0, <1>1, <1>2 DEF TypeOK
    <2> QED BY <1>0, <1>1, <1>8, <2>2, <2>3, <2>4, <2>5 DEF TypeOK
  <1>10. Apart(inbox)'
    BY <1>0 DEF IInv
  <1>11. IInv'
    BY <1>4, <1>5, <1>7, <1>8, <1>9, <1>10 DEF IInv
  <1>12. KnownKept
    BY <1>0, <1>4, BecomeKnown
  <1>13. Report(a, status, n) /\ Active' = IF status = "NOT_SENT" THEN Active ELSE Active \ {a}
    BY <1>0, <1>3, <1>6
  <1> QED BY <1>2, <1>3, <1>11, <1>12, <1>13

(* A trapper's request is taken. *)
LEMMA ProcessExternalIInv ==
  ASSUME IInv, NEW x \in External, ProcessExternal(x) PROVE IInv' /\ KnownKept /\ Active \subseteq Active'
  <1> DEFINE m == MediaType[x]
             u == UpdateMediatype(Queues, m, test[x].settings, TRUE)
             t == AddAlerts(u, {x})
  <1>0. /\ test[x].state = "requested" /\ test' = [test EXCEPT ![x] = [NoTest EXCEPT !.state = "pending"]]
        /\ Become(t) /\ alerts_num' = Count(alerts_num + 1) /\ due' = due \cup {x}
        /\ UNCHANGED <<retries, results, watchdog, sending, free, unregistered, syncer, status_limit, cache,
                       inbox, answer, db, config, made, delivered, restarts, changes>>
    BY DEF ProcessExternal, alerterVars, syncerVars
  <1>1. QueuesInv(Queues, Flying) /\ TypeOK /\ Queues \in QueuesRecord /\ RemovedInUse(Queues)
    BY DEF IInv, QueuesInv
  <1>2. x \in Alerts /\ m \in MediaTypes /\ test[x].settings \in AllSettings
    BY <1>1, PlacesOf DEF Alerts, TypeOK, TestRecord
  <1>3. x \notin Active
    BY <1>0 DEF IInv, OthersInv
  <1> HIDE DEF u
  <1>4. /\ QueuesInv(u, Flying) /\ ActiveIn(u, Flying) = Active
        /\ u.mt[m].exists /\ (Queues.mt[m].exists => ~u.mt[m].remove)
        /\ \A k \in MediaTypes \ {m} : u.mt[k] = Queues.mt[k]
    <2>1. UpdateKeeps(Queues, u, Flying, m, TRUE)
      BY <1>1, <1>2, UpdateMediatypeInv DEF u
    <2> QED BY <2>1 DEF UpdateKeeps, Active
  <1>5. Grown(u, t, Flying, {x})
    <2>1. \A b \in {x} : u.mt[MediaType[b]].exists
      BY <1>4
    <2>2. {x} \in SUBSET Alerts /\ {x} \cap ActiveIn(u, Flying) = {}
      BY <1>2, <1>3, <1>4
    <2> HIDE DEF m
    <2> QED BY <1>4, <2>1, <2>2, AddAlertsInv
  <1>6. /\ QueuesInv(t, Flying) /\ ActiveIn(t, Flying) = Active \cup {x}
        /\ \A k \in MediaTypes : /\ t.mt[k].exists = u.mt[k].exists
                                 /\ t.mt[k].remove = u.mt[k].remove
                                 /\ t.mt[k].refcount = u.mt[k].refcount + Cardinality(AddedTo({x}, k))
    BY <1>4, <1>5, Zenon DEF Grown
  <1>7. RemovedInUse(t)
    <2>1. AddedTo({x}, m) # {}
      BY DEF AddedTo
    <2>2. \A k \in MediaTypes : u.mt[k].remove => u.mt[k].refcount > 0 \/ AddedTo({x}, k) # {}
      BY <1>1, <1>4, <2>1 DEF RemovedInUse
    <2>3. {x} \in SUBSET Alerts
      BY <1>2
    <2> HIDE DEF m, t
    <2> QED BY <1>4, <1>6, <2>2, <2>3, AddAlertsRemoved
  <1> HIDE DEF t, m
  <1>8. Queues' = t /\ Flying' = Flying
    BY <1>0, <1>6, BecomeQueues DEF QueuesInv, Flying
  <1>9. Active' = Active \cup {x}
    BY <1>6, <1>8 DEF Active
  <1>10. \A a \in DbAlerts : LifeInv(a)'
    <2>1. ASSUME NEW a \in DbAlerts PROVE a \in Active' => a \in Active
      BY <1>9, AlertAssumption
    <2> QED BY <1>0, <2>1, LifeKept DEF IInv
  <1>11. OthersInv'
    <2>1. ASSUME NEW w \in Watchdog PROVE w \in Active' => w \in Active
      BY <1>9, AlertAssumption
    <2>2. [NoTest EXCEPT !.state = "pending"].state = "pending"
      BY DEF NoTest
    <2>3. test \in [External -> TestRecord]
      BY <1>1 DEF TypeOK
    <2> QED BY <1>0, <1>9, <2>1, <2>2, <2>3 DEF IInv, OthersInv
  <1>12. TypeOK'
    <2>1. Queues' \in QueuesRecord
      BY <1>6, <1>8 DEF QueuesInv
    <2>2. /\ mediatypes' \in [MediaTypes -> MediaTypeRecord] /\ queue' \in SUBSET MediaTypes
          /\ alertpools' \in [MediaTypes -> [Pools -> PoolRecord]]
      BY <2>1 DEF Queues, QueuesRecord
    <2>3. test' \in [External -> TestRecord]
      <3>1. [NoTest EXCEPT !.state = "pending"] \in TestRecord
        BY DEF NoTest, TestRecord, AllSettings
      <3> QED BY <1>0, <1>1, <3>1 DEF TypeOK
    <2>4. alerts_num' \in 0..(Modulus - 1)
      <3>1. alerts_num + 1 \in Int
        BY <1>1, AlertAssumption DEF TypeOK
      <3> QED BY <1>0, <3>1, CountType
    <2> QED BY <1>0, <1>1, <1>2, <2>2, <2>3, <2>4 DEF TypeOK
  <1>13. Apart(inbox)' /\ AlertersInv'
    BY <1>0, <1>8 DEF IInv, AlertersInv
  <1>14. IInv'
    BY <1>6, <1>7, <1>8, <1>10, <1>11, <1>12, <1>13 DEF IInv
  <1>15. KnownKept
    <2>1. ASSUME NEW k \in MediaTypes, Queues.mt[k].exists, ~Queues.mt[k].remove
          PROVE  u.mt[k].exists /\ ~u.mt[k].remove
      BY <1>4, <2>1
    <2>2. \A k \in MediaTypes : Queues.mt[k].exists /\ ~Queues.mt[k].remove => t.mt[k].exists /\ ~t.mt[k].remove
      BY <1>6, <2>1
    <2> QED BY <1>0, <2>2, BecomeKnown
  <1> QED BY <1>9, <1>14, <1>15

------------------------------------------------------------------------------
(* Queues with nothing in them. *)
Nothing == [mt |-> [m \in MediaTypes |-> Absent], ap |-> NoPools, q |-> {}]

(* They satisfy the invariant, and the manager has no alert. *)
LEMMA NothingInv == QueuesInv(Nothing, {}) /\ RemovedInUse(Nothing) /\ ActiveIn(Nothing, {}) = {}
  <1>1. Absent \in MediaTypeRecord /\ NoPool \in PoolRecord
    BY DEF Absent, NoPool, AllSettings, MediaTypeRecord, PoolRecord
  <1>2. Nothing \in QueuesRecord
    BY <1>1 DEF Nothing, QueuesRecord, NoPools
  <1>3. ASSUME NEW m \in MediaTypes
        PROVE  Nothing.mt[m] = Absent /\ \A p \in Pools : Nothing.ap[m][p] = NoPool
    BY DEF Nothing, NoPools
  <1>4. Absent.alerts_num = 0 /\ Absent.refcount = 0 /\ Absent.queue = {} /\ Absent.remove = FALSE
        /\ NoPool.alerts_num = 0 /\ NoPool.refcount = 0 /\ NoPool.queue = {}
    BY DEF Absent, NoPool
  <1>5. Cardinality({}) = 0
    BY FS_EmptySet
  <1>6. ASSUME NEW m \in MediaTypes, NEW p \in Pools PROVE PoolInv(Nothing, {}, m, p)
    <2>1. {} \cap Of(m, p) = {}
      OBVIOUS
    <2>2. Cardinality({} \cap Of(m, p)) = 0
      BY <1>5, <2>1, Zenon
    <2>3. Nothing.ap[m][p].queue = {} /\ Nothing.mt[m].queue = {}
      BY <1>3, <1>4
    <2>4. Cardinality(Nothing.ap[m][p].queue) = 0
      BY <1>5, <2>3, Zenon
    <2> QED BY <1>3, <1>4, <2>2, <2>3, <2>4 DEF PoolInv
  <1>7. ASSUME NEW m \in MediaTypes PROVE MediaInv(Nothing, {}, m)
    <2>1. {} \cap OfType(m) = {}
      OBVIOUS
    <2>2. QueuedOf(Nothing, m) = {}
      BY <1>3, <1>4, PlacesOf DEF QueuedOf, OfType
    <2>3. Cardinality({} \cap OfType(m)) = 0
      BY <1>5, <2>1, Zenon
    <2>4. Cardinality(QueuedOf(Nothing, m)) = 0
      BY <1>5, <2>2, Zenon
    <2>5. m \notin Nothing.q
      BY DEF Nothing
    <2> QED BY <1>3, <1>4, <2>3, <2>4, <2>5 DEF MediaInv
  <1>8. QueuesInv(Nothing, {})
    BY <1>2, <1>6, <1>7 DEF QueuesInv
  <1>9. RemovedInUse(Nothing)
    BY <1>3, <1>4 DEF RemovedInUse
  <1>10. ActiveIn(Nothing, {}) = {}
    BY <1>3, <1>4, PlacesOf DEF ActiveIn
  <1> QED BY <1>8, <1>9, <1>10

(* So they do when the server starts. *)
LEMMA EmptyQueues ==
  ASSUME mediatypes = [m \in MediaTypes |-> Absent], alertpools = NoPools, queue = {},
         sending = [a \in Alerts |-> "no"]
  PROVE  QueuesInv(Queues, Flying) /\ RemovedInUse(Queues) /\ Flying = {} /\ Active = {}
  <1>1. Queues = Nothing
    BY DEF Queues, Nothing
  <1>2. Flying = {}
    BY DEF Flying
  <1> QED BY <1>1, <1>2, NothingInv DEF Active

(* And when it starts again. *)
LEMMA EmptyQueuesNext ==
  ASSUME mediatypes' = [m \in MediaTypes |-> Absent], alertpools' = NoPools, queue' = {},
         sending' = [a \in Alerts |-> "no"]
  PROVE  QueuesInv(Queues, Flying)' /\ RemovedInUse(Queues)' /\ Flying' = {} /\ Active' = {}
  <1>1. Queues' = Nothing
    BY DEF Queues, Nothing
  <1>2. Flying' = {}
    BY DEF Flying
  <1> QED BY <1>1, <1>2, NothingInv DEF Active

(* The server starts. *)
LEMMA InitIInv == Init => IInv
  <1> SUFFICES ASSUME Init PROVE IInv
    OBVIOUS
  <1>1. Absent \in MediaTypeRecord /\ NoPool \in PoolRecord /\ NoResult \in ResultRecord
        /\ NoResult \in AlertRecord /\ NoTest \in TestRecord /\ NoSettings \in AllSettings
    BY DEF Absent, NoPool, NoResult, NoTest, AllSettings, MediaTypeRecord, PoolRecord, ResultRecord,
           AlertRecord, TestRecord
  <1>2. /\ mediatypes = [m \in MediaTypes |-> Absent] /\ alertpools = NoPools /\ queue = {}
        /\ sending = [a \in Alerts |-> "no"]
    BY DEF Init
  <1>3. QueuesInv(Queues, Flying) /\ RemovedInUse(Queues) /\ Flying = {} /\ Active = {}
    BY <1>2, EmptyQueues
  <1>4. TypeOK
    <2>1. /\ mediatypes \in [MediaTypes -> MediaTypeRecord] /\ alertpools \in [MediaTypes -> [Pools -> PoolRecord]]
          /\ queue \subseteq MediaTypes
      BY <1>3, QueuesTyped DEF QueuesInv
    <2>2. /\ alerts_num \in 0..(Modulus - 1) /\ free \in 0..Alerters /\ unregistered \in 0..Alerters
          /\ restarts \in 0..MaxRestarts /\ changes \in 0..MaxChanges
      BY AlertAssumption DEF Init
    <2>3. /\ results \in [DbAlerts -> ResultRecord] /\ answer \in [DbAlerts -> ResultRecord]
          /\ db \in [DbAlerts -> AlertRecord] /\ test \in [External -> TestRecord]
          /\ cache \in [MediaTypes -> AllSettings]
      BY <1>1 DEF Init, NoResults, NoMediatypes
    <2>4. inbox \in Seq(MessageRecord)
      BY CarriedByFew DEF Init
    <2> QED BY <2>1, <2>2, <2>3, <2>4 DEF Init, TypeOK
  <1>5. inbox = <<>> /\ \A a \in DbAlerts : results[a] = NoResult /\ answer[a] = NoResult
    BY DEF Init, NoResults
  <1>6. \A a \in DbAlerts : LifeInv(a)
    BY <1>3, <1>5, CarriedByFew DEF LifeInv, Final, NoResult
  <1>7. Apart(inbox) /\ OthersInv
    BY <1>3, <1>5, CarriedByFew DEF OthersInv
  <1>8. AlertersInv
    BY <1>3, FS_EmptySet, AlertAssumption DEF Init, AlertersInv
  <1> QED BY <1>3, <1>4, <1>6, <1>7, <1>8 DEF IInv

(* The server is started again. *)
LEMMA RestartIInv == ASSUME IInv, Restart PROVE IInv'
  <1>1. Absent \in MediaTypeRecord /\ NoPool \in PoolRecord /\ NoResult \in ResultRecord
        /\ NoSettings \in AllSettings /\ NoTest \in TestRecord
        /\ [NoTest EXCEPT !.state = "answered"] \in TestRecord
    BY DEF Absent, NoPool, NoResult, NoTest, AllSettings, MediaTypeRecord, PoolRecord, ResultRecord,
           TestRecord
  <1>2. /\ mediatypes' = [m \in MediaTypes |-> Absent] /\ alertpools' = NoPools /\ queue' = {}
        /\ sending' = [a \in Alerts |-> "no"]
    BY DEF Restart
  <1>3. QueuesInv(Queues, Flying)' /\ RemovedInUse(Queues)' /\ Flying' = {} /\ Active' = {}
    BY <1>2, EmptyQueuesNext
  <1>4. TypeOK'
    <2>1. /\ mediatypes' \in [MediaTypes -> MediaTypeRecord]
          /\ alertpools' \in [MediaTypes -> [Pools -> PoolRecord]] /\ queue' \subseteq MediaTypes
      BY <1>1, <1>2 DEF NoPools
    <2>2. /\ alerts_num' \in 0..(Modulus - 1) /\ free' \in 0..Alerters /\ unregistered' \in 0..Alerters
          /\ restarts' \in 0..MaxRestarts
      BY AlertAssumption DEF Restart, IInv, TypeOK
    <2>3. /\ results' \in [DbAlerts -> ResultRecord] /\ answer' \in [DbAlerts -> ResultRecord]
          /\ test' \in [External -> TestRecord] /\ cache' \in [MediaTypes -> AllSettings]
      BY <1>1 DEF Restart, NoResults, NoMediatypes
    <2>4. inbox' \in Seq(MessageRecord)
      BY CarriedByFew DEF Restart
    <2> QED BY <2>1, <2>2, <2>3, <2>4 DEF Restart, IInv, TypeOK
  <1>5. inbox' = <<>> /\ \A a \in DbAlerts : results'[a] = NoResult /\ answer'[a] = NoResult
    BY DEF Restart, NoResults
  <1>6. \A a \in DbAlerts : LifeInv(a)'
    BY <1>3, <1>5, CarriedByFew DEF LifeInv, Final, NoResult
  <1>7. Apart(inbox)' /\ OthersInv'
    BY <1>3, <1>5, CarriedByFew DEF OthersInv
  <1>8. AlertersInv'
    BY <1>3, FS_EmptySet, AlertAssumption DEF Restart, AlertersInv
  <1> QED BY <1>3, <1>4, <1>6, <1>7, <1>8 DEF IInv

(* An escalation inserts an alert. *)
LEMMA AddAlertIInv == ASSUME IInv, NEW a \in DbAlerts, AddAlert(a) PROVE IInv'
  <1>0. /\ db[a].status = "none" /\ db' = [db EXCEPT ![a].status = "NEW"]
        /\ UNCHANGED <<managerVars, alerterVars, syncerVars, inbox, answer, config, test, made, delivered,
                       restarts, changes>>
    BY DEF AddAlert
  <1>1. Queues' = Queues /\ Flying' = Flying
    BY <1>0 DEF Queues, managerVars, alerterVars, Flying
  <1>2. Active' = Active
    BY <1>1 DEF Active
  <1>3. db \in [DbAlerts -> AlertRecord]
    BY DEF IInv, TypeOK
  <1>4. ASSUME NEW b \in DbAlerts PROVE LifeInv(b)'
    <2>1. LifeInv(b)
      BY DEF IInv
    <2>2. CASE b = a
      <3>1. ~(a \in CarriedBy(inbox) \/ a \in Active \/ results[a] # NoResult \/ answer[a] # NoResult)
        BY <1>0, <2>1, <2>2 DEF LifeInv
      <3>2. inbox' = inbox /\ results' = results /\ answer' = answer
        BY <1>0 DEF managerVars
      <3> QED BY <1>2, <2>2, <3>1, <3>2 DEF LifeInv, Final, NoResult
    <2>3. CASE b # a
      BY <1>0, <1>2, <1>3, <2>1, <2>3, LifeKept DEF managerVars, syncerVars
    <2> QED BY <2>2, <2>3
  <1>5. db' \in [DbAlerts -> AlertRecord]
    <2>1. [db[a] EXCEPT !.status = "NEW"] \in AlertRecord
      BY <1>3 DEF AlertRecord
    <2> QED BY <1>0, <1>3, <2>1
  <1>6. TypeOK'
    BY <1>0, <1>5 DEF IInv, TypeOK, managerVars, alerterVars, syncerVars
  <1>7. Apart(inbox)' /\ AlertersInv' /\ OthersInv'
    BY <1>0, <1>1, <1>2 DEF IInv, AlertersInv, OthersInv, alerterVars
  <1>8. QueuesInv(Queues, Flying)' /\ RemovedInUse(Queues)'
    BY <1>1 DEF IInv
  <1> QED BY <1>4, <1>6, <1>7, <1>8 DEF IInv

(* The syncer writes the results. *)
LEMMA WriteResultsIInv == ASSUME IInv, WriteResults PROVE IInv'
  <1>0. /\ syncer' = "cleanup" /\ answer' = NoResults
        /\ db' = [a \in DbAlerts |-> IF answer[a] = NoResult THEN db[a] ELSE answer[a]]
        /\ UNCHANGED <<managerVars, alerterVars, status_limit, cache, inbox, config, test, made, delivered,
                       restarts, changes>>
    BY DEF WriteResults
  <1>1. Queues' = Queues /\ Flying' = Flying
    BY <1>0 DEF Queues, managerVars, alerterVars, Flying
  <1>2. Active' = Active
    BY <1>1 DEF Active
  <1>3. db \in [DbAlerts -> AlertRecord] /\ answer \in [DbAlerts -> ResultRecord]
    BY DEF IInv, TypeOK
  <1>4. ASSUME NEW b \in DbAlerts PROVE LifeInv(b)'
    <2>1. LifeInv(b)
      BY DEF IInv
    <2>2. /\ inbox' = inbox /\ results' = results /\ status_limit' = status_limit /\ answer'[b] = NoResult
          /\ db'[b] = IF answer[b] = NoResult THEN db[b] ELSE answer[b]
      BY <1>0 DEF managerVars, NoResults
    <2>3. CASE answer[b] = NoResult
      BY <1>2, <2>1, <2>2, <2>3, LifeKept
    <2>4. CASE Final(answer[b])
      <3>1. b \notin CarriedBy(inbox) /\ b \notin Active /\ results[b] = NoResult
        BY <2>1, <2>4 DEF LifeInv
      <3> QED BY <1>2, <2>2, <3>1 DEF LifeInv, Final, NoResult
    <2>5. CASE answer[b] # NoResult /\ ~Final(answer[b])
      <3>1. answer[b].status = "NOT_SENT"
        BY <1>3, <2>1, <2>5 DEF LifeInv, Final, ResultRecord
      <3>2. db'[b].status = "NOT_SENT" /\ status_limit' = 1
        BY <2>1, <2>2, <2>5, <3>1 DEF LifeInv
      <3> QED BY <1>2, <2>1, <2>2, <3>2 DEF LifeInv, Final, NoResult
    <2> QED BY <2>3, <2>4, <2>5
  <1>5. db' \in [DbAlerts -> AlertRecord] /\ answer' \in [DbAlerts -> ResultRecord]
    <2>1. ResultRecord \subseteq AlertRecord /\ NoResult \in ResultRecord
      BY DEF ResultRecord, AlertRecord, NoResult
    <2> QED BY <1>0, <1>3, <2>1 DEF NoResults
  <1>6. TypeOK'
    BY <1>0, <1>5 DEF IInv, TypeOK, managerVars, alerterVars
  <1>7. Apart(inbox)' /\ AlertersInv' /\ OthersInv'
    BY <1>0, <1>1, <1>2 DEF IInv, AlertersInv, OthersInv, alerterVars
  <1>8. QueuesInv(Queues, Flying)' /\ RemovedInUse(Queues)'
    BY <1>1 DEF IInv
  <1> QED BY <1>4, <1>6, <1>7, <1>8 DEF IInv

(* A message carries alerts of the alerts table. *)
LEMMA CarriedDb == \A msg \in MessageRecord : Carried(msg) \subseteq DbAlerts
  BY DEF Carried, MessageRecord, MessageOf

------------------------------------------------------------------------------
(* The messages of the syncer *)

(* What a message has to do to the manager.                                *)
(* The messages are gone from the inbox; what became of the alerts in them *)
(* is in Active.                                                           *)
LEMMA ReceivedIInv ==
  ASSUME IInv, inbox # <<>>, inbox' = Tail(inbox),
         NEW s, QueuesInv(s, Flying), RemovedInUse(s), Become(s),
         NEW A \in SUBSET Carried(Head(inbox)), ActiveIn(s, Flying) = Active \cup A,
         alerts_num' \in 0..(Modulus - 1), due' \in SUBSET Alerts, retries' \in [Alerts -> Nat],
         watchdog' \in SUBSET MediaTypes, syncer' \in {"queue", "wait", "answered", "cleanup"},
         UNCHANGED <<sending, free, unregistered, results, answer, status_limit, cache, db, config, test, made,
                     delivered, restarts, changes>>
  PROVE  IInv' /\ Active' = Active \cup A
  <1>1. TypeOK /\ Queues \in QueuesRecord
    BY DEF IInv, QueuesInv
  <1>2. /\ CarriedBy(inbox) = Carried(Head(inbox)) \cup CarriedBy(inbox')
        /\ Carried(Head(inbox)) \cap CarriedBy(inbox') = {}
        /\ Apart(inbox') /\ Head(inbox) \in MessageRecord /\ inbox' \in Seq(MessageRecord)
    BY <1>1, CarriedByTail DEF IInv, TypeOK
  <1>3. Carried(Head(inbox)) \subseteq DbAlerts
    BY <1>2, CarriedDb
  <1>4. Queues' = s /\ Flying' = Flying
    BY BecomeQueues DEF QueuesInv, Flying
  <1>5. Active' = Active \cup A
    BY <1>4 DEF Active
  <1>6. ASSUME NEW b \in DbAlerts PROVE LifeInv(b)'
    <2>1. LifeInv(b)
      BY DEF IInv
    <2>2. CASE b \in A
      <3>1. b \in CarriedBy(inbox) /\ b \notin CarriedBy(inbox')
        BY <1>2, <2>2
      <3> QED BY <2>1, <3>1 DEF LifeInv, Final
    <2>3. CASE b \notin A
      BY <1>2, <1>5, <2>1, <2>3, LifeKept
    <2> QED BY <2>2, <2>3
  <1>7. OthersInv'
    <2>1. \A b \in External \cup Watchdog : b \in Active' => b \in Active
      BY <1>3, <1>5, AlertAssumption
    <2> QED BY <2>1 DEF IInv, OthersInv
  <1>8. TypeOK'
    <2>1. Queues' \in QueuesRecord
      BY <1>4 DEF QueuesInv
    <2>2. /\ mediatypes' \in [MediaTypes -> MediaTypeRecord] /\ queue' \in SUBSET MediaTypes
          /\ alertpools' \in [MediaTypes -> [Pools -> PoolRecord]]
      BY <2>1 DEF Queues, QueuesRecord
    <2> QED BY <1>1, <1>2, <2>2 DEF TypeOK
  <1>9. Apart(inbox)' /\ AlertersInv'
    BY <1>2, <1>4 DEF IInv, AlertersInv
  <1>10. IInv'
    BY <1>4, <1>6, <1>7, <1>8, <1>9 DEF IInv
  <1> QED BY <1>5, <1>10

(* Media types are updated. *)
LEMMA ProcessMediatypesIInv ==
  ASSUME IInv, ProcessSyncer, ProcessMediatypes(Head(inbox))
  PROVE  /\ IInv' /\ Active' = Active /\ KnownKept
         /\ \A m \in MediaTypes : Head(inbox).settings[m] # NoSettings => Known(m)'
  <1> DEFINE msg == Head(inbox)
             mt == [m \in MediaTypes |-> IF msg.settings[m] = NoSettings THEN mediatypes[m]
                                         ELSE UpdateMediatype(Queues, m, msg.settings[m], FALSE).mt[m]]
             t == [mt |-> mt, ap |-> alertpools, q |-> queue]
  <1>0. /\ inbox # <<>> /\ inbox' = Tail(inbox) /\ mediatypes' = mt
        /\ UNCHANGED <<alertpools, queue, alerts_num, due, retries, results, watchdog, answer>>
        /\ syncer' = (IF msg.type = "RESULTS" THEN "answered" ELSE syncer)
        /\ UNCHANGED <<sending, free, unregistered, status_limit, cache, db, config, test, made, delivered,
                       restarts, changes>>
    BY DEF ProcessSyncer, ProcessMediatypes, alerterVars
  <1>1. TypeOK /\ QueuesInv(Queues, Flying) /\ RemovedInUse(Queues) /\ Queues \in QueuesRecord
    BY DEF IInv, QueuesInv
  <1>2. msg \in MessageRecord /\ \A m \in MediaTypes : msg.settings[m] \in AllSettings
    <2>1. msg \in MessageRecord
      BY <1>0, <1>1, CarriedByTail DEF IInv, TypeOK
    <2> QED BY <2>1 DEF MessageRecord, MessageOf
  <1>3. /\ mediatypes \in [MediaTypes -> MediaTypeRecord] /\ Queues.mt = mediatypes
        /\ alertpools \in [MediaTypes -> [Pools -> PoolRecord]] /\ queue \in SUBSET MediaTypes
        /\ Queues.ap = alertpools /\ Queues.q = queue
    BY <1>1, QueuesTyped
  <1> HIDE DEF msg
  <1>4. ASSUME NEW m \in MediaTypes
        PROVE  /\ mt[m] \in MediaTypeRecord /\ mt[m].alerts_num = mediatypes[m].alerts_num
               /\ mt[m].refcount = mediatypes[m].refcount /\ mt[m].queue = mediatypes[m].queue
               /\ ~mt[m].exists => mt[m] = Absent
               /\ mt[m].remove => mediatypes[m].remove
               /\ mediatypes[m].exists => mt[m].exists
               /\ msg.settings[m] # NoSettings => mt[m].exists /\ ~mt[m].remove
    <2>1. CASE msg.settings[m] = NoSettings
      <3>1. mt[m] = mediatypes[m]
        BY <2>1
      <3>2. MediaInv(Queues, Flying, m)
        BY <1>1 DEF QueuesInv
      <3> HIDE DEF mt
      <3> QED BY <1>3, <2>1, <3>1, <3>2 DEF MediaInv
    <2>2. CASE msg.settings[m] # NoSettings
      <3> DEFINE u == UpdateMediatype(Queues, m, msg.settings[m], FALSE)
      <3>1. mt[m] = u.mt[m]
        BY <2>2
      <3>2. UpdateKeeps(Queues, u, Flying, m, FALSE)
        BY <1>1, <1>2, UpdateMediatypeInv
      <3> HIDE DEF u, mt
      <3> QED BY <1>3, <3>1, <3>2 DEF UpdateKeeps, QueuesInv, QueuesRecord
    <2> QED BY <2>1, <2>2
  <1>5. t \in QueuesRecord /\ t.mt = mt /\ t.ap = Queues.ap /\ t.q = Queues.q
    BY <1>3, <1>4 DEF QueuesRecord
  <1> HIDE DEF mt
  <1>6. Become(t)
    BY <1>0 DEF Become
  <1> HIDE DEF t
  <1>7. QueuesInv(t, Flying) /\ ActiveIn(t, Flying) = Active
    BY <1>1, <1>3, <1>4, <1>5, SameCounters DEF Active
  <1>8. RemovedInUse(t)
    BY <1>1, <1>3, <1>4, <1>5 DEF RemovedInUse
  <1>9. ActiveIn(t, Flying) = Active \cup {} /\ {} \in SUBSET Carried(Head(inbox))
    BY <1>7
  <1>10. /\ alerts_num' \in 0..(Modulus - 1) /\ due' \in SUBSET Alerts /\ retries' \in [Alerts -> Nat]
         /\ watchdog' \in SUBSET MediaTypes /\ syncer' \in {"queue", "wait", "answered", "cleanup"}
    BY <1>0, <1>1 DEF TypeOK
  <1>11. IInv' /\ Active' = Active
    BY <1>0, <1>6, <1>7, <1>8, <1>9, <1>10, ReceivedIInv
  <1>12. KnownKept
    BY <1>0, <1>4 DEF KnownKept, Known
  <1>13. \A m \in MediaTypes : Head(inbox).settings[m] # NoSettings => Known(m)'
    BY <1>0, <1>4 DEF Known, msg
  <1> QED BY <1>11, <1>12, <1>13

(* Media types are dropped. *)
LEMMA ProcessDropIInv ==
  ASSUME IInv, ProcessSyncer, ProcessDrop(Head(inbox))
  PROVE  /\ IInv' /\ Active' = Active
         /\ \A m \in MediaTypes \ Head(inbox).ids : Known(m) => Known(m)'
  <1> DEFINE msg == Head(inbox)
             mt == [m \in MediaTypes |-> IF m \in msg.ids /\ mediatypes[m].exists THEN Dropped(mediatypes[m])
                                         ELSE mediatypes[m]]
             t == [mt |-> mt, ap |-> alertpools, q |-> queue]
  <1>0. /\ inbox # <<>> /\ inbox' = Tail(inbox) /\ mediatypes' = mt
        /\ UNCHANGED <<alertpools, queue, alerts_num, due, retries, results, watchdog, answer>>
        /\ syncer' = (IF msg.type = "RESULTS" THEN "answered" ELSE syncer)
        /\ UNCHANGED <<sending, free, unregistered, status_limit, cache, db, config, test, made, delivered,
                       restarts, changes>>
    BY DEF ProcessSyncer, ProcessDrop, alerterVars
  <1>1. TypeOK /\ QueuesInv(Queues, Flying) /\ RemovedInUse(Queues) /\ Queues \in QueuesRecord
    BY DEF IInv, QueuesInv
  <1>3. /\ mediatypes \in [MediaTypes -> MediaTypeRecord] /\ Queues.mt = mediatypes
        /\ alertpools \in [MediaTypes -> [Pools -> PoolRecord]] /\ queue \in SUBSET MediaTypes
        /\ Queues.ap = alertpools /\ Queues.q = queue
    BY <1>1, QueuesTyped
  <1> HIDE DEF msg
  <1>4. ASSUME NEW m \in MediaTypes
        PROVE  /\ mt[m] \in MediaTypeRecord /\ mt[m].alerts_num = mediatypes[m].alerts_num
               /\ mt[m].refcount = mediatypes[m].refcount /\ mt[m].queue = mediatypes[m].queue
               /\ ~mt[m].exists => mt[m] = Absent
               /\ mt[m].remove => mt[m].refcount > 0
    <2>0. mediatypes[m] \in MediaTypeRecord /\ MediaInv(Queues, Flying, m)
      BY <1>1, <1>3 DEF QueuesInv
    <2>1. CASE ~(m \in msg.ids /\ mediatypes[m].exists)
      <3>1. mt[m] = mediatypes[m]
        BY <2>1
      <3> QED BY <1>1, <1>3, <2>0, <3>1 DEF MediaInv, RemovedInUse
    <2>2. CASE m \in msg.ids /\ mediatypes[m].exists /\ mediatypes[m].refcount = 0
      <3>1. mt[m] = Absent
        BY <2>2 DEF Dropped
      <3>2. mediatypes[m].alerts_num = 0 /\ mediatypes[m].queue = {}
        BY <1>1, <1>3, <2>2, UnusedCounters
      <3> HIDE DEF mt
      <3>3. /\ Absent \in MediaTypeRecord /\ Absent.alerts_num = 0 /\ Absent.refcount = 0 /\ Absent.queue = {}
            /\ Absent.remove = FALSE
        BY DEF Absent, MediaTypeRecord, AllSettings
      <3> QED BY <2>2, <3>1, <3>2, <3>3
    <2>3. CASE m \in msg.ids /\ mediatypes[m].exists /\ mediatypes[m].refcount # 0
      <3>1. mt[m] = [mediatypes[m] EXCEPT !.remove = TRUE]
        BY <2>3 DEF Dropped
      <3>2. mt[m] \in MediaTypeRecord /\ mt[m].exists = mediatypes[m].exists
            /\ mt[m].alerts_num = mediatypes[m].alerts_num
            /\ mt[m].refcount = mediatypes[m].refcount /\ mt[m].queue = mediatypes[m].queue
        <4> HIDE DEF mt
        <4> QED BY <2>0, <3>1 DEF MediaTypeRecord
      <3>3. mediatypes[m].refcount > 0
        BY <2>0, <2>3 DEF MediaTypeRecord
      <3> QED BY <2>3, <3>2, <3>3
    <2> QED BY <2>1, <2>2, <2>3
  <1>5. t \in QueuesRecord /\ t.mt = mt /\ t.ap = Queues.ap /\ t.q = Queues.q
    BY <1>3, <1>4 DEF QueuesRecord
  <1> HIDE DEF mt
  <1>6. Become(t)
    BY <1>0 DEF Become
  <1> HIDE DEF t
  <1>7. QueuesInv(t, Flying) /\ ActiveIn(t, Flying) = Active
    BY <1>1, <1>3, <1>4, <1>5, SameCounters DEF Active
  <1>8. RemovedInUse(t)
    BY <1>4, <1>5 DEF RemovedInUse
  <1>9. ActiveIn(t, Flying) = Active \cup {} /\ {} \in SUBSET Carried(Head(inbox))
    BY <1>7
  <1>10. /\ alerts_num' \in 0..(Modulus - 1) /\ due' \in SUBSET Alerts /\ retries' \in [Alerts -> Nat]
         /\ watchdog' \in SUBSET MediaTypes /\ syncer' \in {"queue", "wait", "answered", "cleanup"}
    BY <1>0, <1>1 DEF TypeOK
  <1>11. IInv' /\ Active' = Active
    BY <1>0, <1>6, <1>7, <1>8, <1>9, <1>10, ReceivedIInv
  <1>12. \A m \in MediaTypes \ Head(inbox).ids : Known(m) => Known(m)'
    BY <1>0 DEF Known, msg, mt
  <1> QED BY <1>11, <1>12

(* Alerts are queued. *)
LEMMA ProcessAlertsIInv ==
  ASSUME IInv, ProcessSyncer, ProcessAlerts(Head(inbox))
  PROVE  /\ IInv' /\ KnownKept
         /\ Active' = Active \cup {a \in Head(inbox).ids : mediatypes[MediaType[a]].exists}
  <1> DEFINE msg == Head(inbox)
             A == {a \in msg.ids : mediatypes[MediaType[a]].exists}
             t == AddAlerts(Queues, A)
  <1>0. /\ inbox # <<>> /\ inbox' = Tail(inbox) /\ msg.type = "ALERTS" /\ Become(t)
        /\ alerts_num' = Count(alerts_num + Cardinality(A)) /\ due' = due \cup A
        /\ retries' = [a \in Alerts |-> IF a \in A THEN db[a].retries ELSE retries[a]]
        /\ syncer' = syncer
        /\ UNCHANGED <<results, watchdog, answer, sending, free, unregistered, status_limit, cache, db, config,
                       test, made, delivered, restarts, changes>>
    BY DEF ProcessSyncer, ProcessAlerts, alerterVars
  <1>1. TypeOK /\ QueuesInv(Queues, Flying) /\ RemovedInUse(Queues) /\ Queues \in QueuesRecord
    BY DEF IInv, QueuesInv
  <1>2. /\ msg \in MessageRecord /\ CarriedBy(inbox) = Carried(msg) \cup CarriedBy(inbox')
        /\ Carried(msg) = msg.ids
    BY <1>0, <1>1, CarriedByTail DEF IInv, TypeOK, Carried
  <1>3. A \in SUBSET Carried(msg) /\ A \subseteq DbAlerts /\ A \in SUBSET Alerts
    BY <1>2, CarriedDb DEF Alerts
  <1>4. A \cap ActiveIn(Queues, Flying) = {}
    BY <1>2, <1>3 DEF IInv, LifeInv, Active
  <1>5. \A a \in A : Queues.mt[MediaType[a]].exists
    BY <1>1, QueuesTyped
  <1> HIDE DEF msg, A
  <1>6. /\ QueuesInv(t, Flying) /\ ActiveIn(t, Flying) = Active \cup A
        /\ \A m \in MediaTypes : /\ t.mt[m].exists = Queues.mt[m].exists
                                 /\ t.mt[m].remove = Queues.mt[m].remove
                                 /\ t.mt[m].refcount = Queues.mt[m].refcount + Cardinality(AddedTo(A, m))
    <2>1. Grown(Queues, t, Flying, A)
      BY <1>1, <1>3, <1>4, <1>5, AddAlertsInv
    <2> QED BY <2>1, Zenon DEF Grown, Active
  <1> HIDE DEF t
  <1>7. RemovedInUse(t)
    <2>1. A \in SUBSET Alerts
      BY <1>3
    <2>2. \A m \in MediaTypes : Queues.mt[m].remove => Queues.mt[m].refcount > 0 \/ AddedTo(A, m) # {}
      BY <1>1 DEF RemovedInUse
    <2>3. \A m \in MediaTypes : /\ t.mt[m].remove = Queues.mt[m].remove
                               /\ t.mt[m].refcount = Queues.mt[m].refcount + Cardinality(AddedTo(A, m))
      BY <1>6, Zenon
    <2> QED BY <1>1, <2>1, <2>2, <2>3, AddAlertsRemoved
  <1>8. alerts_num' \in 0..(Modulus - 1)
    <2>1. alerts_num \in Nat /\ A \in SUBSET Alerts
      BY <1>1, <1>3, AlertAssumption DEF TypeOK
    <2>2. Cardinality(A) \in Nat
      BY <2>1, FiniteAlerts
    <2>3. alerts_num + Cardinality(A) \in Int
      BY <2>1, <2>2
    <2> QED BY <1>0, <2>3, CountType
  <1>9. retries' \in [Alerts -> Nat]
    <2>1. \A a \in A : db[a].retries \in Nat
      BY <1>1, <1>3 DEF TypeOK, AlertRecord
    <2> QED BY <1>0, <1>1, <2>1 DEF TypeOK
  <1>10. /\ due' \in SUBSET Alerts /\ watchdog' \in SUBSET MediaTypes
         /\ syncer' \in {"queue", "wait", "answered", "cleanup"}
    BY <1>0, <1>1, <1>3 DEF TypeOK
  <1>11. A \in SUBSET Carried(Head(inbox))
    BY <1>3 DEF msg
  <1>12. IInv' /\ Active' = Active \cup A
    BY <1>0, <1>6, <1>7, <1>8, <1>9, <1>10, <1>11, ReceivedIInv
  <1>13. KnownKept
    BY <1>0, <1>6, BecomeKnown
  <1> QED BY <1>12, <1>13 DEF A, msg

(* The recipients of watchdog alerts are set. *)
LEMMA ProcessWatchdogIInv ==
  ASSUME IInv, ProcessSyncer, ProcessWatchdog(Head(inbox)) PROVE IInv' /\ Active' = Active /\ KnownKept
  <1>0. /\ inbox # <<>> /\ inbox' = Tail(inbox) /\ Head(inbox).type = "WATCHDOG" /\ watchdog' = Head(inbox).ids
        /\ UNCHANGED <<mediatypes, alertpools, queue, alerts_num, due, retries, results, answer>>
        /\ syncer' = syncer
        /\ UNCHANGED <<sending, free, unregistered, status_limit, cache, db, config, test, made, delivered,
                       restarts, changes>>
    BY DEF ProcessSyncer, ProcessWatchdog, alerterVars
  <1>1. TypeOK /\ QueuesInv(Queues, Flying) /\ RemovedInUse(Queues) /\ Become(Queues)
    BY <1>0 DEF IInv, Become, Queues
  <1>2. Head(inbox) \in MessageRecord
    BY <1>0, <1>1, CarriedByTail DEF IInv, TypeOK
  <1>3. watchdog' \in SUBSET MediaTypes
    BY <1>0, <1>2 DEF MessageRecord, MessageOf
  <1>4. ActiveIn(Queues, Flying) = Active \cup {} /\ {} \in SUBSET Carried(Head(inbox))
    BY DEF Active
  <1>5. /\ alerts_num' \in 0..(Modulus - 1) /\ due' \in SUBSET Alerts /\ retries' \in [Alerts -> Nat]
        /\ syncer' \in {"queue", "wait", "answered", "cleanup"}
    BY <1>0, <1>1 DEF TypeOK
  <1>6. IInv' /\ Active' = Active
    BY <1>0, <1>1, <1>3, <1>4, <1>5, ReceivedIInv
  <1>7. KnownKept
    BY <1>0 DEF KnownKept, Known
  <1> QED BY <1>6, <1>7

(* The results are handed to the syncer. *)
LEMMA FlushResultsIInv ==
  ASSUME IInv, SyncerInv, ProcessSyncer, FlushResults(Head(inbox)) PROVE IInv'
  <1>0. /\ inbox # <<>> /\ inbox' = Tail(inbox) /\ Head(inbox).type = "RESULTS"
        /\ answer' = results /\ results' = NoResults /\ syncer' = "answered"
        /\ UNCHANGED <<mediatypes, alertpools, queue, alerts_num, due, retries, watchdog>>
        /\ UNCHANGED <<sending, free, unregistered, status_limit, cache, db, config, test, made, delivered,
                       restarts, changes>>
    BY DEF ProcessSyncer, FlushResults, alerterVars
  <1>1. TypeOK /\ inbox \in Seq(MessageRecord)
    BY DEF IInv, TypeOK
  <1>2. /\ CarriedBy(inbox) = Carried(Head(inbox)) \cup CarriedBy(inbox')
        /\ Apart(inbox') /\ Head(inbox) \in MessageRecord /\ inbox' \in Seq(MessageRecord)
    BY <1>0, <1>1, CarriedByTail DEF IInv
  <1>3. answer = NoResults
    <2>1. Head(inbox) = inbox[1] /\ 1 \in 1..Len(inbox)
      BY <1>0, <1>1, HeadTailProperties, EmptySeq, LenProperties
    <2>2. syncer = "wait"
      BY <1>0, <2>1 DEF SyncerInv
    <2> QED BY <2>2 DEF SyncerInv
  <1>4. Queues' = Queues /\ Flying' = Flying
    BY <1>0 DEF Queues, Flying
  <1>5. Active' = Active
    BY <1>4 DEF Active
  <1>6. ASSUME NEW b \in DbAlerts PROVE LifeInv(b)'
    <2>1. LifeInv(b)
      BY DEF IInv
    <2>2. results'[b] = NoResult /\ answer'[b] = results[b]
      BY <1>0 DEF NoResults
    <2>3. b \in CarriedBy(inbox') => b \in CarriedBy(inbox)
      BY <1>2
    <2> QED BY <1>0, <1>5, <2>1, <2>2, <2>3 DEF LifeInv, Final, NoResult
  <1>7. results' \in [DbAlerts -> ResultRecord]
    <2>1. NoResult \in ResultRecord
      BY DEF ResultRecord, NoResult
    <2> QED BY <1>0, <2>1 DEF NoResults
  <1>8. TypeOK'
    BY <1>0, <1>1, <1>2, <1>7 DEF TypeOK
  <1>9. Apart(inbox)' /\ AlertersInv' /\ OthersInv'
    BY <1>0, <1>2, <1>4, <1>5 DEF IInv, AlertersInv, OthersInv
  <1>10. QueuesInv(Queues, Flying)' /\ RemovedInUse(Queues)'
    BY <1>4 DEF IInv
  <1> QED BY <1>6, <1>8, <1>9, <1>10 DEF IInv

(* Messages with no alerts are sent. *)
LEMMA SentIInv ==
  ASSUME IInv, NEW ms \in Seq(MessageRecord), CarriedBy(ms) = {}, Apart(ms), inbox' = inbox \o ms,
         cache' \in [MediaTypes -> AllSettings], syncer' \in {"queue", "wait", "answered", "cleanup"},
         UNCHANGED <<mediatypes, alertpools, queue, alerts_num, due, retries, results, watchdog, sending, free,
                     unregistered, status_limit, answer, db, config, test, made, delivered, restarts, changes>>
  PROVE  IInv' /\ CarriedBy(inbox') = CarriedBy(inbox)
  <1>1. TypeOK /\ inbox \in Seq(MessageRecord)
    BY DEF IInv, TypeOK
  <1>2. inbox' \in Seq(MessageRecord) /\ CarriedBy(inbox') = CarriedBy(inbox) /\ Apart(inbox')
    <2>1. /\ inbox \o ms \in Seq(MessageRecord)
          /\ CarriedBy(inbox \o ms) = CarriedBy(inbox) \cup CarriedBy(ms)
          /\ Apart(inbox) /\ Apart(ms) /\ CarriedBy(inbox) \cap CarriedBy(ms) = {} => Apart(inbox \o ms)
      BY <1>1, CarriedByConcat
    <2>2. Apart(inbox)
      BY DEF IInv
    <2> QED BY <2>1, <2>2
  <1>3. Queues' = Queues /\ Flying' = Flying
    BY DEF Queues, Flying
  <1>4. Active' = Active
    BY <1>3 DEF Active
  <1>5. \A a \in DbAlerts : LifeInv(a)'
    BY <1>2, <1>4, LifeKept DEF IInv
  <1>6. TypeOK'
    BY <1>1, <1>2 DEF TypeOK
  <1>7. Apart(inbox)' /\ AlertersInv' /\ OthersInv'
    BY <1>2, <1>3, <1>4 DEF IInv, AlertersInv, OthersInv
  <1>8. QueuesInv(Queues, Flying)' /\ RemovedInUse(Queues)'
    BY <1>3 DEF IInv
  <1> QED BY <1>2, <1>5, <1>6, <1>7, <1>8 DEF IInv

(* The messages of the syncer are messages. *)
LEMMA MessagesOf ==
  ASSUME TypeOK
  PROVE  /\ \A old \in [MediaTypes -> AllSettings], M \in SUBSET MediaTypes :
              /\ Cached(old, M) \in [MediaTypes -> AllSettings]
              /\ Updates(old, M) \in Seq(MessageRecord) /\ CarriedBy(Updates(old, M)) = {}
              /\ Apart(Updates(old, M))
         /\ \A A \in SUBSET DbAlerts : /\ Message("ALERTS", NoMediatypes, A) \in MessageRecord
                                       /\ Carried(Message("ALERTS", NoMediatypes, A)) = A
         /\ Message("RESULTS", NoMediatypes, {}) \in MessageRecord
         /\ Carried(Message("RESULTS", NoMediatypes, {})) = {}
         /\ \A M \in SUBSET MediaTypes, type \in {"DROP", "WATCHDOG"} :
              Message(type, NoMediatypes, M) \in MessageRecord /\ Carried(Message(type, NoMediatypes, M)) = {}
  <1>1. NoSettings \in AllSettings /\ Settings \subseteq AllSettings /\ config \in [MediaTypes -> Settings]
    BY DEF AllSettings, TypeOK
  <1>2. NoMediatypes \in [MediaTypes -> AllSettings]
    BY <1>1 DEF NoMediatypes
  <1>3. ASSUME NEW old \in [MediaTypes -> AllSettings], NEW M \in SUBSET MediaTypes
        PROVE  /\ Cached(old, M) \in [MediaTypes -> AllSettings]
               /\ Updates(old, M) \in Seq(MessageRecord) /\ CarriedBy(Updates(old, M)) = {}
               /\ Apart(Updates(old, M))
    <2> DEFINE new == Cached(old, M)
               diff == [m \in MediaTypes |-> IF new[m] = old[m] THEN NoSettings ELSE new[m]]
               msg == Message("MEDIATYPES", diff, {})
    <2>1. new \in [MediaTypes -> AllSettings]
      BY <1>1 DEF Cached
    <2>2. diff \in [MediaTypes -> AllSettings]
      <3> HIDE DEF new
      <3> QED BY <1>1, <2>1
    <2>3. Updates(old, M) = IF new = old THEN <<>> ELSE <<msg>>
      BY DEF Updates
    <2> HIDE DEF new, diff
    <2>4. msg \in MessageRecord /\ Carried(msg) = {}
      BY <2>2 DEF Message, MessageRecord, MessageOf, Carried
    <2> HIDE DEF msg
    <2>5. CASE new = old
      BY <2>1, <2>3, <2>5, CarriedByFew DEF new
    <2>6. CASE new # old
      BY <2>1, <2>3, <2>4, <2>6, CarriedByFew DEF new
    <2> QED BY <2>5, <2>6
  <1>4. ASSUME NEW A \in SUBSET DbAlerts
        PROVE  /\ Message("ALERTS", NoMediatypes, A) \in MessageRecord
               /\ Carried(Message("ALERTS", NoMediatypes, A)) = A
    BY <1>2 DEF Message, MessageRecord, MessageOf, Carried
  <1>5. /\ Message("RESULTS", NoMediatypes, {}) \in MessageRecord
        /\ Carried(Message("RESULTS", NoMediatypes, {})) = {}
    BY <1>2 DEF Message, MessageRecord, MessageOf, Carried
  <1>6. ASSUME NEW M \in SUBSET MediaTypes, NEW type \in {"DROP", "WATCHDOG"}
        PROVE  Message(type, NoMediatypes, M) \in MessageRecord /\ Carried(Message(type, NoMediatypes, M)) = {}
    BY <1>2 DEF Message, MessageRecord, MessageOf, Carried
  <1> QED BY <1>3, <1>4, <1>5, <1>6

(* From time to time media types are dropped and the recipients sent. *)
LEMMA CleanupIInv ==
  ASSUME IInv, NEW expired \in SUBSET MediaTypes, NEW watch \in BOOLEAN, Cleanup(expired, watch)
  PROVE  IInv' /\ CarriedBy(inbox') = CarriedBy(inbox)
  <1> DEFINE kept == [m \in MediaTypes |-> IF m \in expired THEN NoSettings ELSE cache[m]]
             R == IF watch THEN Recipients ELSE {}
             m1 == IF expired = {} THEN <<>> ELSE <<Message("DROP", NoMediatypes, expired)>>
             m2 == Updates(kept, R)
             m3 == IF watch THEN <<Message("WATCHDOG", NoMediatypes, R)>> ELSE <<>>
  <1>0. /\ cache' = Cached(kept, R) /\ syncer' = "queue" /\ inbox' = ((inbox \o m1) \o m2) \o m3
        /\ UNCHANGED <<managerVars, alerterVars, status_limit, answer, db, config, test, made,
                       delivered, restarts, changes>>
    BY DEF Cleanup
  <1>1. TypeOK /\ inbox \in Seq(MessageRecord)
    BY DEF IInv, TypeOK
  <1>2. kept \in [MediaTypes -> AllSettings] /\ R \in SUBSET MediaTypes
    BY <1>1, AlertAssumption DEF TypeOK, AllSettings
  <1>3. m1 \in Seq(MessageRecord) /\ CarriedBy(m1) = {} /\ Apart(m1)
    BY <1>1, MessagesOf, CarriedByFew
  <1>4. m3 \in Seq(MessageRecord) /\ CarriedBy(m3) = {} /\ Apart(m3)
    <2> HIDE DEF R
    <2> QED BY <1>1, <1>2, MessagesOf, CarriedByFew
  <1> HIDE DEF kept, R
  <1>5. m2 \in Seq(MessageRecord) /\ CarriedBy(m2) = {} /\ Apart(m2) /\ cache' \in [MediaTypes -> AllSettings]
    BY <1>0, <1>1, <1>2, MessagesOf
  <1> HIDE DEF m1, m2, m3
  <1> DEFINE m12 == m1 \o m2
             m123 == m12 \o m3
  <1>6. m12 \in Seq(MessageRecord) /\ CarriedBy(m12) = {} /\ Apart(m12)
    BY <1>3, <1>5, CarriedByConcat
  <1>7. inbox' = inbox \o m123
    <2>1. (inbox \o m1) \o m2 = inbox \o m12
      BY <1>1, <1>3, <1>5, ConcatAssociative
    <2> HIDE DEF m12
    <2>2. (inbox \o m12) \o m3 = inbox \o (m12 \o m3)
      BY <1>1, <1>4, <1>6, ConcatAssociative
    <2> QED BY <1>0, <2>1, <2>2
  <1> HIDE DEF m12
  <1>8. m123 \in Seq(MessageRecord) /\ CarriedBy(m123) = {} /\ Apart(m123)
    BY <1>4, <1>6, CarriedByConcat
  <1> HIDE DEF m123
  <1> QED BY <1>0, <1>5, <1>7, <1>8, SentIInv DEF managerVars, alerterVars

(* The alerts the syncer takes if the database answers. *)
Taken(ok) == {a \in DbAlerts : ok /\ \/ db[a].status = "NEW"
                                     \/ db[a].status = "NOT_SENT" /\ status_limit = 2}

(* Alerts are read from the database and sent to the manager. *)
LEMMA QueueAlertsIInv ==
  ASSUME IInv, NEW ok \in BOOLEAN, QueueAlerts(ok)
  PROVE  IInv' /\ CarriedBy(inbox') = CarriedBy(inbox) \cup Taken(ok)
  <1> DEFINE A == {a \in DbAlerts : ok /\ \/ db[a].status = "NEW"
                                          \/ db[a].status = "NOT_SENT" /\ status_limit = 2}
             M == {MediaType[a] : a \in A}
             m1 == Updates(cache, M)
             m2 == IF A = {} THEN <<>> ELSE <<Message("ALERTS", NoMediatypes, A)>>
             m3 == <<Message("RESULTS", NoMediatypes, {})>>
  <1>0. /\ syncer' = "wait" /\ status_limit' = (IF ok THEN 1 ELSE status_limit)
        /\ db' = [a \in DbAlerts |-> IF a \in A THEN [db[a] EXCEPT !.status = "NOT_SENT"] ELSE db[a]]
        /\ cache' = Cached(cache, M) /\ inbox' = ((inbox \o m1) \o m2) \o m3
        /\ UNCHANGED <<managerVars, alerterVars, answer, config, test, made, delivered, restarts, changes>>
    BY DEF QueueAlerts, NextLimit
  <1>1. TypeOK /\ inbox \in Seq(MessageRecord) /\ Apart(inbox) /\ db \in [DbAlerts -> AlertRecord]
        /\ status_limit \in {1, 2} /\ cache \in [MediaTypes -> AllSettings]
    BY DEF IInv, TypeOK
  <1>2. M \in SUBSET MediaTypes /\ A \in SUBSET DbAlerts
    BY PlacesOf DEF Alerts
  <1>3. ASSUME NEW a \in A
        PROVE  /\ a \notin CarriedBy(inbox) /\ a \notin Active /\ results[a] = NoResult /\ answer[a] = NoResult
               /\ ok
    <2>1. LifeInv(a) /\ ~(db[a].status = "NOT_SENT" /\ status_limit = 1)
      BY DEF IInv
    <2> QED BY <2>1 DEF LifeInv
  <1>31. \A a \in DbAlerts : a \notin A => db'[a] = db[a]
    BY <1>0
  <1>32. \A a \in A : db'[a].status = "NOT_SENT"
    <2>1. ASSUME NEW a \in A PROVE db'[a] = [db[a] EXCEPT !.status = "NOT_SENT"]
      BY <1>0, <1>2
    <2>2. ASSUME NEW a \in A PROVE [db[a] EXCEPT !.status = "NOT_SENT"].status = "NOT_SENT"
      BY <1>1, <1>2 DEF AlertRecord
    <2> QED BY <2>1, <2>2
  <1>33. db' \in [DbAlerts -> AlertRecord]
    <2>1. ASSUME NEW a \in DbAlerts PROVE [db[a] EXCEPT !.status = "NOT_SENT"] \in AlertRecord
      BY <1>1 DEF AlertRecord
    <2> HIDE DEF A
    <2> QED BY <1>0, <1>1, <2>1
  <1> HIDE DEF M
  <1>4. m1 \in Seq(MessageRecord) /\ CarriedBy(m1) = {} /\ Apart(m1) /\ cache' \in [MediaTypes -> AllSettings]
    BY <1>0, <1>1, <1>2, MessagesOf
  <1> HIDE DEF A
  <1>5. m2 \in Seq(MessageRecord) /\ CarriedBy(m2) = A /\ Apart(m2)
    BY <1>1, <1>2, MessagesOf, CarriedByFew
  <1>6. m3 \in Seq(MessageRecord) /\ CarriedBy(m3) = {} /\ Apart(m3)
    BY <1>1, MessagesOf, CarriedByFew
  <1> HIDE DEF m1, m2, m3
  <1>7. inbox' \in Seq(MessageRecord) /\ CarriedBy(inbox') = CarriedBy(inbox) \cup A /\ Apart(inbox')
    <2> DEFINE i1 == inbox \o m1
               i2 == i1 \o m2
    <2>1. i1 \in Seq(MessageRecord) /\ CarriedBy(i1) = CarriedBy(inbox) /\ Apart(i1)
      BY <1>1, <1>4, CarriedByConcat
    <2>2. inbox' = i2 \o m3
      BY <1>0
    <2> HIDE DEF i1
    <2>3. i2 \in Seq(MessageRecord) /\ CarriedBy(i2) = CarriedBy(inbox) \cup A /\ Apart(i2)
      <3>1. CarriedBy(i1) \cap CarriedBy(m2) = {}
        BY <1>3, <1>5, <2>1
      <3> QED BY <1>5, <2>1, <3>1, CarriedByConcat
    <2> HIDE DEF i2
    <2> DEFINE i3 == i2 \o m3
    <2>4. i3 \in Seq(MessageRecord) /\ CarriedBy(i3) = CarriedBy(inbox) \cup A /\ Apart(i3)
      BY <1>6, <2>3, CarriedByConcat
    <2> HIDE DEF i3
    <2>5. inbox' = i3
      BY <2>2 DEF i3
    <2> QED BY <2>4, <2>5
  <1>8. Queues' = Queues /\ Flying' = Flying
    BY <1>0 DEF Queues, Flying, managerVars, alerterVars
  <1>9. Active' = Active
    BY <1>8 DEF Active
  <1>10. ASSUME NEW b \in DbAlerts PROVE LifeInv(b)'
    <2>1. LifeInv(b) /\ results' = results /\ answer' = answer
      BY <1>0 DEF IInv, managerVars
    <2>2. CASE b \in A
      <3>1. db'[b].status = "NOT_SENT" /\ status_limit' = 1
        BY <1>0, <1>3, <1>32, <2>2
      <3> QED BY <1>3, <1>9, <2>1, <2>2, <3>1 DEF LifeInv, Final, NoResult
    <2>3. CASE b \notin A
      <3>1. db'[b] = db[b] /\ (status_limit = 1 => status_limit' = 1)
        BY <1>0, <1>31, <2>3
      <3>2. b \in CarriedBy(inbox') <=> b \in CarriedBy(inbox)
        BY <1>7, <2>3
      <3> QED BY <1>9, <2>1, <3>1, <3>2 DEF LifeInv, Final
    <2> QED BY <2>2, <2>3
  <1>11. TypeOK'
    <2>1. status_limit' \in {1, 2}
      BY <1>0, <1>1
    <2> QED BY <1>0, <1>1, <1>4, <1>7, <1>33, <2>1 DEF TypeOK, managerVars, alerterVars
  <1>12. Apart(inbox)' /\ AlertersInv' /\ OthersInv'
    BY <1>0, <1>7, <1>8, <1>9 DEF IInv, AlertersInv, OthersInv, alerterVars
  <1>13. QueuesInv(Queues, Flying)' /\ RemovedInUse(Queues)'
    BY <1>8 DEF IInv
  <1>14. IInv'
    BY <1>10, <1>11, <1>12, <1>13 DEF IInv
  <1>15. A = Taken(ok)
    BY DEF A, Taken
  <1> QED BY <1>7, <1>14, <1>15

(* A step of no process. *)
LEMMA StutterIInv == ASSUME IInv, UNCHANGED vars PROVE IInv'
  <1>1. TypeOK'
    BY DEF IInv, TypeOK, vars, managerVars, alerterVars, syncerVars
  <1> QED BY <1>1, QuietIInv DEF vars, managerVars, alerterVars, syncerVars, Flying

(* Every step keeps the invariant. *)
LEMMA NextIInv == ASSUME IInv, SyncerInv, [Next]_vars PROVE IInv'
  <1>1. CASE QueueWatchdogAlerts
    BY <1>1, QueueWatchdogAlertsIInv
  <1>2. CASE Register
    BY <1>2, RegisterIInv
  <1>3. CASE ProcessSyncer
    <2>1. \/ ProcessMediatypes(Head(inbox)) \/ ProcessAlerts(Head(inbox)) \/ ProcessWatchdog(Head(inbox))
          \/ ProcessDrop(Head(inbox)) \/ FlushResults(Head(inbox))
      BY <1>3 DEF ProcessSyncer
    <2> QED BY <1>3, <2>1, ProcessMediatypesIInv, ProcessAlertsIInv, ProcessWatchdogIInv, ProcessDropIInv,
               FlushResultsIInv
  <1>4. ASSUME NEW a \in Alerts, Ripen(a) \/ ProcessResult(a) PROVE IInv'
    BY <1>4, RipenIInv, ProcessResultIInv
  <1>5. ASSUME NEW a \in Alerts, NEW prepared \in BOOLEAN, Dispatch(a, prepared) PROVE IInv'
    BY <1>5, DispatchIInv
  <1>6. ASSUME NEW x \in External, ProcessExternal(x) PROVE IInv'
    BY <1>6, ProcessExternalIInv
  <1>7. ASSUME NEW ok \in BOOLEAN, QueueAlerts(ok) PROVE IInv'
    BY <1>7, QueueAlertsIInv
  <1>8. CASE WriteResults
    BY <1>8, WriteResultsIInv
  <1>9. ASSUME NEW expired \in SUBSET MediaTypes, NEW watch \in BOOLEAN, Cleanup(expired, watch) PROVE IInv'
    BY <1>9, CleanupIInv
  <1>10. ASSUME NEW a \in Alerts, NEW ok \in BOOLEAN, Deliver(a, ok) PROVE IInv'
    BY <1>10, DeliverIInv
  <1>11. ASSUME NEW a \in DbAlerts, AddAlert(a) PROVE IInv'
    BY <1>11, AddAlertIInv
  <1>12. ASSUME NEW x \in External, RequestTest(x) PROVE IInv'
    BY <1>12, RequestTestIInv
  <1>13. ASSUME NEW m \in MediaTypes, ChangeMediatype(m) PROVE IInv'
    BY <1>13, ChangeMediatypeIInv
  <1>14. CASE Restart
    BY <1>14, RestartIInv
  <1>15. CASE UNCHANGED vars
    BY <1>15, StutterIInv
  <1> QED BY <1>1, <1>2, <1>3, <1>4, <1>5, <1>6, <1>7, <1>8, <1>9, <1>10, <1>11, <1>12, <1>13, <1>14, <1>15
          DEF Next, Manager, Syncer

------------------------------------------------------------------------------
(* The dialogue of the syncer and the manager *)

(* A request for the results is the last message, if there is one. *)
NoRequest(q) == \A i \in 1..Len(q) : q[i].type # "RESULTS"

(* Messages other than that are sent. *)
LEMMA NoRequestConcat ==
  ASSUME NEW q \in Seq(MessageRecord), NEW r \in Seq(MessageRecord), NoRequest(q), NoRequest(r)
  PROVE  NoRequest(q \o r) /\ q \o r \in Seq(MessageRecord)
  <1>1. /\ q \o r \in Seq(MessageRecord) /\ Len(q \o r) = Len(q) + Len(r)
        /\ Len(q) \in Nat /\ Len(r) \in Nat
        /\ \A i \in 1..Len(q \o r) : (q \o r)[i] = IF i <= Len(q) THEN q[i] ELSE r[i - Len(q)]
    BY ConcatProperties, LenProperties
  <1>2. ASSUME NEW i \in 1..Len(q \o r) PROVE (q \o r)[i].type # "RESULTS"
    <2>1. CASE i <= Len(q)
      <3>1. i \in 1..Len(q) /\ (q \o r)[i] = q[i]
        BY <1>1, <2>1
      <3> QED BY <3>1 DEF NoRequest
    <2>2. CASE ~(i <= Len(q))
      <3>1. i - Len(q) \in 1..Len(r) /\ (q \o r)[i] = r[i - Len(q)]
        BY <1>1, <2>2
      <3> QED BY <3>1 DEF NoRequest
    <2> QED BY <2>1, <2>2
  <1> QED BY <1>1, <1>2 DEF NoRequest

(* No update, or one, is a sequence without a request. *)
LEMMA NoRequestOf ==
  ASSUME TypeOK
  PROVE  /\ NoRequest(<<>>)
         /\ \A old, M : NoRequest(Updates(old, M))
         /\ \A type, settings, ids : type # "RESULTS" => NoRequest(<<Message(type, settings, ids)>>)
  <1>1. NoRequest(<<>>)
    BY DEF NoRequest
  <1>2. ASSUME NEW type, NEW settings, NEW ids, type # "RESULTS"
        PROVE  NoRequest(<<Message(type, settings, ids)>>)
    BY <1>2 DEF NoRequest, Message
  <1>3. ASSUME NEW old, NEW M PROVE NoRequest(Updates(old, M))
    <2> DEFINE diff == [m \in MediaTypes |-> IF Cached(old, M)[m] = old[m] THEN NoSettings ELSE Cached(old, M)[m]]
    <2>1. NoRequest(<<Message("MEDIATYPES", diff, {})>>)
      BY <1>2
    <2>2. Updates(old, M) = <<>> \/ Updates(old, M) = <<Message("MEDIATYPES", diff, {})>>
      BY DEF Updates
    <2> HIDE DEF diff
    <2> QED BY <1>1, <2>1, <2>2
  <1> QED BY <1>1, <1>2, <1>3

(* Every step keeps the invariant of the syncer. *)
LEMMA NextSyncerInv == ASSUME TypeOK, SyncerInv, [Next]_vars PROVE SyncerInv'
  <1>0. inbox \in Seq(MessageRecord) /\ Len(inbox) \in Nat /\ cache \in [MediaTypes -> AllSettings]
    BY LenProperties DEF TypeOK
  <1>1. CASE UNCHANGED <<inbox, syncer, answer>>
    BY <1>1 DEF SyncerInv
  <1>2. CASE ProcessSyncer
    <2>1. /\ inbox # <<>> /\ inbox' = Tail(inbox)
          /\ syncer' = IF Head(inbox).type = "RESULTS" THEN "answered" ELSE syncer
          /\ Head(inbox).type # "RESULTS" => answer' = answer
      BY <1>2 DEF ProcessSyncer, ProcessMediatypes, ProcessAlerts, ProcessWatchdog, ProcessDrop, FlushResults
    <2>2. /\ Head(inbox) = inbox[1] /\ Len(inbox) >= 1 /\ Len(inbox') = Len(inbox) - 1
          /\ \A i \in 1..Len(inbox') : inbox'[i] = inbox[i + 1]
      BY <1>0, <2>1, HeadTailProperties, EmptySeq, LenProperties
    <2>3. CASE Head(inbox).type = "RESULTS"
      <3>1. Len(inbox) = 1
        BY <1>0, <2>2, <2>3 DEF SyncerInv
      <3>2. 1..Len(inbox') = {}
        BY <2>2, <3>1
      <3> QED BY <2>1, <2>3, <3>2 DEF SyncerInv
    <2>4. CASE Head(inbox).type # "RESULTS"
      <3>1. ASSUME NEW i \in 1..Len(inbox'), inbox'[i].type = "RESULTS" PROVE syncer = "wait" /\ i = Len(inbox')
        <4>1. i + 1 \in 1..Len(inbox) /\ inbox[i + 1].type = "RESULTS"
          BY <1>0, <2>2, <3>1
        <4>2. syncer = "wait" /\ i + 1 = Len(inbox)
          BY <4>1 DEF SyncerInv
        <4> QED BY <1>0, <2>2, <4>2
      <3> QED BY <2>1, <2>4, <3>1 DEF SyncerInv
    <2> QED BY <2>3, <2>4
  <1>3. ASSUME NEW ok \in BOOLEAN, QueueAlerts(ok) PROVE SyncerInv'
    <2> DEFINE A == {a \in DbAlerts : ok /\ \/ db[a].status = "NEW"
                                            \/ db[a].status = "NOT_SENT" /\ status_limit = 2}
               M == {MediaType[a] : a \in A}
               m1 == Updates(cache, M)
               m2 == IF A = {} THEN <<>> ELSE <<Message("ALERTS", NoMediatypes, A)>>
               m3 == <<Message("RESULTS", NoMediatypes, {})>>
    <2>1. syncer = "queue" /\ syncer' = "wait" /\ inbox' = ((inbox \o m1) \o m2) \o m3 /\ answer' = answer
      BY <1>3 DEF QueueAlerts
    <2>2. M \in SUBSET MediaTypes /\ A \in SUBSET DbAlerts
      BY PlacesOf DEF Alerts
    <2>3. NoRequest(inbox)
      BY <2>1 DEF SyncerInv, NoRequest
    <2> HIDE DEF A, M
    <2>4. m1 \in Seq(MessageRecord) /\ m2 \in Seq(MessageRecord) /\ m3 \in Seq(MessageRecord)
      BY <1>0, <2>2, MessagesOf, CarriedByFew
    <2>5. NoRequest(m1) /\ NoRequest(m2) /\ Len(m3) = 1
      BY NoRequestOf
    <2> HIDE DEF m1, m2, m3
    <2> DEFINE q == (inbox \o m1) \o m2
    <2>6. q \in Seq(MessageRecord) /\ NoRequest(q)
      BY <1>0, <2>3, <2>4, <2>5, NoRequestConcat
    <2>7. inbox' = q \o m3
      BY <2>1
    <2> HIDE DEF q
    <2>8. /\ Len(inbox') = Len(q) + 1 /\ Len(q) \in Nat
          /\ \A i \in 1..Len(inbox') : i <= Len(q) => inbox'[i] = q[i]
      <3>1. /\ Len(q \o m3) = Len(q) + Len(m3) /\ Len(q) \in Nat
            /\ \A i \in 1..Len(q) + Len(m3) : (q \o m3)[i] = IF i <= Len(q) THEN q[i] ELSE m3[i - Len(q)]
        BY <2>4, <2>6, ConcatProperties, LenProperties
      <3> QED BY <2>5, <2>7, <3>1
    <2>9. ASSUME NEW i \in 1..Len(inbox'), inbox'[i].type = "RESULTS" PROVE i = Len(inbox')
      <3>1. ~(i <= Len(q))
        BY <2>6, <2>8, <2>9 DEF NoRequest
      <3> QED BY <2>8, <3>1
    <2>10. answer' = NoResults
      BY <2>1 DEF SyncerInv
    <2> QED BY <2>1, <2>9, <2>10 DEF SyncerInv
  <1>4. CASE WriteResults
    BY <1>4 DEF WriteResults, SyncerInv
  <1>5. ASSUME NEW expired \in SUBSET MediaTypes, NEW watch \in BOOLEAN, Cleanup(expired, watch)
        PROVE  SyncerInv'
    <2> DEFINE kept == [m \in MediaTypes |-> IF m \in expired THEN NoSettings ELSE cache[m]]
               R == IF watch THEN Recipients ELSE {}
               m1 == IF expired = {} THEN <<>> ELSE <<Message("DROP", NoMediatypes, expired)>>
               m2 == Updates(kept, R)
               m3 == IF watch THEN <<Message("WATCHDOG", NoMediatypes, R)>> ELSE <<>>
    <2>1. syncer = "cleanup" /\ syncer' = "queue" /\ inbox' = ((inbox \o m1) \o m2) \o m3 /\ answer' = answer
      BY <1>5 DEF Cleanup
    <2>2. kept \in [MediaTypes -> AllSettings] /\ R \in SUBSET MediaTypes
      BY <1>0, AlertAssumption DEF AllSettings
    <2>3. NoRequest(inbox)
      BY <2>1 DEF SyncerInv, NoRequest
    <2> HIDE DEF kept, R
    <2>4. m1 \in Seq(MessageRecord) /\ m2 \in Seq(MessageRecord) /\ m3 \in Seq(MessageRecord)
      BY <2>2, MessagesOf, CarriedByFew
    <2>5. NoRequest(m1) /\ NoRequest(m2) /\ NoRequest(m3)
      BY NoRequestOf
    <2> HIDE DEF m1, m2, m3
    <2>6. inbox \o m1 \in Seq(MessageRecord) /\ NoRequest(inbox \o m1)
      BY <1>0, <2>3, <2>4, <2>5, NoRequestConcat
    <2>7. (inbox \o m1) \o m2 \in Seq(MessageRecord) /\ NoRequest((inbox \o m1) \o m2)
      BY <2>4, <2>5, <2>6, NoRequestConcat
    <2>8. NoRequest(inbox')
      BY <2>1, <2>4, <2>5, <2>7, NoRequestConcat
    <2> QED BY <2>1, <2>8 DEF SyncerInv, NoRequest
  <1>6. CASE Restart
    <2>1. inbox' = <<>> /\ answer' = NoResults
      BY <1>6 DEF Restart
    <2> QED BY <2>1 DEF SyncerInv
  <1>7. CASE Manager /\ ~ProcessSyncer
    <2>1. UNCHANGED <<inbox, syncer, answer>>
      BY <1>7 DEF Manager, QueueWatchdogAlerts, Register, Ripen, ProcessResult, Dispatch, ProcessExternal,
                  syncerVars
    <2> QED BY <1>1, <2>1
  <1>8. ASSUME \/ \E a \in Alerts, ok \in BOOLEAN : Deliver(a, ok)
               \/ \E a \in DbAlerts : AddAlert(a)
               \/ \E x \in External : RequestTest(x)
               \/ \E m \in MediaTypes : ChangeMediatype(m)
               \/ UNCHANGED vars
        PROVE  SyncerInv'
    <2>1. UNCHANGED <<inbox, syncer, answer>>
      BY <1>8 DEF Deliver, AddAlert, RequestTest, ChangeMediatype, vars, syncerVars
    <2> QED BY <1>1, <2>1
  <1> QED BY <1>2, <1>3, <1>4, <1>5, <1>6, <1>7, <1>8 DEF Next, Syncer

------------------------------------------------------------------------------
(* Theorems *)

(* The invariant of the manager and the syncer. *)
THEOREM AlertInvariant == Spec => [](IInv /\ SyncerInv)
  <1>1. Init => IInv /\ SyncerInv
    <2>1. Init => SyncerInv
      BY DEF Init, SyncerInv
    <2> QED BY <2>1, InitIInv
  <1>2. IInv /\ SyncerInv /\ [Next]_vars => (IInv /\ SyncerInv)'
    <2>1. IInv => TypeOK
      BY DEF IInv
    <2> QED BY <2>1, NextIInv, NextSyncerInv
  <1> QED BY <1>1, <1>2, PTL DEF Spec

(* The variables have their types: the counters never go below zero, and   *)
(* the unsigned one stays in its range.                                    *)
THEOREM AlertTypeOK == Spec => []TypeOK
  <1>1. IInv => TypeOK
    BY DEF IInv
  <1> QED BY <1>1, AlertInvariant, PTL

(* What the properties count is what the invariant counts. *)
LEMMA CountedSets ==
  ASSUME IInv
  PROVE  \A m \in MediaTypes :
           /\ UNION {InFlight(m, p) : p \in Pools} = Flying \cap OfType(m)
           /\ UNION {Waiting(m, p) : p \in Pools} = QueuedOf(Queues, m)
           /\ \A p \in Pools : InFlight(m, p) = Flying \cap Of(m, p) /\ Waiting(m, p) = Queues.ap[m][p].queue
  <1>1. QueuesInv(Queues, Flying) /\ Queues.ap = alertpools
    BY DEF IInv, Queues
  <1>2. ASSUME NEW m \in MediaTypes, NEW p \in Pools
        PROVE  /\ InFlight(m, p) = Flying \cap Of(m, p) /\ Waiting(m, p) = Queues.ap[m][p].queue
               /\ Waiting(m, p) \subseteq Of(m, p)
    <2>1. PoolInv(Queues, Flying, m, p)
      BY <1>1 DEF QueuesInv
    <2> QED BY <1>1, <2>1 DEF PoolInv, InFlight, Waiting, Flying, Of, OfType
  <1>3. ASSUME NEW m \in MediaTypes PROVE UNION {InFlight(m, p) : p \in Pools} = Flying \cap OfType(m)
    BY <1>2, PlacesOf DEF Of, OfType
  <1>4. ASSUME NEW m \in MediaTypes PROVE UNION {Waiting(m, p) : p \in Pools} = QueuedOf(Queues, m)
    BY <1>1, <1>2, PlacesOf DEF Of, OfType, QueuedOf
  <1> QED BY <1>2, <1>3, <1>4

(* No two alerters work on alerts of the same pool. *)
THEOREM AlertPoolSequential == Spec => []PoolSequential
  <1>1. IInv => PoolSequential
    <2> SUFFICES ASSUME IInv, NEW m \in MediaTypes, NEW p \in Pools PROVE Cardinality(InFlight(m, p)) <= 1
      BY DEF PoolSequential
    <2>1. PoolInv(Queues, Flying, m, p)
      BY DEF IInv, QueuesInv
    <2>2. Cardinality(InFlight(m, p)) = Cardinality(Flying \cap Of(m, p))
      BY CountedSets, Zenon
    <2> QED BY <2>1, <2>2 DEF PoolInv
  <1> QED BY <1>1, AlertInvariant, PTL

(* The counters of sessions and references are exact. *)
THEOREM AlertCountersExact == Spec => []CountersExact
  <1>1. IInv => CountersExact
    <2> SUFFICES ASSUME IInv, NEW m \in MediaTypes
                 PROVE  LET flying == UNION {InFlight(m, p) : p \in Pools}
                            waiting == UNION {Waiting(m, p) : p \in Pools}
                        IN /\ mediatypes[m].remove => mediatypes[m].refcount > 0
                           /\ mediatypes[m].alerts_num = Cardinality(flying)
                           /\ mediatypes[m].refcount = Cardinality(flying) + Cardinality(waiting)
                           /\ \A p \in Pools :
                                 /\ alertpools[m][p].alerts_num = Cardinality(InFlight(m, p))
                                 /\ alertpools[m][p].refcount = Cardinality(InFlight(m, p)) + Cardinality(Waiting(m, p))
      BY DEF CountersExact
    <2>1. MediaInv(Queues, Flying, m) /\ Queues.mt = mediatypes /\ Queues.ap = alertpools
      BY DEF IInv, QueuesInv, Queues
    <2>2. mediatypes[m].remove => mediatypes[m].refcount > 0
      BY <2>1 DEF IInv, RemovedInUse
    <2>3. /\ Cardinality(UNION {InFlight(m, p) : p \in Pools}) = Cardinality(Flying \cap OfType(m))
          /\ Cardinality(UNION {Waiting(m, p) : p \in Pools}) = Cardinality(QueuedOf(Queues, m))
      BY CountedSets, Zenon
    <2>4. ASSUME NEW p \in Pools
          PROVE  /\ alertpools[m][p].alerts_num = Cardinality(InFlight(m, p))
                 /\ alertpools[m][p].refcount = Cardinality(InFlight(m, p)) + Cardinality(Waiting(m, p))
      <3>1. PoolInv(Queues, Flying, m, p)
        BY DEF IInv, QueuesInv
      <3>2. /\ Cardinality(InFlight(m, p)) = Cardinality(Flying \cap Of(m, p))
            /\ Cardinality(Waiting(m, p)) = Cardinality(Queues.ap[m][p].queue)
        BY CountedSets, Zenon
      <3> QED BY <2>1, <3>1, <3>2 DEF PoolInv
    <2> QED BY <2>1, <2>2, <2>3, <2>4 DEF MediaInv
  <1> QED BY <1>1, AlertInvariant, PTL

(* No alert is stranded in a queue that nothing looks at. *)
THEOREM AlertNothingStranded == Spec => []NothingStranded
  <1>1. IInv => NothingStranded
    <2> SUFFICES ASSUME IInv PROVE NothingStranded
      OBVIOUS
    <2>1. /\ QueuesInv(Queues, Flying) /\ Queues.mt = mediatypes /\ Queues.ap = alertpools /\ Queues.q = queue
          /\ mediatypes \in [MediaTypes -> MediaTypeRecord]
      BY DEF IInv, Queues, TypeOK
    <2>2. ASSUME NEW m \in MediaTypes, NEW p \in Pools
          PROVE  (p \in mediatypes[m].queue) = (Waiting(m, p) # {} /\ InFlight(m, p) = {})
      <3>1. PoolInv(Queues, Flying, m, p)
        BY <2>1 DEF QueuesInv
      <3>2. Flying \cap Of(m, p) \in SUBSET Alerts
        BY DEF Flying
      <3>3. Cardinality(Flying \cap Of(m, p)) = 0 <=> Flying \cap Of(m, p) = {}
        BY <3>2, FiniteAlerts, FS_EmptySet
      <3>4. InFlight(m, p) = Flying \cap Of(m, p) /\ Waiting(m, p) = alertpools[m][p].queue
        BY <2>1, CountedSets
      <3>5. p \in mediatypes[m].queue <=> alertpools[m][p].queue # {} /\ alertpools[m][p].alerts_num = 0
        BY <2>1, <3>1 DEF PoolInv
      <3>6. alertpools[m][p].alerts_num = Cardinality(Flying \cap Of(m, p))
        BY <2>1, <3>1 DEF PoolInv
      <3>7. alertpools[m][p].alerts_num = 0 <=> InFlight(m, p) = {}
        BY <3>3, <3>4, <3>6
      <3> QED BY <3>4, <3>5, <3>7
    <2>3. ASSUME NEW m \in MediaTypes
          PROVE  /\ m \in queue => mediatypes[m].queue # {}
                 /\ mediatypes[m].queue # {} => m \in queue \/ mediatypes[m].alerts_num > 0
      BY <2>1 DEF QueuesInv, MediaInv
    <2> QED BY <2>2, <2>3 DEF NothingStranded
  <1> QED BY <1>1, AlertInvariant, PTL

------------------------------------------------------------------------------
(* Media types and alerts on their way to the manager *)

(* The manager has media type m when n messages of q are handled; known    *)
(* tells whether it has it now.                                            *)
DropOf(msg, m) == msg.type = "DROP" /\ m \in msg.ids
UpdateOf(msg, m) == msg.type = "MEDIATYPES" /\ msg.settings[m] # NoSettings
KnownAfter(known, q, n, m) ==
    \E j \in 0..n : /\ (j = 0 /\ known) \/ (j > 0 /\ UpdateOf(q[j], m))
                    /\ \A k \in (j + 1)..n : ~DropOf(q[k], m)

(* Cache C of the syncer is what the manager will have when the messages   *)
(* are handled, and alerts come when the manager has their media type.     *)
Informed(q, C) ==
    /\ \A m \in MediaTypes : C[m] # NoSettings => KnownAfter(Known(m), q, Len(q), m)
    /\ \A i \in 1..Len(q) : \A a \in Carried(q[i]) : KnownAfter(Known(MediaType[a]), q, i - 1, MediaType[a])

CacheInv == Informed(inbox, cache)

(* One more message is handled. *)
LEMMA KnownAfterStep ==
  ASSUME NEW known, NEW q, NEW n \in Nat, NEW m,
         UpdateOf(q[n + 1], m) \/ (KnownAfter(known, q, n, m) /\ ~DropOf(q[n + 1], m))
  PROVE  KnownAfter(known, q, n + 1, m)
  <1>1. CASE UpdateOf(q[n + 1], m)
    <2>1. n + 1 \in 0..(n + 1) /\ n + 1 > 0 /\ ((n + 1) + 1)..(n + 1) = {}
      OBVIOUS
    <2> QED BY <1>1, <2>1 DEF KnownAfter
  <1>2. CASE KnownAfter(known, q, n, m) /\ ~DropOf(q[n + 1], m)
    <2>1. PICK j \in 0..n : /\ (j = 0 /\ known) \/ (j > 0 /\ UpdateOf(q[j], m))
                            /\ \A k \in (j + 1)..n : ~DropOf(q[k], m)
      BY <1>2 DEF KnownAfter
    <2>2. j \in 0..(n + 1)
      OBVIOUS
    <2>3. ASSUME NEW k \in (j + 1)..(n + 1) PROVE ~DropOf(q[k], m)
      <3>1. k \in (j + 1)..n \/ k = n + 1
        OBVIOUS
      <3> QED BY <1>2, <2>1, <3>1
    <2> QED BY <2>1, <2>2, <2>3 DEF KnownAfter
  <1> QED BY <1>1, <1>2

(* It does not depend on later messages. *)
LEMMA KnownAfterPrefix ==
  ASSUME NEW known, NEW now, known => now, NEW q, NEW r, NEW n \in Nat, NEW m,
         \A i \in 1..n : r[i] = q[i], KnownAfter(known, q, n, m)
  PROVE  KnownAfter(now, r, n, m)
  <1>1. PICK j \in 0..n : /\ (j = 0 /\ known) \/ (j > 0 /\ UpdateOf(q[j], m))
                          /\ \A k \in (j + 1)..n : ~DropOf(q[k], m)
    BY DEF KnownAfter
  <1>2. (j = 0 /\ now) \/ (j > 0 /\ UpdateOf(r[j], m))
    BY <1>1
  <1>3. \A k \in (j + 1)..n : ~DropOf(r[k], m)
    BY <1>1
  <1> QED BY <1>2, <1>3 DEF KnownAfter

(* The first message is handled. *)
LEMMA KnownAfterTail ==
  ASSUME NEW known, NEW now, NEW q, NEW r, NEW n \in Nat, NEW m, \A i \in 1..n : r[i] = q[i + 1],
         KnownAfter(known, q, n + 1, m), UpdateOf(q[1], m) \/ (known /\ ~DropOf(q[1], m)) => now
  PROVE  KnownAfter(now, r, n, m)
  <1>1. PICK j \in 0..(n + 1) : /\ (j = 0 /\ known) \/ (j > 0 /\ UpdateOf(q[j], m))
                                /\ \A k \in (j + 1)..(n + 1) : ~DropOf(q[k], m)
    BY DEF KnownAfter
  <1>2. CASE j \in {0, 1}
    <2>1. UpdateOf(q[1], m) \/ (known /\ ~DropOf(q[1], m))
      <3>1. CASE j = 0
        <4>1. 1 \in (j + 1)..(n + 1)
          BY <3>1
        <4> QED BY <1>1, <3>1, <4>1
      <3>2. CASE j = 1
        BY <1>1, <3>2
      <3> QED BY <1>2, <3>1, <3>2
    <2>2. ASSUME NEW k \in (0 + 1)..n PROVE ~DropOf(r[k], m)
      <3>1. k + 1 \in (j + 1)..(n + 1) /\ r[k] = q[k + 1]
        BY <1>2
      <3> QED BY <1>1, <3>1
    <2>3. 0 \in 0..n /\ now
      BY <2>1
    <2> QED BY <2>2, <2>3 DEF KnownAfter
  <1>3. CASE j \notin {0, 1}
    <2>1. j - 1 \in 0..n /\ j - 1 > 0 /\ r[j - 1] = q[j]
      BY <1>3
    <2>2. UpdateOf(r[j - 1], m)
      BY <1>1, <1>3, <2>1
    <2>3. ASSUME NEW k \in ((j - 1) + 1)..n PROVE ~DropOf(r[k], m)
      <3>1. k + 1 \in (j + 1)..(n + 1) /\ r[k] = q[k + 1]
        BY <1>3
      <3> QED BY <1>1, <3>1
    <2> QED BY <2>1, <2>2, <2>3 DEF KnownAfter
  <1> QED BY <1>2, <1>3

(* The syncer sends a message, and its cache becomes D. *)
LEMMA InformedAppend ==
  ASSUME NEW q \in Seq(MessageRecord), NEW C, NEW D, Informed(q, C), NEW msg \in MessageRecord,
         \A m \in MediaTypes : D[m] # NoSettings => UpdateOf(msg, m) \/ (C[m] # NoSettings /\ ~DropOf(msg, m)),
         \A a \in Carried(msg) : C[MediaType[a]] # NoSettings
  PROVE  Informed(q \o <<msg>>, D)
  <1> DEFINE r == q \o <<msg>>
             n == Len(q)
  <1>1. n \in Nat /\ Len(r) = n + 1 /\ r[n + 1] = msg /\ \A i \in 1..n : r[i] = q[i]
    OBVIOUS
  <1> HIDE DEF r, n
  <1>2. ASSUME NEW m \in MediaTypes, D[m] # NoSettings PROVE KnownAfter(Known(m), r, Len(r), m)
    <2>1. CASE UpdateOf(msg, m)
      BY <1>1, <2>1, KnownAfterStep
    <2>2. CASE C[m] # NoSettings /\ ~DropOf(msg, m)
      <3>1. KnownAfter(Known(m), q, n, m)
        BY <2>2 DEF Informed, n
      <3>2. KnownAfter(Known(m), r, n, m)
        BY <1>1, <3>1, KnownAfterPrefix
      <3> QED BY <1>1, <2>2, <3>2, KnownAfterStep
    <2> QED BY <1>2, <2>1, <2>2
  <1>3. ASSUME NEW i \in 1..Len(r), NEW a \in Carried(r[i])
        PROVE  KnownAfter(Known(MediaType[a]), r, i - 1, MediaType[a])
    <2> DEFINE m == MediaType[a]
    <2>1. KnownAfter(Known(m), q, i - 1, m)
      <3>1. CASE i = n + 1
        <4>1. a \in Carried(msg) /\ i - 1 = Len(q)
          BY <1>1, <3>1 DEF n
        <4>2. m \in MediaTypes
          BY <4>1, CarriedDb, PlacesOf DEF Alerts
        <4> QED BY <4>1, <4>2 DEF Informed
      <3>2. CASE i # n + 1
        <4>1. i \in 1..Len(q) /\ r[i] = q[i]
          BY <1>1, <3>2 DEF n
        <4> QED BY <4>1 DEF Informed
      <3> QED BY <3>1, <3>2
    <2>2. i - 1 \in Nat /\ \A k \in 1..(i - 1) : r[k] = q[k]
      BY <1>1
    <2> HIDE DEF m
    <2>3. KnownAfter(Known(m), r, i - 1, m)
      BY <2>1, <2>2, KnownAfterPrefix
    <2> QED BY <2>3 DEF m
  <1> QED BY <1>2, <1>3 DEF Informed, r

(* The settings that changed are sent. *)
LEMMA InformedUpdates ==
  ASSUME TypeOK, NEW q \in Seq(MessageRecord), NEW C \in [MediaTypes -> AllSettings], Informed(q, C),
         NEW M \in SUBSET MediaTypes
  PROVE  Informed(q \o Updates(C, M), Cached(C, M))
  <1> DEFINE new == Cached(C, M)
             diff == [m \in MediaTypes |-> IF new[m] = C[m] THEN NoSettings ELSE new[m]]
             msg == Message("MEDIATYPES", diff, {})
  <1>1. Updates(C, M) = IF new = C THEN <<>> ELSE <<msg>>
    BY DEF Updates
  <1>2. new \in [MediaTypes -> AllSettings]
    BY MessagesOf
  <1> HIDE DEF new
  <1>3. diff \in [MediaTypes -> AllSettings]
    BY <1>2 DEF AllSettings
  <1>4. \A m \in MediaTypes : diff[m] = IF new[m] = C[m] THEN NoSettings ELSE new[m]
    OBVIOUS
  <1> HIDE DEF diff
  <1>5. msg \in MessageRecord /\ Carried(msg) = {} /\ msg.type = "MEDIATYPES" /\ msg.settings = diff
    BY <1>3 DEF Message, MessageRecord, MessageOf, Carried
  <1> HIDE DEF msg
  <1>6. CASE new = C
    <2>1. q \o <<>> = q
      BY ConcatEmptySeq
    <2> QED BY <1>1, <1>6, <2>1 DEF new
  <1>7. CASE new # C
    <2>1. ASSUME NEW m \in MediaTypes, new[m] # NoSettings
          PROVE  UpdateOf(msg, m) \/ (C[m] # NoSettings /\ ~DropOf(msg, m))
      BY <1>4, <1>5, <2>1 DEF UpdateOf, DropOf
    <2>2. Informed(q \o <<msg>>, new)
      BY <1>5, <2>1, InformedAppend
    <2> QED BY <1>1, <1>7, <2>2 DEF new
  <1> QED BY <1>6, <1>7

(* The manager does something else than handling a message of the syncer. *)
LEMMA InformedKept ==
  ASSUME TypeOK, CacheInv, KnownKept, UNCHANGED <<inbox, cache>> PROVE CacheInv'
  <1>1. Len(inbox) \in Nat /\ inbox \in Seq(MessageRecord)
    BY LenProperties DEF TypeOK
  <1>2. ASSUME NEW m \in MediaTypes, NEW n \in Nat, KnownAfter(Known(m), inbox, n, m)
        PROVE  KnownAfter(Known(m)', inbox, n, m)
    <2>1. Known(m) => Known(m)'
      BY DEF KnownKept
    <2> QED BY <1>2, <2>1, KnownAfterPrefix
  <1>3. ASSUME NEW m \in MediaTypes, cache'[m] # NoSettings PROVE KnownAfter(Known(m)', inbox', Len(inbox'), m)
    BY <1>1, <1>2, <1>3 DEF CacheInv, Informed
  <1>4. ASSUME NEW i \in 1..Len(inbox'), NEW a \in Carried(inbox'[i])
        PROVE  KnownAfter(Known(MediaType[a])', inbox', i - 1, MediaType[a])
    <2>1. i \in 1..Len(inbox) /\ i - 1 \in Nat /\ a \in Carried(inbox[i])
      BY <1>1
    <2>2. MediaType[a] \in MediaTypes
      BY <1>1, <2>1, CarriedDb, PlacesOf DEF Alerts
    <2>3. KnownAfter(Known(MediaType[a]), inbox, i - 1, MediaType[a])
      BY <2>1 DEF CacheInv, Informed
    <2>4. KnownAfter(Known(MediaType[a])', inbox, i - 1, MediaType[a])
      BY <1>2, <2>1, <2>2, <2>3
    <2> QED BY <2>4
  <1> QED BY <1>3, <1>4 DEF CacheInv, Informed, KnownAfter, Known

(* The manager handles a message. *)
LEMMA InformedReceive ==
  ASSUME TypeOK, CacheInv, inbox # <<>>, inbox' = Tail(inbox), cache' = cache,
         \A m \in MediaTypes : UpdateOf(Head(inbox), m) \/ (Known(m) /\ ~DropOf(Head(inbox), m)) => Known(m)'
  PROVE  CacheInv'
  <1>1. /\ Head(inbox) = inbox[1] /\ inbox' \in Seq(MessageRecord) /\ Len(inbox) \in Nat /\ Len(inbox) >= 1
        /\ Len(inbox') = Len(inbox) - 1 /\ \A i \in 1..Len(inbox') : inbox'[i] = inbox[i + 1]
    BY HeadTailProperties, EmptySeq, LenProperties DEF TypeOK
  <1>2. ASSUME NEW m \in MediaTypes, NEW n \in 0..Len(inbox'), KnownAfter(Known(m), inbox, n + 1, m)
        PROVE  KnownAfter(Known(m)', inbox', n, m)
    <2>1. n \in Nat /\ \A i \in 1..n : inbox'[i] = inbox[i + 1]
      BY <1>1
    <2>2. UpdateOf(inbox[1], m) \/ (Known(m) /\ ~DropOf(inbox[1], m)) => Known(m)'
      BY <1>1
    <2> QED BY <1>2, <2>1, <2>2, KnownAfterTail
  <1>3. ASSUME NEW m \in MediaTypes, cache'[m] # NoSettings PROVE KnownAfter(Known(m)', inbox', Len(inbox'), m)
    <2>1. KnownAfter(Known(m), inbox, Len(inbox), m)
      BY <1>3 DEF CacheInv, Informed
    <2>2. Len(inbox') \in 0..Len(inbox') /\ Len(inbox') + 1 = Len(inbox)
      BY <1>1
    <2> QED BY <1>2, <2>1, <2>2
  <1>4. ASSUME NEW i \in 1..Len(inbox'), NEW a \in Carried(inbox'[i])
        PROVE  KnownAfter(Known(MediaType[a])', inbox', i - 1, MediaType[a])
    <2>1. i + 1 \in 1..Len(inbox) /\ a \in Carried(inbox[i + 1]) /\ (i + 1) - 1 = (i - 1) + 1
          /\ i - 1 \in 0..Len(inbox')
      BY <1>1
    <2>2. MediaType[a] \in MediaTypes
      BY <1>1, CarriedDb, PlacesOf DEF Alerts
    <2>3. KnownAfter(Known(MediaType[a]), inbox, (i + 1) - 1, MediaType[a])
      BY <2>1 DEF CacheInv, Informed
    <2>4. KnownAfter(Known(MediaType[a]), inbox, (i - 1) + 1, MediaType[a])
      BY <2>1, <2>3
    <2> QED BY <1>2, <2>1, <2>2, <2>4
  <1> QED BY <1>3, <1>4 DEF CacheInv, Informed, KnownAfter, Known

(* The syncer sends messages. *)
LEMMA InformedSend ==
  ASSUME Informed(inbox', cache'), mediatypes' = mediatypes PROVE CacheInv'
  BY DEF CacheInv, Informed, KnownAfter, Known

(* The settings of a media type are never those of none. *)
LEMMA SettingsReal == NoSettings \notin Settings
  <1>1. NoSettings.maxattempts = 0
    BY DEF NoSettings
  <1> QED BY <1>1, AlertAssumption

(* The syncer reads alerts and sends them after their media types. *)
LEMMA QueueAlertsCache ==
  ASSUME TypeOK, CacheInv, NEW ok \in BOOLEAN, QueueAlerts(ok) PROVE CacheInv'
  <1> DEFINE A == {a \in DbAlerts : ok /\ \/ db[a].status = "NEW"
                                          \/ db[a].status = "NOT_SENT" /\ status_limit = 2}
             M == {MediaType[a] : a \in A}
             m2 == IF A = {} THEN <<>> ELSE <<Message("ALERTS", NoMediatypes, A)>>
             m3 == <<Message("RESULTS", NoMediatypes, {})>>
             C == Cached(cache, M)
             q1 == inbox \o Updates(cache, M)
  <1>0. cache' = C /\ inbox' = (q1 \o m2) \o m3 /\ mediatypes' = mediatypes
    BY DEF QueueAlerts, managerVars
  <1>1. inbox \in Seq(MessageRecord) /\ cache \in [MediaTypes -> AllSettings] /\ config \in [MediaTypes -> Settings]
    BY DEF TypeOK
  <1>2. M \in SUBSET MediaTypes /\ A \in SUBSET DbAlerts
    BY PlacesOf DEF Alerts
  <1>3. \A a \in A : C[MediaType[a]] # NoSettings
    <2>1. ASSUME NEW a \in A PROVE C[MediaType[a]] # NoSettings
      <3>1. MediaType[a] \in M /\ MediaType[a] \in MediaTypes
        BY <1>2
      <3>2. C[MediaType[a]] = config[MediaType[a]]
        BY <3>1 DEF Cached
      <3> QED BY <1>1, <3>1, <3>2, SettingsReal
    <2> QED BY <2>1
  <1> HIDE DEF M
  <1>4. Informed(q1, C) /\ q1 \in Seq(MessageRecord)
    BY <1>1, <1>2, InformedUpdates, MessagesOf DEF CacheInv
  <1> HIDE DEF A, C, q1
  <1>5. Informed(q1 \o m2, C) /\ q1 \o m2 \in Seq(MessageRecord)
    <2>1. CASE A = {}
      <3>1. q1 \o <<>> = q1
        BY <1>4, ConcatEmptySeq
      <3> QED BY <1>4, <2>1, <3>1
    <2>2. CASE A # {}
      <3> DEFINE msg == Message("ALERTS", NoMediatypes, A)
      <3>1. msg \in MessageRecord /\ Carried(msg) = A
        BY <1>2, MessagesOf
      <3>2. \A m \in MediaTypes : ~DropOf(msg, m)
        BY DEF DropOf, Message
      <3>3. m2 = <<msg>>
        BY <2>2
      <3> HIDE DEF msg, m2
      <3>4. Informed(q1 \o <<msg>>, C)
        BY <1>3, <1>4, <3>1, <3>2, InformedAppend
      <3>5. q1 \o <<msg>> \in Seq(MessageRecord)
        BY <1>4, <3>1
      <3> QED BY <3>3, <3>4, <3>5
    <2> QED BY <2>1, <2>2
  <1> HIDE DEF m2
  <1> DEFINE q2 == q1 \o m2
             res == Message("RESULTS", NoMediatypes, {})
  <1>6. res \in MessageRecord /\ Carried(res) = {} /\ \A m \in MediaTypes : ~DropOf(res, m)
    BY MessagesOf DEF DropOf, Message
  <1>7. inbox' = q2 \o <<res>> /\ Informed(q2, C) /\ q2 \in Seq(MessageRecord)
    BY <1>0, <1>5
  <1> HIDE DEF q2, res
  <1>8. Informed(q2 \o <<res>>, C)
    BY <1>6, <1>7, InformedAppend
  <1> QED BY <1>0, <1>7, <1>8, InformedSend

(* The syncer drops media types and sends those of the recipients. *)
LEMMA CleanupCache ==
  ASSUME TypeOK, CacheInv, NEW expired \in SUBSET MediaTypes, NEW watch \in BOOLEAN, Cleanup(expired, watch)
  PROVE  CacheInv'
  <1> DEFINE kept == [m \in MediaTypes |-> IF m \in expired THEN NoSettings ELSE cache[m]]
             R == IF watch THEN Recipients ELSE {}
             m1 == IF expired = {} THEN <<>> ELSE <<Message("DROP", NoMediatypes, expired)>>
             m2 == Updates(kept, R)
             m3 == IF watch THEN <<Message("WATCHDOG", NoMediatypes, R)>> ELSE <<>>
             q1 == inbox \o m1
             C == Cached(kept, R)
  <1>0. cache' = C /\ inbox' = (q1 \o m2) \o m3 /\ mediatypes' = mediatypes
    BY DEF Cleanup, managerVars
  <1>1. inbox \in Seq(MessageRecord) /\ cache \in [MediaTypes -> AllSettings]
    BY DEF TypeOK
  <1>2. kept \in [MediaTypes -> AllSettings] /\ R \in SUBSET MediaTypes
    BY <1>1, AlertAssumption DEF AllSettings
  <1>3. Informed(q1, kept) /\ q1 \in Seq(MessageRecord)
    <2>1. CASE expired = {}
      <3>1. kept = cache /\ q1 = inbox
        BY <1>1, <2>1, ConcatEmptySeq
      <3> QED BY <1>1, <3>1 DEF CacheInv
    <2>2. CASE expired # {}
      <3> DEFINE msg == Message("DROP", NoMediatypes, expired)
      <3>1. msg \in MessageRecord /\ Carried(msg) = {}
        BY MessagesOf
      <3>2. \A m \in MediaTypes : kept[m] # NoSettings => cache[m] # NoSettings /\ ~DropOf(msg, m)
        BY DEF DropOf, Message
      <3>3. q1 = inbox \o <<msg>> /\ q1 \in Seq(MessageRecord)
        BY <1>1, <2>2, <3>1
      <3> HIDE DEF msg, kept, q1
      <3>4. Informed(inbox \o <<msg>>, kept)
        BY <1>1, <3>1, <3>2, InformedAppend DEF CacheInv
      <3> QED BY <3>3, <3>4
    <2> QED BY <2>1, <2>2
  <1> HIDE DEF kept, q1
  <1>4. R = {} \/ R = Recipients
    OBVIOUS
  <1> HIDE DEF R
  <1> DEFINE q2 == q1 \o m2
  <1>5. Informed(q2, C) /\ q2 \in Seq(MessageRecord)
    BY <1>2, <1>3, InformedUpdates, MessagesOf
  <1>6. inbox' = q2 \o m3
    BY <1>0
  <1> HIDE DEF C, q2
  <1>7. Informed(q2 \o m3, C)
    <2>1. CASE ~watch
      <3>1. q2 \o <<>> = q2
        BY <1>5, ConcatEmptySeq
      <3> QED BY <1>5, <2>1, <3>1
    <2>2. CASE watch
      <3> DEFINE msg == Message("WATCHDOG", NoMediatypes, R)
      <3>1. msg \in MessageRecord /\ Carried(msg) = {}
        BY <1>2, MessagesOf
      <3>2. \A m \in MediaTypes : ~DropOf(msg, m)
        BY DEF DropOf, Message
      <3>3. m3 = <<msg>>
        BY <2>2
      <3> HIDE DEF msg, m3
      <3>4. Informed(q2 \o <<msg>>, C)
        BY <1>5, <3>1, <3>2, InformedAppend
      <3> QED BY <3>3, <3>4
    <2> QED BY <2>1, <2>2
  <1> QED BY <1>0, <1>6, <1>7, InformedSend

(* Every step keeps the syncer's cache in line with the manager. *)
LEMMA NextCacheInv == ASSUME IInv, SyncerInv, CacheInv, [Next]_vars PROVE CacheInv'
  <1>0. TypeOK
    BY DEF IInv
  <1>1. CASE UNCHANGED <<mediatypes, inbox, cache>>
    <2>1. KnownKept
      BY <1>1 DEF KnownKept, Known
    <2> QED BY <1>0, <1>1, <2>1, InformedKept
  <1>2. CASE KnownKept /\ UNCHANGED <<inbox, cache>>
    BY <1>0, <1>2, InformedKept
  <1>3. ASSUME Manager, ~ProcessSyncer PROVE CacheInv'
    <2>1. UNCHANGED <<inbox, cache>>
      BY <1>3 DEF Manager, QueueWatchdogAlerts, Register, Ripen, ProcessResult, Dispatch, ProcessExternal,
                  syncerVars
    <2>2. KnownKept \/ UNCHANGED mediatypes
      <3>1. CASE QueueWatchdogAlerts
        BY <3>1, QueueWatchdogAlertsIInv
      <3>2. CASE Register \/ \E a \in Alerts : Ripen(a)
        BY <3>2 DEF Register, Ripen, managerVars
      <3>3. ASSUME NEW a \in Alerts, ProcessResult(a) PROVE KnownKept
        BY <3>3, ProcessResultIInv
      <3>4. ASSUME NEW a \in Alerts, NEW prepared \in BOOLEAN, Dispatch(a, prepared) PROVE KnownKept
        BY <3>4, DispatchIInv
      <3>5. ASSUME NEW x \in External, ProcessExternal(x) PROVE KnownKept
        BY <3>5, ProcessExternalIInv
      <3> QED BY <1>3, <3>1, <3>2, <3>3, <3>4, <3>5 DEF Manager
    <2> QED BY <1>1, <1>2, <2>1, <2>2
  <1>4. CASE ProcessSyncer
    <2> DEFINE msg == Head(inbox)
    <2>1. inbox # <<>> /\ inbox' = Tail(inbox) /\ cache' = cache
      BY <1>4 DEF ProcessSyncer
    <2>2. \A m \in MediaTypes : UpdateOf(msg, m) \/ (Known(m) /\ ~DropOf(msg, m)) => Known(m)'
      <3>1. CASE ProcessMediatypes(msg)
        BY <1>4, <3>1, ProcessMediatypesIInv DEF KnownKept, UpdateOf
      <3>2. CASE ProcessDrop(msg)
        <4>1. msg.type = "DROP" /\ \A m \in MediaTypes \ msg.ids : Known(m) => Known(m)'
          BY <1>4, <3>2, ProcessDropIInv DEF ProcessDrop
        <4> QED BY <4>1 DEF UpdateOf, DropOf
      <3>3. CASE ProcessAlerts(msg)
        <4>1. msg.type = "ALERTS" /\ KnownKept
          BY <1>4, <3>3, ProcessAlertsIInv DEF ProcessAlerts
        <4> QED BY <4>1 DEF UpdateOf, KnownKept
      <3>4. CASE ProcessWatchdog(msg) \/ FlushResults(msg)
        <4>1. msg.type # "MEDIATYPES" /\ mediatypes' = mediatypes
          BY <3>4 DEF ProcessWatchdog, FlushResults
        <4> QED BY <4>1 DEF UpdateOf, Known
      <3> QED BY <1>4, <3>1, <3>2, <3>3, <3>4 DEF ProcessSyncer
    <2> QED BY <1>0, <2>1, <2>2, InformedReceive
  <1>5. ASSUME NEW ok \in BOOLEAN, QueueAlerts(ok) PROVE CacheInv'
    BY <1>0, <1>5, QueueAlertsCache
  <1>6. ASSUME NEW expired \in SUBSET MediaTypes, NEW watch \in BOOLEAN, Cleanup(expired, watch) PROVE CacheInv'
    BY <1>0, <1>6, CleanupCache
  <1>7. CASE Restart
    <2>1. inbox' = <<>> /\ cache' = NoMediatypes
      BY <1>7 DEF Restart
    <2>2. 1..Len(inbox') = {} /\ \A m \in MediaTypes : cache'[m] = NoSettings
      BY <2>1 DEF NoMediatypes
    <2> QED BY <2>2 DEF CacheInv, Informed
  <1>8. ASSUME \/ \E a \in Alerts, ok \in BOOLEAN : Deliver(a, ok)
               \/ \E a \in DbAlerts : AddAlert(a)
               \/ \E x \in External : RequestTest(x)
               \/ \E m \in MediaTypes : ChangeMediatype(m)
               \/ WriteResults \/ UNCHANGED vars
        PROVE  CacheInv'
    <2>1. UNCHANGED <<mediatypes, inbox, cache>>
      BY <1>8 DEF Deliver, AddAlert, RequestTest, ChangeMediatype, WriteResults, vars, managerVars, syncerVars
    <2> QED BY <1>1, <2>1
  <1> QED BY <1>3, <1>4, <1>5, <1>6, <1>7, <1>8 DEF Next, Syncer

------------------------------------------------------------------------------
(* No alert is lost *)

(* Someone has alert a, or its final result. *)
Held(a) ==
    a \in CarriedBy(inbox) \/ a \in Active \/ Final(results[a]) \/ Final(answer[a])
LostInv == \A a \in DbAlerts : db[a].status = "NOT_SENT" => Held(a) \/ status_limit = 2

(* That is what the property says. *)
LEMMA HeldInHand == ASSUME IInv, LostInv PROVE NoAlertLost
  <1> SUFFICES ASSUME NEW a \in DbAlerts, Held(a) PROVE InHand(a)
    BY DEF LostInv, NoAlertLost
  <1>1. CASE a \in CarriedBy(inbox)
    BY <1>1 DEF CarriedBy, Carried, InHand
  <1>2. CASE a \in Active
    <2>1. Queues.ap = alertpools
      BY DEF Queues
    <2> QED BY <1>2, <2>1 DEF Active, ActiveIn, Flying, InHand, Waiting
  <1>3. CASE Final(results[a]) \/ Final(answer[a])
    BY <1>3 DEF Final, InHand
  <1> QED BY <1>1, <1>2, <1>3 DEF Held

(* A step after which someone still has what somebody had. *)
LEMMA LostKept ==
  ASSUME LostInv, UNCHANGED <<db, status_limit>>, \A a \in DbAlerts : Held(a) => Held(a)' PROVE LostInv'
  BY DEF LostInv

(* The alerts stay where they are. *)
LEMMA ActiveSame ==
  ASSUME UNCHANGED <<alertpools, sending>> PROVE Active' = Active
  <1>1. Flying' = Flying /\ Queues'.ap = Queues.ap
    BY DEF Flying, Queues
  <1> QED BY <1>1 DEF Active, ActiveIn

(* An alert that leaves the manager has its result. *)
LEMMA ReportHeld ==
  ASSUME IInv, NEW a \in Alerts, NEW st \in {"NOT_SENT", "SENT", "FAILED"}, NEW n \in Nat, Report(a, st, n),
         a \in Active, Active' = IF st = "NOT_SENT" THEN Active ELSE Active \ {a},
         UNCHANGED <<inbox, answer>>
  PROVE  \A b \in DbAlerts : Held(b) => Held(b)'
  <1> SUFFICES ASSUME NEW b \in DbAlerts, Held(b) PROVE Held(b)'
    OBVIOUS
  <1>0. results \in [DbAlerts -> ResultRecord]
    BY DEF IInv, TypeOK
  <1>1. CASE b = a
    <2>1. CASE st = "NOT_SENT"
      BY <1>1, <2>1 DEF Held
    <2>2. CASE st # "NOT_SENT"
      <3>1. results'[b] = [status |-> st, retries |-> n]
        BY <1>0, <1>1 DEF Report
      <3>2. results'[b].status = st
        BY <3>1
      <3> QED BY <2>2, <3>2 DEF Held, Final
    <2> QED BY <2>1, <2>2
  <1>2. CASE b # a
    <2>1. results'[b] = results[b]
      BY <1>0, <1>2 DEF Report
    <2>2. b \in Active => b \in Active'
      BY <1>2
    <2> QED BY <2>1, <2>2 DEF Held, Final
  <1> QED BY <1>1, <1>2

(* Every step keeps the alerts. *)
LEMMA NextLostInv == ASSUME IInv, SyncerInv, CacheInv, LostInv, [Next]_vars PROVE LostInv'
  <1>0. TypeOK /\ inbox \in Seq(MessageRecord)
    BY DEF IInv, TypeOK
  <1>1. ASSUME NEW a \in Alerts, NEW prepared \in BOOLEAN, Dispatch(a, prepared) PROVE LostInv'
    <2>1. UNCHANGED <<inbox, answer, db, status_limit>>
      BY <1>1 DEF Dispatch, syncerVars
    <2>2. CASE Active' = Active /\ UNCHANGED results
      BY <2>1, <2>2, LostKept DEF Held, Final
    <2>3. CASE Active' = Active \ {a} /\ a \in Active /\ Report(a, "FAILED", 0)
      <3>1. \A b \in DbAlerts : Held(b) => Held(b)'
        BY <2>1, <2>3, ReportHeld
      <3> QED BY <2>1, <3>1, LostKept
    <2> QED BY <1>1, <2>2, <2>3, DispatchIInv
  <1>2. ASSUME NEW a \in Alerts, ProcessResult(a) PROVE LostInv'
    <2>1. UNCHANGED <<inbox, answer, db, status_limit>>
      BY <1>2 DEF ProcessResult, syncerVars
    <2>2. PICK status \in {"NOT_SENT", "SENT", "FAILED"}, n \in Nat :
             Report(a, status, n) /\ Active' = IF status = "NOT_SENT" THEN Active ELSE Active \ {a}
      BY <1>2, ProcessResultIInv
    <2>3. a \in Active
      BY <1>2, ProcessResultIInv
    <2>4. \A b \in DbAlerts : Held(b) => Held(b)'
      BY <2>1, <2>2, <2>3, ReportHeld
    <2> QED BY <2>1, <2>4, LostKept
  <1>3. ASSUME QueueWatchdogAlerts \/ \E x \in External : ProcessExternal(x) PROVE LostInv'
    <2>1. UNCHANGED <<inbox, answer, results, db, status_limit>>
      BY <1>3 DEF QueueWatchdogAlerts, ProcessExternal, syncerVars
    <2>2. Active \subseteq Active'
      BY <1>3, QueueWatchdogAlertsIInv, ProcessExternalIInv
    <2> QED BY <2>1, <2>2, LostKept DEF Held, Final
  <1>4. ASSUME \/ Register \/ \E a \in Alerts : Ripen(a)
               \/ \E x \in External : RequestTest(x)
               \/ \E m \in MediaTypes : ChangeMediatype(m)
               \/ \E expired \in SUBSET MediaTypes, watch \in BOOLEAN : Cleanup(expired, watch)
               \/ UNCHANGED vars
        PROVE  LostInv'
    <2>1. UNCHANGED <<alertpools, sending, answer, results, db, status_limit>>
      BY <1>4 DEF Register, Ripen, RequestTest, ChangeMediatype, Cleanup, vars, managerVars, alerterVars,
                  syncerVars
    <2>2. CarriedBy(inbox) \subseteq CarriedBy(inbox')
      <3>1. CASE inbox' = inbox
        BY <3>1
      <3>2. ASSUME NEW expired \in SUBSET MediaTypes, NEW watch \in BOOLEAN, Cleanup(expired, watch)
            PROVE  CarriedBy(inbox) \subseteq CarriedBy(inbox')
        BY <3>2, CleanupIInv
      <3>3. \/ inbox' = inbox
            \/ \E expired \in SUBSET MediaTypes, watch \in BOOLEAN : Cleanup(expired, watch)
        BY <1>4 DEF Register, Ripen, RequestTest, ChangeMediatype, vars
      <3> QED BY <3>1, <3>2, <3>3
    <2>3. Active' = Active
      BY <2>1, ActiveSame
    <2> QED BY <2>1, <2>2, <2>3, LostKept DEF Held, Final
  <1>5. ASSUME NEW a \in Alerts, NEW ok \in BOOLEAN, Deliver(a, ok) PROVE LostInv'
    <2>1. UNCHANGED <<inbox, answer, results, db, status_limit>>
      BY <1>5 DEF Deliver, managerVars, syncerVars
    <2>2. Active' = Active
      BY <1>5, DeliverIInv
    <2> QED BY <2>1, <2>2, LostKept DEF Held, Final
  <1>6. CASE ProcessSyncer
    <2> DEFINE msg == Head(inbox)
    <2>1. inbox # <<>> /\ inbox' = Tail(inbox) /\ UNCHANGED <<db, status_limit, sending>>
      BY <1>6 DEF ProcessSyncer, alerterVars
    <2>2. CarriedBy(inbox) = Carried(msg) \cup CarriedBy(inbox') /\ msg = inbox[1] /\ 1 \in 1..Len(inbox)
      BY <1>0, <2>1, CarriedByTail, HeadTailProperties, EmptySeq, LenProperties DEF IInv
    <2>3. CASE msg.type # "ALERTS" /\ Active' = Active /\ UNCHANGED <<results, answer>>
      BY <2>1, <2>2, <2>3, LostKept DEF Held, Carried, Final
    <2>4. CASE ProcessMediatypes(msg) \/ ProcessDrop(msg) \/ ProcessWatchdog(msg)
      <3>1. msg.type # "ALERTS" /\ UNCHANGED <<results, answer>>
        BY <2>4 DEF ProcessMediatypes, ProcessDrop, ProcessWatchdog
      <3>2. Active' = Active
        BY <1>6, <2>4, ProcessMediatypesIInv, ProcessDropIInv, ProcessWatchdogIInv
      <3> QED BY <2>3, <3>1, <3>2
    <2>5. CASE FlushResults(msg)
      <3>1. /\ msg.type = "RESULTS" /\ answer' = results /\ results' = NoResults /\ alertpools' = alertpools
        BY <2>5 DEF FlushResults
      <3>2. answer = NoResults
        BY <2>2, <3>1 DEF SyncerInv
      <3>3. \A a \in DbAlerts : ~Final(answer[a])
        BY <3>2 DEF Final, NoResults, NoResult
      <3>4. Active' = Active
        BY <2>1, <3>1, ActiveSame
      <3> QED BY <2>1, <2>2, <3>1, <3>3, <3>4, LostKept DEF Held, Carried, Final
    <2>6. CASE ProcessAlerts(msg)
      <3>1. /\ msg.type = "ALERTS" /\ UNCHANGED <<results, answer>>
            /\ Active' = Active \cup {a \in msg.ids : mediatypes[MediaType[a]].exists}
        BY <1>6, <2>6, ProcessAlertsIInv DEF ProcessAlerts
      <3>2. ASSUME NEW a \in Carried(msg) PROVE a \in Active'
        <4>1. KnownAfter(Known(MediaType[a]), inbox, 1 - 1, MediaType[a])
          BY <2>2 DEF CacheInv, Informed
        <4>2. Known(MediaType[a])
          BY <4>1 DEF KnownAfter
        <4> QED BY <3>1, <4>2 DEF Known, Carried
      <3>3. Active \subseteq Active'
        BY <3>1
      <3> QED BY <2>1, <2>2, <3>1, <3>2, <3>3, LostKept DEF Held, Final
    <2> QED BY <1>6, <2>4, <2>5, <2>6 DEF ProcessSyncer
  <1>7. ASSUME NEW ok \in BOOLEAN, QueueAlerts(ok) PROVE LostInv'
    <2> DEFINE A == {a \in DbAlerts : ok /\ \/ db[a].status = "NEW"
                                            \/ db[a].status = "NOT_SENT" /\ status_limit = 2}
    <2>1. /\ UNCHANGED <<alertpools, sending, results, answer>>
          /\ status_limit' = (IF ok THEN 1 ELSE status_limit)
          /\ db' = [a \in DbAlerts |-> IF a \in A THEN [db[a] EXCEPT !.status = "NOT_SENT"] ELSE db[a]]
      BY <1>7 DEF QueueAlerts, NextLimit, managerVars, alerterVars
    <2>2. CarriedBy(inbox') = CarriedBy(inbox) \cup A
      <3>1. A = Taken(ok)
        BY DEF Taken
      <3> HIDE DEF A
      <3> QED BY <1>7, <3>1, QueueAlertsIInv
    <2>3. Active' = Active
      BY <2>1, ActiveSame
    <2>4. ASSUME NEW a \in DbAlerts, db'[a].status = "NOT_SENT" PROVE Held(a)' \/ status_limit' = 2
      <3>1. CASE a \in A
        BY <2>2, <3>1 DEF Held
      <3>2. CASE a \notin A
        <4>1. db[a].status = "NOT_SENT"
          BY <2>1, <2>4, <3>2
        <4>2. Held(a) \/ status_limit = 2
          BY <4>1 DEF LostInv
        <4>3. CASE Held(a)
          BY <2>1, <2>2, <2>3, <4>3 DEF Held, Final
        <4>4. CASE status_limit = 2
          BY <2>1, <3>2, <4>1, <4>4
        <4> QED BY <4>2, <4>3, <4>4
      <3> QED BY <3>1, <3>2
    <2> QED BY <2>4 DEF LostInv
  <1>8. CASE WriteResults
    <2>1. /\ UNCHANGED <<alertpools, sending, results, inbox, status_limit>> /\ answer' = NoResults
          /\ db' = [a \in DbAlerts |-> IF answer[a] = NoResult THEN db[a] ELSE answer[a]]
      BY <1>8 DEF WriteResults, managerVars, alerterVars
    <2>2. Active' = Active
      BY <2>1, ActiveSame
    <2>3. ASSUME NEW a \in DbAlerts, db'[a].status = "NOT_SENT" PROVE Held(a)' \/ status_limit' = 2
      <3>1. ~Final(answer[a])
        BY <2>1, <2>3 DEF Final, NoResult
      <3>2. db[a].status = "NOT_SENT"
        BY <2>1, <2>3 DEF IInv, LifeInv
      <3> QED BY <2>1, <2>2, <3>1, <3>2 DEF LostInv, Held, Final
    <2> QED BY <2>3 DEF LostInv
  <1>9. ASSUME NEW a \in DbAlerts, AddAlert(a) PROVE LostInv'
    <2>1. /\ UNCHANGED <<alertpools, sending, results, answer, inbox, status_limit>>
          /\ db' = [db EXCEPT ![a].status = "NEW"] /\ db \in [DbAlerts -> AlertRecord]
      BY <1>0, <1>9 DEF AddAlert, managerVars, alerterVars, syncerVars, TypeOK
    <2>2. Active' = Active
      BY <2>1, ActiveSame
    <2>3. ASSUME NEW b \in DbAlerts, db'[b].status = "NOT_SENT" PROVE b # a
      BY <2>1, <2>3 DEF AlertRecord
    <2>4. ASSUME NEW b \in DbAlerts, db'[b].status = "NOT_SENT" PROVE db[b].status = "NOT_SENT"
      <3>1. db'[b] = db[b]
        BY <2>1, <2>3, <2>4
      <3> QED BY <2>4, <3>1
    <2> QED BY <2>1, <2>2, <2>4 DEF LostInv, Held, Final
  <1>10. CASE Restart
    BY <1>10 DEF Restart, LostInv
  <1> QED BY <1>1, <1>2, <1>3, <1>4, <1>5, <1>6, <1>7, <1>8, <1>9, <1>10 DEF Next, Manager, Syncer

------------------------------------------------------------------------------
(* No alert is sent twice by one run of the server *)

(* An alert that was sent since the last restart is known to be, and an    *)
(* alert that is known to be sent was.                                     *)
KnownSent(a) ==
    \/ sending[a] = "sent" \/ results[a].status = "SENT" \/ answer[a].status = "SENT"
    \/ db[a].status = "SENT"
SentInv ==
    \A a \in DbAlerts : /\ delivered[a] <= 1 + restarts
                        /\ delivered[a] = 1 + restarts => KnownSent(a)
                        /\ KnownSent(a) => delivered[a] > 0

(* A step in which nothing is sent and nobody learns or forgets that       *)
(* something was.                                                          *)
LEMMA SentKept ==
  ASSUME SentInv, UNCHANGED <<delivered, restarts>>, \A a \in DbAlerts : KnownSent(a)' <=> KnownSent(a)
  PROVE  SentInv'
  BY DEF SentInv

(* An alert the manager has is not known to be sent, unless by its alerter. *)
LEMMA ActiveUnsent ==
  ASSUME IInv, NEW a \in DbAlerts, a \in Active
  PROVE  KnownSent(a) <=> sending[a] = "sent"
  BY DEF IInv, LifeInv, Final, KnownSent

(* Every step keeps that. *)
LEMMA NextSentInv == ASSUME IInv, SyncerInv, SentInv, [Next]_vars PROVE SentInv'
  <1>0. /\ TypeOK /\ results \in [DbAlerts -> ResultRecord] /\ DbAlerts \subseteq Alerts
        /\ sending \in [Alerts -> {"no", "sending", "sent", "failed"}]
    BY DEF IInv, TypeOK, Alerts
  <1>1. ASSUME NEW a \in Alerts, NEW prepared \in BOOLEAN, Dispatch(a, prepared) PROVE SentInv'
    <2>1. UNCHANGED <<answer, db, delivered, restarts>>
      BY <1>1 DEF Dispatch
    <2>2. CASE /\ UNCHANGED results /\ sending' = [sending EXCEPT ![a] = "sending"]
               /\ a \in Active /\ a \notin Flying
      <3>1. ASSUME NEW b \in DbAlerts PROVE sending'[b] = "sent" <=> sending[b] = "sent"
        <4>1. sending[a] = "no"
          BY <2>2 DEF Flying
        <4> QED BY <1>0, <2>2, <4>1
      <3> QED BY <2>1, <2>2, <3>1, SentKept DEF KnownSent
    <2>3. CASE a \in Active /\ Report(a, "FAILED", 0) /\ UNCHANGED sending
      <3>1. ASSUME NEW b \in DbAlerts PROVE results'[b].status = "SENT" <=> results[b].status = "SENT"
        <4>1. CASE b = a
          <5>1. results[b].status # "SENT"
            BY <2>3, <4>1 DEF IInv, LifeInv, Final
          <5>2. results'[b].status = "FAILED"
            BY <1>0, <2>3, <4>1 DEF Report
          <5> QED BY <5>1, <5>2
        <4>2. CASE b # a
          BY <1>0, <2>3, <4>2 DEF Report
        <4> QED BY <4>1, <4>2
      <3> QED BY <2>1, <2>3, <3>1, SentKept DEF KnownSent
    <2> QED BY <1>1, <2>2, <2>3, DispatchIInv
  <1>2. ASSUME NEW a \in Alerts, ProcessResult(a) PROVE SentInv'
    <2>1. UNCHANGED <<answer, db, delivered, restarts>> /\ sending' = [sending EXCEPT ![a] = "no"]
      BY <1>2 DEF ProcessResult
    <2>2. PICK status \in {"NOT_SENT", "SENT", "FAILED"}, n \in Nat :
             Report(a, status, n) /\ (status = "SENT" <=> sending[a] = "sent")
      BY <1>2, ProcessResultIInv
    <2>3. a \in Active
      BY <1>2, ProcessResultIInv
    <2>4. ASSUME NEW b \in DbAlerts PROVE KnownSent(b)' <=> KnownSent(b)
      <3>1. CASE b # a
        <4>1. results'[b] = results[b] /\ sending'[b] = sending[b]
          BY <1>0, <2>1, <2>2, <3>1 DEF Report
        <4> QED BY <2>1, <4>1 DEF KnownSent
      <3>2. CASE b = a
        <4>1. KnownSent(b) <=> sending[b] = "sent"
          BY <2>3, <3>2, ActiveUnsent
        <4>2. results'[b] = [status |-> status, retries |-> n] /\ sending'[b] = "no"
          BY <1>0, <2>1, <2>2, <3>2 DEF Report
        <4>3. results'[b].status = status
          BY <4>2
        <4>4. answer[b].status # "SENT" /\ db[b].status # "SENT"
          BY <2>3, <3>2 DEF IInv, LifeInv, Final
        <4> QED BY <2>1, <2>2, <3>2, <4>1, <4>2, <4>3, <4>4 DEF KnownSent
      <3> QED BY <3>1, <3>2
    <2> QED BY <2>1, <2>4, SentKept
  <1>3. ASSUME NEW a \in Alerts, NEW ok \in BOOLEAN, Deliver(a, ok) PROVE SentInv'
    <2>1. /\ sending[a] = "sending" /\ UNCHANGED <<answer, results, db, restarts>>
          /\ sending' = [sending EXCEPT ![a] = IF ok THEN "sent" ELSE "failed"]
          /\ delivered' = IF ok /\ a \in DbAlerts THEN [delivered EXCEPT ![a] = @ + 1] ELSE delivered
      BY <1>3 DEF Deliver, managerVars
    <2>2. a \in Active /\ delivered \in [DbAlerts -> Nat] /\ restarts \in Nat
      BY <1>0, <1>3, DeliverIInv, AlertAssumption DEF TypeOK
    <2>3. CASE ok /\ a \in DbAlerts
      <3>1. ~KnownSent(a) /\ delivered[a] <= restarts
        <4>1. ~KnownSent(a)
          BY <2>1, <2>2, <2>3, ActiveUnsent
        <4>2. delivered[a] <= 1 + restarts /\ delivered[a] # 1 + restarts
          BY <2>3, <4>1 DEF SentInv
        <4> QED BY <2>2, <2>3, <4>1, <4>2
      <3>2. sending'[a] = "sent" /\ delivered'[a] = delivered[a] + 1
        BY <1>0, <2>1, <2>2, <2>3
      <3>3. ASSUME NEW b \in DbAlerts
            PROVE  /\ delivered'[b] <= 1 + restarts
                   /\ delivered'[b] = 1 + restarts => KnownSent(b)'
                   /\ KnownSent(b)' => delivered'[b] > 0
        <4>1. CASE b = a
          <5>1. KnownSent(b)'
            BY <3>2, <4>1 DEF KnownSent
          <5> QED BY <2>2, <2>3, <3>1, <3>2, <4>1, <5>1
        <4>2. CASE b # a
          <5>1. delivered'[b] = delivered[b] /\ sending'[b] = sending[b]
            BY <1>0, <2>1, <2>2, <4>2
          <5>2. KnownSent(b)' <=> KnownSent(b)
            BY <2>1, <5>1 DEF KnownSent
          <5> QED BY <5>1, <5>2 DEF SentInv
        <4> QED BY <4>1, <4>2
      <3> QED BY <2>1, <3>3 DEF SentInv
    <2>4. CASE ~(ok /\ a \in DbAlerts)
      <3>1. delivered' = delivered
        BY <2>1, <2>4
      <3>2. ASSUME NEW b \in DbAlerts PROVE sending'[b] = "sent" <=> sending[b] = "sent"
        BY <1>0, <2>1, <2>4
      <3> QED BY <2>1, <3>1, <3>2, SentKept DEF KnownSent
    <2> QED BY <2>3, <2>4
  <1>4. CASE ProcessSyncer
    <2>1. inbox # <<>> /\ UNCHANGED <<sending, db, delivered, restarts>>
      BY <1>4 DEF ProcessSyncer, alerterVars
    <2>2. CASE UNCHANGED <<results, answer>>
      BY <2>1, <2>2, SentKept DEF KnownSent
    <2>3. CASE FlushResults(Head(inbox))
      <3>1. Head(inbox).type = "RESULTS" /\ answer' = results /\ results' = NoResults
        BY <2>3 DEF FlushResults
      <3>2. Head(inbox) = inbox[1] /\ 1 \in 1..Len(inbox)
        BY <1>0, <2>1, HeadTailProperties, EmptySeq, LenProperties DEF TypeOK
      <3>3. answer = NoResults
        BY <3>1, <3>2 DEF SyncerInv
      <3>4. \A a \in DbAlerts : NoResults[a].status # "SENT"
        BY DEF NoResults, NoResult
      <3> QED BY <2>1, <3>1, <3>3, <3>4, SentKept DEF KnownSent
    <2> QED BY <1>4, <2>2, <2>3
            DEF ProcessSyncer, ProcessMediatypes, ProcessAlerts, ProcessWatchdog, ProcessDrop
  <1>5. ASSUME NEW ok \in BOOLEAN, QueueAlerts(ok) PROVE SentInv'
    <2>1. /\ UNCHANGED <<sending, results, answer, delivered, restarts>>
          /\ db' = [a \in DbAlerts |-> IF a \in Taken(ok) THEN [db[a] EXCEPT !.status = "NOT_SENT"] ELSE db[a]]
      BY <1>5 DEF QueueAlerts, Taken, managerVars, alerterVars
    <2>2. ASSUME NEW a \in DbAlerts PROVE db'[a].status = "SENT" <=> db[a].status = "SENT"
      <3>1. CASE a \in Taken(ok)
        <4>1. db[a].status # "SENT" /\ db[a] \in AlertRecord
          BY <1>0, <3>1 DEF Taken, TypeOK
        <4>2. db'[a] = [db[a] EXCEPT !.status = "NOT_SENT"]
          BY <2>1, <3>1
        <4>3. db'[a].status = "NOT_SENT"
          BY <4>1, <4>2 DEF AlertRecord
        <4> QED BY <4>1, <4>3
      <3>2. CASE a \notin Taken(ok)
        BY <2>1, <3>2
      <3> QED BY <3>1, <3>2
    <2> QED BY <2>1, <2>2, SentKept DEF KnownSent
  <1>6. CASE WriteResults
    <2>1. /\ UNCHANGED <<sending, results, delivered, restarts>> /\ answer' = NoResults
          /\ db' = [a \in DbAlerts |-> IF answer[a] = NoResult THEN db[a] ELSE answer[a]]
      BY <1>6 DEF WriteResults, managerVars, alerterVars
    <2>2. ASSUME NEW a \in DbAlerts
          PROVE  db'[a].status = "SENT" \/ answer'[a].status = "SENT" <=>
                 db[a].status = "SENT" \/ answer[a].status = "SENT"
      <3>1. answer'[a].status # "SENT"
        BY <2>1 DEF NoResults, NoResult
      <3>2. CASE answer[a] = NoResult
        BY <2>1, <3>1, <3>2 DEF NoResult
      <3>3. CASE answer[a] # NoResult
        BY <2>1, <3>1, <3>3 DEF IInv, LifeInv
      <3> QED BY <3>2, <3>3
    <2>3. ASSUME NEW a \in DbAlerts PROVE KnownSent(a)' <=> KnownSent(a)
      BY <2>1, <2>2 DEF KnownSent
    <2> QED BY <2>1, <2>3, SentKept
  <1>7. ASSUME NEW a \in DbAlerts, AddAlert(a) PROVE SentInv'
    <2>1. /\ UNCHANGED <<sending, results, answer, delivered, restarts>> /\ db[a].status = "none"
          /\ db' = [db EXCEPT ![a].status = "NEW"] /\ db \in [DbAlerts -> AlertRecord]
      BY <1>0, <1>7 DEF AddAlert, managerVars, alerterVars, TypeOK
    <2>2. ASSUME NEW b \in DbAlerts PROVE db'[b].status = "SENT" <=> db[b].status = "SENT"
      <3>1. CASE b = a
        <4>1. db'[b] = [db[b] EXCEPT !.status = "NEW"] /\ db[b] \in AlertRecord
          BY <2>1, <3>1
        <4>2. db'[b].status = "NEW"
          BY <4>1 DEF AlertRecord
        <4> QED BY <2>1, <3>1, <4>2
      <3>2. CASE b # a
        BY <2>1, <3>2
      <3> QED BY <3>1, <3>2
    <2> QED BY <2>1, <2>2, SentKept DEF KnownSent
  <1>8. CASE Restart
    <2>1. /\ restarts' = restarts + 1 /\ delivered' = delivered /\ db' = db
          /\ results' = NoResults /\ answer' = NoResults /\ sending' = [a \in Alerts |-> "no"]
      BY <1>8 DEF Restart
    <2>2. delivered \in [DbAlerts -> Nat] /\ restarts \in Nat
      BY <1>0, AlertAssumption DEF TypeOK
    <2>3. ASSUME NEW a \in DbAlerts PROVE KnownSent(a)' => KnownSent(a)
      <3>1. sending'[a] # "sent" /\ results'[a].status # "SENT" /\ answer'[a].status # "SENT"
        BY <1>0, <2>1 DEF NoResults, NoResult
      <3> QED BY <2>1, <3>1 DEF KnownSent
    <2>4. ASSUME NEW a \in DbAlerts PROVE delivered'[a] < 1 + restarts'
      BY <2>1, <2>2 DEF SentInv
    <2>5. ASSUME NEW a \in DbAlerts
          PROVE  /\ delivered'[a] <= 1 + restarts' /\ delivered'[a] # 1 + restarts'
                 /\ KnownSent(a)' => delivered'[a] > 0
      BY <2>1, <2>2, <2>3, <2>4 DEF SentInv
    <2> QED BY <2>5 DEF SentInv
  <1>9. ASSUME \/ QueueWatchdogAlerts \/ Register \/ \E a \in Alerts : Ripen(a)
               \/ \E x \in External : ProcessExternal(x) \/ RequestTest(x)
               \/ \E m \in MediaTypes : ChangeMediatype(m)
               \/ \E expired \in SUBSET MediaTypes, watch \in BOOLEAN : Cleanup(expired, watch)
               \/ UNCHANGED vars
        PROVE  SentInv'
    <2>1. UNCHANGED <<sending, results, answer, db, delivered, restarts>>
      BY <1>9 DEF QueueWatchdogAlerts, Register, Ripen, ProcessExternal, RequestTest, ChangeMediatype, Cleanup,
                  vars, managerVars, alerterVars
    <2> QED BY <2>1, SentKept DEF KnownSent
  <1> QED BY <1>1, <1>2, <1>3, <1>4, <1>5, <1>6, <1>7, <1>8, <1>9 DEF Next, Manager, Syncer

------------------------------------------------------------------------------
(* Theorems about the way of an alert *)

(* The invariant of the way of an alert. *)
THEOREM AlertDelivery == Spec => [](IInv /\ SyncerInv /\ CacheInv /\ LostInv /\ SentInv)
  <1>1. Init => CacheInv /\ LostInv /\ SentInv
    <2> SUFFICES ASSUME Init PROVE CacheInv /\ LostInv /\ SentInv
      OBVIOUS
    <2>1. 1..Len(inbox) = {} /\ \A m \in MediaTypes : cache[m] = NoSettings
      BY DEF Init, NoMediatypes
    <2>2. CacheInv
      BY <2>1 DEF CacheInv, Informed
    <2>3. LostInv
      BY DEF Init, LostInv
    <2>4. ASSUME NEW a \in DbAlerts PROVE ~KnownSent(a) /\ delivered[a] = 0 /\ restarts = 0
      <3>1. a \in Alerts
        BY DEF Alerts
      <3> QED BY <3>1 DEF Init, KnownSent, NoResults, NoResult
    <2> QED BY <2>2, <2>3, <2>4 DEF SentInv
  <1>2. IInv /\ SyncerInv /\ CacheInv /\ LostInv /\ SentInv /\ [Next]_vars => (CacheInv /\ LostInv /\ SentInv)'
    BY NextCacheInv, NextLostInv, NextSentInv
  <1> QED BY <1>1, <1>2, AlertInvariant, PTL DEF Spec

(* An alert taken from the database is never dropped on its way: messages  *)
(* about media types come in time, results are not overwritten, and what a *)
(* restart loses is read again.                                            *)
THEOREM AlertNoneLost == Spec => []NoAlertLost
  <1>1. IInv /\ LostInv => NoAlertLost
    BY HeldInHand
  <1> QED BY <1>1, AlertDelivery, PTL

(* Between restarts an alert is delivered at most once, and the database   *)
(* never says so of one that was not.                                      *)
THEOREM AlertSentOnce == Spec => []SentOnce
  <1>1. SentInv => SentOnce
    BY DEF SentInv, SentOnce, KnownSent
  <1> QED BY <1>1, AlertDelivery, PTL

==============================================================================
