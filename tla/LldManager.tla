------------------------------ MODULE LldManager ------------------------------
(***************************************************************************)
(* The low level discovery (LLD) manager process and its workers           *)
(* (zabbix_server/lld/lld_manager.c, lld_worker.c).  The manager receives  *)
(* one IPC message at a time and handles it to the end; the while loop of  *)
(* lld_process_queue is unrolled into one step per iteration, during which *)
(* the manager receives nothing (mpc = "process_queue") but the workers    *)
(* may run.  Every worker owns one connection, a FIFO in each direction.   *)
(***************************************************************************)
EXTENDS Integers, Sequences, FiniteSets

CONSTANTS
    Workers,        \* the LLD worker processes, CONFIG_LLDWORKER_FORKS of them
    Foreign,        \* clients that are not children of the server's main process
    Hosts,          \* host ids
    Items,          \* discovery rule (item) ids
    HostOf,         \* HostOf[i]: the host of discovery rule i
    Values,         \* the (value, error) pairs a rule can report
    Timestamps,     \* value timestamps
    MaxRequests,    \* bound: the number of requests received
    None            \* NULL

ASSUME LldAssumption ==
    /\ IsFiniteSet(Workers) /\ Workers # {}
    /\ Workers \cap Foreign = {}
    /\ HostOf \in [Items -> Hosts]
    /\ Timestamps \subseteq Nat
    /\ MaxRequests \in Nat
    /\ None \notin Hosts \cup Values

Clients == Workers \cup Foreign

(* A queued value.  A value without text and without error is only sent to *)
(* update the log file metadata, hence only with meta set.                 *)
Data == [itemid : Items, value : Values, meta : {0, 1}, ts : Timestamps]
            \cup [itemid : Items, value : {None}, meta : {1}, ts : Timestamps]

States == {"NORMAL", "NOTSUPPORTED"}

VARIABLES
    mpc,                \* "recv": waiting for a message; "process_queue"; "exit"
    next_worker_index,  \* workers that have been given a slot
    workers_client,     \* the registered clients
    free_workers,       \* FIFO of idle workers
    worker_rule,        \* worker_rule[w]: the host whose rule w processes
    rule_index,         \* the hosts that have a rule record
    values,             \* values[h]: the list head..tail of the rule of h
    values_num,         \* values_num[h]: its counter
    rule_queue,         \* heap content: how many elements refer to host h
    queued_num,         \* the number reported by ZBX_IPC_LLD_QUEUE
    outbox,             \* outbox[c]: messages from client c to the manager
    inbox,              \* inbox[w]: tasks sent to worker w
    wpc,                \* wpc[w]: "start", "idle" or "task"
    task,               \* task[w]: the value worker w processes
    seen,               \* seen[w]: the item state w read before processing
    item_state,         \* item state in the configuration cache and database
    requests,           \* requests received so far (bounded)
    lastReceived,       \* history: the last value received for an item
    lastProcessed       \* history: the last value a worker processed of an item

mvars == <<mpc, next_worker_index, workers_client, free_workers, worker_rule,
           rule_index, values, values_num, rule_queue, queued_num>>
wvars == <<wpc, task, seen, item_state>>
hvars == <<requests, lastReceived, lastProcessed>>
vars == <<mvars, outbox, inbox, wvars, hvars>>

Init ==
    /\ mpc = "recv"
    /\ next_worker_index = 0
    /\ workers_client = {}
    /\ free_workers = <<>>
    /\ worker_rule = [w \in Workers |-> None]
    /\ rule_index = {}
    /\ values = [h \in Hosts |-> <<>>]
    /\ values_num = [h \in Hosts |-> 0]
    /\ rule_queue = [h \in Hosts |-> 0]
    /\ queued_num = 0
    /\ outbox = [c \in Clients |-> <<>>]
    /\ inbox = [w \in Workers |-> <<>>]
    /\ wpc = [c \in Clients |-> "start"]
    /\ task = [w \in Workers |-> None]
    /\ seen = [w \in Workers |-> "NORMAL"]
    /\ item_state = [i \in Items |-> "NORMAL"]
    /\ requests = 0
    /\ lastReceived = [i \in Items |-> None]
    /\ lastProcessed = [i \in Items |-> None]

-------------------------------------------------------------------------------
(* The rules in heap q whose head value (in lists v) is the oldest. *)
OldestRules(q, v) ==
    {h \in Hosts : /\ q[h] > 0
                   /\ \A g \in Hosts : q[g] > 0 => Head(v[h]).ts <= Head(v[g]).ts}

(* A rule is inserted into the heap. *)
lld_queue_rule(q, h) == [q EXCEPT ![h] = @ + 1]

(* A worker's or a stranger's REGISTER message reaches the manager. *)
lld_register_worker(c) ==
    /\ mpc = "recv"
    /\ outbox[c] # <<>> /\ Head(outbox[c]) = "REGISTER"
    /\ outbox' = [outbox EXCEPT ![c] = Tail(@)]
    /\ IF c \in Foreign
       THEN UNCHANGED mvars
       ELSE IF next_worker_index = Cardinality(Workers)
       THEN /\ mpc' = "exit"
            /\ UNCHANGED <<next_worker_index, workers_client, free_workers, worker_rule,
                           rule_index, values, values_num, rule_queue, queued_num>>
       ELSE /\ next_worker_index' = next_worker_index + 1
            /\ workers_client' = workers_client \cup {c}
            /\ free_workers' = Append(free_workers, c)
            /\ UNCHANGED <<mpc, worker_rule, rule_index, values, values_num,
                           rule_queue, queued_num>>
    /\ UNCHANGED <<inbox, wvars, hvars>>

(* Mutant: any queued value of the item is compared, not only the last. *)
RepeatsAny(h, d) ==
    \E k \in 1..Len(values[h]) :
        values[h][k].itemid = d.itemid /\ values[h][k].value = d.value

(* The repetition test: the last queued value of the same item is equal.   *)
Repeats(h, d) ==
    \E k \in 1..Len(values[h]) :
        /\ values[h][k].itemid = d.itemid
        /\ values[h][k].value = d.value
        /\ \A j \in k+1..Len(values[h]) : values[h][j].itemid # d.itemid

(* Mutant: the list is a stack. *)
PushData(list, d) == <<d>> \o list

(* A value becomes the tail of the list of its rule. *)
AppendData(list, d) == Append(list, d)

(* A value is queued, or skipped as a repetition; lld_process_queue        *)
(* follows in either case.                                                 *)
lld_queue_request(d) ==
    LET h == HostOf[d.itemid] IN
    /\ mpc = "recv"
    /\ requests < MaxRequests
    /\ requests' = requests + 1
    /\ lastReceived' = [lastReceived EXCEPT ![d.itemid] = d.value]
    /\ mpc' = "process_queue"
    /\ \/ /\ h \in rule_index /\ d.meta = 0 /\ Repeats(h, d)
          /\ UNCHANGED <<rule_index, values, values_num, rule_queue, queued_num>>
       \/ /\ ~(h \in rule_index /\ d.meta = 0 /\ Repeats(h, d))
          /\ IF h \notin rule_index
             THEN /\ values' = [values EXCEPT ![h] = <<d>>]
                  /\ values_num' = [values_num EXCEPT ![h] = 1]
                  /\ rule_index' = rule_index \cup {h}
                  /\ rule_queue' = lld_queue_rule(rule_queue, h)
             ELSE /\ values' = [values EXCEPT ![h] = AppendData(@, d)]
                  /\ values_num' = [values_num EXCEPT ![h] = @ + 1]
                  /\ UNCHANGED <<rule_index, rule_queue>>
          /\ queued_num' = queued_num + 1
    /\ UNCHANGED <<next_worker_index, workers_client, free_workers, worker_rule,
                   outbox, inbox, wvars, lastProcessed>>

(* Mutants: the element is not removed from the heap; the newest value of  *)
(* the rule is sent instead of the oldest.                                 *)
NextRequestNotRemoved(w, q, v) ==
    \E h \in OldestRules(q, v) :
        /\ worker_rule' = [worker_rule EXCEPT ![w] = h]
        /\ rule_queue' = q
        /\ inbox' = [inbox EXCEPT ![w] = Append(@, Head(v[h]))]

NextRequestNewest(w, q, v) ==
    \E h \in OldestRules(q, v) :
        /\ worker_rule' = [worker_rule EXCEPT ![w] = h]
        /\ rule_queue' = [q EXCEPT ![h] = @ - 1]
        /\ inbox' = [inbox EXCEPT ![w] = Append(@, v[h][Len(v[h])])]

(* The oldest rule of heap q is taken from it and its head sent to w. *)
lld_process_next_request(w, q, v) ==
    \E h \in OldestRules(q, v) :
        /\ worker_rule' = [worker_rule EXCEPT ![w] = h]
        /\ rule_queue' = [q EXCEPT ![h] = @ - 1]
        /\ inbox' = [inbox EXCEPT ![w] = Append(@, Head(v[h]))]

Empty(q) == \A h \in Hosts : q[h] = 0

(* One iteration of the loop, or its end. *)
lld_process_queue ==
    /\ mpc = "process_queue"
    /\ \/ /\ Empty(rule_queue) \/ free_workers = <<>>
          /\ mpc' = "recv"
          /\ UNCHANGED <<free_workers, worker_rule, rule_queue, inbox>>
       \/ /\ ~Empty(rule_queue) /\ free_workers # <<>>
          /\ lld_process_next_request(Head(free_workers), rule_queue, values)
          /\ free_workers' = Tail(free_workers)
          /\ UNCHANGED mpc
    /\ UNCHANGED <<next_worker_index, workers_client, rule_index, values, values_num,
                   queued_num, outbox, wvars, hvars>>

(* A worker's DONE message: its value is dropped, its rule requeued or     *)
(* removed, and the worker gets the next rule or becomes free.             *)
lld_process_result(w) ==
    /\ mpc = "recv"
    /\ outbox[w] # <<>> /\ Head(outbox[w]) = "DONE"
    /\ outbox' = [outbox EXCEPT ![w] = Tail(@)]
    /\ IF w \notin workers_client
       THEN /\ mpc' = "exit"
            /\ UNCHANGED <<free_workers, worker_rule, rule_index, values, values_num,
                           rule_queue, inbox>>
       ELSE LET h == worker_rule[w]
                v == [values EXCEPT ![h] = Tail(@)]
                q == IF v[h] = <<>> THEN rule_queue
                                    ELSE lld_queue_rule(rule_queue, h)
            IN  /\ values' = v
                /\ rule_index' = IF v[h] = <<>> THEN rule_index \ {h} ELSE rule_index
                /\ values_num' = [values_num EXCEPT ![h] = IF v[h] = <<>> THEN 0 ELSE @ - 1]
                /\ UNCHANGED mpc
                /\ IF Empty(q)
                   THEN /\ worker_rule' = [worker_rule EXCEPT ![w] = None]
                        /\ free_workers' = Append(free_workers, w)
                        /\ rule_queue' = q
                        /\ UNCHANGED inbox
                   ELSE /\ lld_process_next_request(w, q, v)
                        /\ UNCHANGED free_workers
    /\ UNCHANGED <<next_worker_index, workers_client, wvars, hvars>>

(* The main loop's case of a DONE message. *)
LLD_DONE(w) ==
    /\ lld_process_result(w)
    /\ queued_num' = queued_num - 1

-------------------------------------------------------------------------------
(* The worker process connects and registers; so may a stranger. *)
worker_register(c) ==
    /\ wpc[c] = "start"
    /\ wpc' = [wpc EXCEPT ![c] = "idle"]
    /\ outbox' = [outbox EXCEPT ![c] = Append(@, "REGISTER")]
    /\ UNCHANGED <<mvars, inbox, task, seen, item_state, hvars>>

(* Mutant: the state is the one remembered from the worker's last task. *)
ReadTaskCachedState(w) ==
    /\ wpc[w] = "idle" /\ inbox[w] # <<>>
    /\ inbox' = [inbox EXCEPT ![w] = Tail(@)]
    /\ task' = [task EXCEPT ![w] = Head(inbox[w])]
    /\ wpc' = [wpc EXCEPT ![w] = "task"]
    /\ UNCHANGED <<mvars, outbox, seen, item_state, hvars>>

(* lld_process_task, first part: the task is read, and the item with its   *)
(* state is fetched from the configuration cache.                          *)
worker_read_task(w) ==
    /\ wpc[w] = "idle" /\ inbox[w] # <<>>
    /\ inbox' = [inbox EXCEPT ![w] = Tail(@)]
    /\ task' = [task EXCEPT ![w] = Head(inbox[w])]
    /\ seen' = [seen EXCEPT ![w] = item_state[Head(inbox[w]).itemid]]
    /\ wpc' = [wpc EXCEPT ![w] = "task"]
    /\ UNCHANGED <<mvars, outbox, item_state, hvars>>

(* Mutant: no DONE is sent for a deleted item. *)
ProcessTaskSilent(w, state, found) ==
    /\ wpc[w] = "task"
    /\ item_state' = IF found /\ task[w].value # None /\ state # seen[w]
                     THEN [item_state EXCEPT ![task[w].itemid] = state]
                     ELSE item_state
    /\ lastProcessed' = [lastProcessed EXCEPT ![task[w].itemid] = task[w].value]
    /\ outbox' = IF found THEN [outbox EXCEPT ![w] = Append(@, "DONE")] ELSE outbox
    /\ wpc' = [wpc EXCEPT ![w] = "idle"]
    /\ task' = [task EXCEPT ![w] = None]
    /\ UNCHANGED <<mvars, inbox, seen, requests, lastReceived>>

(* lld_process_task, second part: the rule is processed with some outcome, *)
(* a changed state is stored (with an internal event), DONE is sent.  The  *)
(* item may have been deleted, then nothing is done (found is FALSE).      *)
lld_process_task(w, state, found) ==
    /\ wpc[w] = "task"
    /\ item_state' = IF found /\ task[w].value # None /\ state # seen[w]
                     THEN [item_state EXCEPT ![task[w].itemid] = state]
                     ELSE item_state
    /\ lastProcessed' = [lastProcessed EXCEPT ![task[w].itemid] = task[w].value]
    /\ outbox' = [outbox EXCEPT ![w] = Append(@, "DONE")]
    /\ wpc' = [wpc EXCEPT ![w] = "idle"]
    /\ task' = [task EXCEPT ![w] = None]
    /\ UNCHANGED <<mvars, inbox, seen, requests, lastReceived>>

-------------------------------------------------------------------------------
Manager ==
    \/ \E c \in Clients : lld_register_worker(c)
    \/ lld_process_queue
    \/ \E w \in Workers : LLD_DONE(w)

Worker(w) ==
    \/ worker_register(w)
    \/ worker_read_task(w)
    \/ \E state \in States, found \in BOOLEAN : lld_process_task(w, state, found)

Next ==
    \/ Manager
    \/ \E d \in Data : lld_queue_request(d)
    \/ \E w \in Workers : Worker(w)
    \/ \E c \in Foreign : worker_register(c)

Spec == Init /\ [][Next]_vars

(* The manager and the workers are processes that loop forever, and a      *)
(* discovery rule is processed in finite time; nobody has to send values.  *)
Fairness == WF_vars(Manager) /\ \A w \in Workers : WF_vars(Worker(w))

FairSpec == Spec /\ Fairness

-------------------------------------------------------------------------------
(* Type correctness of the manager, the connections and the workers. *)
TypeOK ==
    /\ mpc \in {"recv", "process_queue", "exit"}
    /\ next_worker_index \in 0..Cardinality(Workers)
    /\ workers_client \in SUBSET Workers
    /\ free_workers \in Seq(Workers)
    /\ worker_rule \in [Workers -> Hosts \cup {None}]
    /\ rule_index \in SUBSET Hosts
    /\ values \in [Hosts -> Seq(Data)]
    /\ values_num \in [Hosts -> Nat]
    /\ rule_queue \in [Hosts -> Nat]
    /\ queued_num \in Int
    /\ outbox \in [Clients -> Seq({"REGISTER", "DONE"})]
    /\ inbox \in [Workers -> Seq(Data)]
    /\ wpc \in [Clients -> {"start", "idle", "task"}]
    /\ task \in [Workers -> Data \cup {None}]
    /\ seen \in [Workers -> States]
    /\ item_state \in [Items -> States]
    /\ requests \in 0..MaxRequests
    /\ lastReceived \in [Items -> Values \cup {None}]
    /\ lastProcessed \in [Items -> Values \cup {None}]

(* Some worker was given the rule of host h. *)
Held(h) == \E w \in Workers : worker_rule[w] = h

(* The rule of a host is indexed exactly while it has values, and is then  *)
(* referred to once: by one heap element or by one worker, never by both   *)
(* and never by two workers (worker->rule would dangle after the first     *)
(* worker's result removes the rule from rule_index).                      *)
RuleOwnedOnce ==
    /\ \A h \in Hosts :
          /\ h \in rule_index <=> values[h] # <<>>
          /\ Held(h) => h \in rule_index
          /\ rule_queue[h] = IF h \in rule_index /\ ~Held(h) THEN 1 ELSE 0
    /\ \A w1, w2 \in Workers :
          worker_rule[w1] = worker_rule[w2] /\ worker_rule[w1] # None => w1 = w2

(* A worker's progress: what is on its connection, what it works on and    *)
(* what the manager believes about it always agree.  So no DONE arrives    *)
(* from a worker without a rule (worker->rule->head would be read through  *)
(* NULL), and the value a worker processes is the head of its rule.        *)
InFlight(w) ==
    LET h == worker_rule[w] IN
    \/ /\ h = None /\ inbox[w] = <<>> /\ wpc[w] # "task"
       /\ outbox[w] = IF wpc[w] = "idle" /\ w \notin workers_client
                      THEN <<"REGISTER">> ELSE <<>>
       /\ wpc[w] = "start" => w \notin workers_client
    \/ /\ h # None /\ inbox[w] = <<Head(values[h])>> /\ outbox[w] = <<>> /\ wpc[w] = "idle"
       /\ w \in workers_client
    \/ /\ h # None /\ inbox[w] = <<>> /\ outbox[w] = <<>> /\ wpc[w] = "task"
       /\ w \in workers_client /\ task[w] = Head(values[h])
    \/ /\ h # None /\ inbox[w] = <<>> /\ outbox[w] = <<"DONE">> /\ wpc[w] = "idle"
       /\ w \in workers_client

WorkersInStep == \A w \in Workers : InFlight(w)

(* A registered worker is either free, and then listed once in the queue   *)
(* of free workers, or it processes a rule.                                *)
FreeWorkersExact ==
    /\ \A w \in Workers :
          (\E k \in 1..Len(free_workers) : free_workers[k] = w)
             <=> w \in workers_client /\ worker_rule[w] = None
    /\ \A j, k \in 1..Len(free_workers) :
          free_workers[j] = free_workers[k] => j = k

(* Neither THIS_SHOULD_NEVER_HAPPEN branch that ends the manager is ever   *)
(* taken: no worker registers beyond CONFIG_LLDWORKER_FORKS and no         *)
(* unregistered client reports a result, strangers notwithstanding.        *)
NeverExits == mpc # "exit"

(* The last value received for a discovery rule is never lost to the       *)
(* suppression of repeated values: it is the last one queued for the rule  *)
(* or, when none is queued, the last one processed.                        *)
LatestValueKept ==
    \A i \in Items :
        LET list == values[HostOf[i]]
            mine == {k \in 1..Len(list) : list[k].itemid = i}
        IN  IF mine = {} THEN lastReceived[i] = lastProcessed[i]
            ELSE \A k \in mine : (\A j \in mine : j <= k) => list[k].value = lastReceived[i]

(* The item state a worker read before processing a value is still current *)
(* when it compares and stores the outcome, so a "became supported" or     *)
(* "became not supported" event is generated exactly on a change.          *)
StateNotStale ==
    \A w \in Workers : wpc[w] = "task" => seen[w] = item_state[task[w].itemid]

(* Once some worker is busy everything queued is processed, because every  *)
(* result takes the next rule: a rule can wait forever only when no worker *)
(* was given work since it was queued.                                     *)
BusyManagerDrains == (\E w \in Workers : worker_rule[w] # None) ~> (rule_index = {})

(* The abstract queue this module implements. *)
Queue == INSTANCE LldQueue WITH
            pending <- values,
            active <- {h \in Hosts : Held(h)}

(* Every behaviour of the manager is one of the abstract queue: per host   *)
(* FIFO, one value at a time, nothing lost and nothing processed twice.    *)
ImplementsQueue == Queue!Spec

(* The inductive invariant behind the safety properties: the counters are  *)
(* what they count.                                                        *)
CountersExact ==
    /\ next_worker_index = Cardinality(workers_client)
    /\ \A h \in Hosts : values_num[h] = Len(values[h])

IInv ==
    /\ TypeOK
    /\ RuleOwnedOnce
    /\ WorkersInStep
    /\ FreeWorkersExact
    /\ NeverExits
    /\ CountersExact
===============================================================================
