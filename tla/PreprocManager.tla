--------------------------- MODULE PreprocManager ----------------------------
(***************************************************************************)
(* The preprocessing manager and its workers                               *)
(* (zabbix_server/preprocessor/preproc_manager.c, preproc_worker.c).       *)
(*                                                                         *)
(* Every value the server collects passes through the manager: values of   *)
(* items with preprocessing steps are queued and sent to workers, values   *)
(* of dependent items are derived from those of their master items, and    *)
(* everything leaves for the history cache (or the LLD manager) in queue   *)
(* order.  The manager is one process that handles one IPC message at a    *)
(* time, but its functions call each other recursively (preprocessor_      *)
(* enqueue, preprocessor_enqueue_dependent) and flush the queue in the     *)
(* middle.  The model keeps the calls that are still to be made in todo:   *)
(* a step executes the first and may put the calls it makes in its place.  *)
(* A message is received only when todo is empty; workers run in between.  *)
(***************************************************************************)
EXTENDS Integers, Sequences, FiniteSets, SequencesExt

CONSTANTS
    Workers,            \* the preprocessing workers
    Items,              \* items
    TopItems,           \* the items that receive collected values
    Internal,           \* the items of type ITEM_TYPE_INTERNAL
    Steps,              \* Steps[i]: "none", "plain", or "linked" when a step is a
                        \*   change or throttling one, which needs the last value
    Deps,               \* Deps[i]: the sequence of items dependent on item i
    Kinds,              \* kinds of collected values, of "value", "novalue", "notsupported"
    Tests,              \* preprocessing test requests of the frontend
    MaxReceived,        \* bound: collected values
    MaxBatch,           \* bound: values in one message
    MaxConfigChanges,   \* bound: configuration changes
    None                \* NULL


(* A value is identified by the collected value it comes from and the item *)
(* it belongs to; a list node is identified with the request it holds.     *)
Ids == (1..MaxReceived) \X Items
ItemOf(id) == id[2]

(* The AGENT_RESULTs: the one a collected value came with, shared with its *)
(* dependent values, and the one preprocessing made for a value.           *)
Results == Ids \X {"collected", "made"}

(* What an item's preprocessing history remembers: the last value that was *)
(* processed, and the version of the steps it was processed with.          *)
History == [n : 1..MaxReceived, ver : 0..MaxConfigChanges]

Config == [present : BOOLEAN, ver : 0..MaxConfigChanges]

(* A dependent item has one master item (master_itemid), and no values of  *)
(* its own are collected.                                                  *)
ASSUME PreprocAssumption ==
    /\ IsFiniteSet(Items) /\ TopItems \subseteq Items /\ Internal \subseteq TopItems
    /\ Steps \in [Items -> {"none", "plain", "linked"}]
    /\ Deps \in [Items -> Seq(Items)]
    /\ \A i \in Items : \A k \in DOMAIN Deps[i] :
          /\ Deps[i][k] \notin TopItems
          /\ \A j \in Items : \A l \in DOMAIN Deps[j] : Deps[i][k] = Deps[j][l] => i = j /\ k = l
    /\ Kinds \subseteq {"value", "novalue", "notsupported"}
    /\ MaxReceived \in Nat /\ MaxBatch \in Nat /\ MaxConfigChanges \in Nat
    /\ None \notin Ids \cup Results \cup History \cup Tests /\ Tests \cap Ids = {}

VARIABLES
    todo,           \* the manager's pending calls
    queue,          \* list of queued requests
    req,            \* req[id]: the request, or value, id
    refcount,       \* refcount[r]: reference counter of result r
    linked_items,   \* linked_items[i]: last queued request of linked item i
    history_cache,  \* history_cache[i]: the history vault of item i
    priority_tail,  \* last queued priority request
    direct_queue,   \* test requests to be forwarded
    workers,        \* registered workers, in the order of their slots
    task,           \* task[w]: worker->task
    queued_num, preproc_num,
    item_config,    \* the manager's copy of the configuration
    config,         \* the configuration cache
    inbox, outbox,  \* messages to and from a worker
    started,        \* workers that have connected
    tests,          \* tests[t]: what the client of test request t sees
    received,       \* collected values so far
    flushed,        \* values flushed by the manager, in order
    delivered       \* how many of them dc_flush_history has passed on

qvars == <<queue, req, refcount, linked_items, history_cache, priority_tail>>
nvars == <<queued_num, preproc_num>>
wvars == <<inbox, outbox, started>>
ovars == <<flushed, delivered>>
vars == <<todo, qvars, nvars, direct_queue, workers, task, item_config, config, wvars,
          tests, received, ovars>>

-------------------------------------------------------------------------------
(* The calls the manager makes. *)
Enqueue(id, master) == [op |-> "enqueue", id |-> id, master |-> master]
Dependents(id, master) == [op |-> "dependents", id |-> id, master |-> master]
Clear(id) == [op |-> "clear", id |-> id]
Queued == [op |-> "queued"]
Assign(pos) == [op |-> "assign", pos |-> pos]
Flush == [op |-> "flush"]
Release(w) == [op |-> "release", worker |-> w]
FlushHistory == [op |-> "history"]

Calling(op) == todo # <<>> /\ Head(todo).op = op
Return == todo' = Tail(todo)
Call(calls) == todo' = calls \o Tail(todo)

NoRequest == [state |-> "FREE", pending |-> None, flush |-> <<>>, supported |-> TRUE,
              isset |-> FALSE, ver |-> 0, res |-> None]

Init ==
    /\ todo = <<>>
    /\ queue = <<>>
    /\ req = [id \in Ids |-> NoRequest]
    /\ refcount = [r \in Results |-> 0]
    /\ linked_items = [i \in Items |-> None]
    /\ history_cache = [i \in Items |-> None]
    /\ priority_tail = None
    /\ direct_queue = <<>>
    /\ workers = <<>>
    /\ task = [w \in Workers |-> None]
    /\ queued_num = 0 /\ preproc_num = 0
    /\ config = [i \in Items |-> [present |-> TRUE, ver |-> 0]]
    /\ item_config = config
    /\ inbox = [w \in Workers |-> <<>>]
    /\ outbox = [w \in Workers |-> <<>>]
    /\ started = {}
    /\ tests = [t \in Tests |-> "idle"]
    /\ received = 0
    /\ flushed = <<>> /\ delivered = 0

-------------------------------------------------------------------------------
(* Messages: the handlers of the main loop.  dc_flush_history ends every   *)
(* iteration of the loop.                                                  *)

(* The configuration is refreshed; the history of an item that is gone, or *)
(* whose steps were modified, is dropped.                                  *)
preprocessor_sync_configuration ==
    /\ item_config' = config
    /\ history_cache' = [i \in Items |->
          IF config[i].present /\ config[i].ver = item_config[i].ver
          THEN history_cache[i] ELSE None]

(* A batch of collected values.  (The only message that looks at the       *)
(* configuration.)                                                         *)
preprocessor_add_request(batch) ==
    LET id(k) == <<received + k, batch[k].item>>
        ids == {id(k) : k \in DOMAIN batch}
        kind(x) == batch[x[1] - received].kind
    IN  /\ todo = <<>>
        /\ received + Len(batch) <= MaxReceived
        /\ received' = received + Len(batch)
        /\ preprocessor_sync_configuration
        /\ req' = [x \in Ids |->
              IF x \notin ids THEN req[x]
              ELSE [req[x] EXCEPT !.supported = kind(x) # "notsupported",
                                  !.isset = kind(x) = "value",
                                  !.res = <<x, "collected">>]]
        /\ refcount' = [r \in Results |->
              IF r[1] \in ids /\ r[2] = "collected" THEN 1 ELSE refcount[r]]
        /\ todo' = [k \in DOMAIN batch |-> Enqueue(id(k), None)]
                      \o <<Assign(1), Flush, FlushHistory>>
        /\ UNCHANGED <<queue, linked_items, priority_tail, nvars, direct_queue, workers,
                       task, config, wvars, tests, ovars>>

(* A test request of the frontend. *)
AddTestRequestQueuedOnly(t) ==
    /\ todo = <<>>
    /\ tests[t] = "idle"
    /\ tests' = [tests EXCEPT ![t] = "waiting"]
    /\ direct_queue' = Append(direct_queue, t)
    /\ todo' = <<Flush, FlushHistory>>
    /\ UNCHANGED <<qvars, nvars, workers, task, item_config, config, wvars, received, ovars>>

preprocessor_add_test_request(t) ==
    /\ todo = <<>>
    /\ tests[t] = "idle"
    /\ tests' = [tests EXCEPT ![t] = "waiting"]
    /\ direct_queue' = Append(direct_queue, t)
    /\ todo' = <<Assign(1), Flush, FlushHistory>>
    /\ UNCHANGED <<qvars, nvars, workers, task, item_config, config, wvars, received, ovars>>

(* A worker registers. *)
preprocessor_register_worker(w) ==
    /\ todo = <<>>
    /\ outbox[w] # <<>> /\ Head(outbox[w]).kind = "register"
    /\ outbox' = [outbox EXCEPT ![w] = Tail(@)]
    /\ workers' = Append(workers, w)
    /\ todo' = <<Assign(1), FlushHistory>>
    /\ UNCHANGED <<qvars, nvars, direct_queue, task, item_config, config, inbox, started,
                   tests, received, ovars>>

(* The position of a request in the queue. *)
Index(id) == SelectInSeq(queue, LAMBDA x : x = id)

(* preprocessor_set_request_state_done: a request id that is done is       *)
(* forgotten by linked_items, and unless it is at the head of the queue it *)
(* leaves the queue for the flush queue of the request before it, which    *)
(* becomes its position and inherits its being the last priority request.  *)
(* The requests of a flush queue have flush queues of their own, flushed   *)
(* recursively; here a request brings its flush queue along instead.       *)
KeepPosition(id) == id

NewPosition(id) == IF id = Head(queue) THEN id ELSE queue[Index(id) - 1]

AppendFlushQueueItself(id, r) ==
    IF id = Head(queue) THEN r ELSE [r EXCEPT ![NewPosition(id)].flush = Append(@, id)]

AppendFlushQueue(id, r) ==
    IF id = Head(queue) THEN r
    ELSE [r EXCEPT ![NewPosition(id)].flush = @ \o <<id>> \o r[id].flush]

DoneWithoutWakeup(id, r) == [r EXCEPT ![id].state = "DONE"]

(* The request waiting on it can now be processed. *)
DoneAndWakeup(id, r) ==
    [x \in Ids |-> IF x = id THEN [r[x] EXCEPT !.state = "DONE"]
                   ELSE IF x = r[id].pending THEN [r[x] EXCEPT !.state = "QUEUED"]
                   ELSE r[x]]

KeepLink(id) == linked_items

RemoveLink(id) == [linked_items EXCEPT ![ItemOf(id)] = IF @ = id THEN None ELSE @]

KeepPriorityTail(id) == priority_tail

MovePriorityTail(id) == IF priority_tail = id THEN NewPosition(id) ELSE priority_tail

preprocessor_set_request_state_done(id, r) ==
    /\ req' = AppendFlushQueue(id, DoneAndWakeup(id, r))
    /\ linked_items' = RemoveLink(id)
    /\ priority_tail' = MovePriorityTail(id)
    /\ queue' = IF id = Head(queue) THEN queue ELSE RemoveAt(queue, Index(id))

(* preprocessor_set_variant_result: an error makes the value not           *)
(* supported; otherwise a new result replaces the one that may be shared.  *)
SetVariantResultLeak(id, outcome, r, c) ==
    IF outcome = "error"
    THEN [req |-> [r EXCEPT ![id].supported = FALSE], refcount |-> c]
    ELSE [req |-> [r EXCEPT ![id].isset = (outcome = "value"), ![id].res = <<id, "made">>],
          refcount |-> [c EXCEPT ![<<id, "made">>] = 1]]

SetVariantResult(id, outcome, r, c) ==
    IF outcome = "error"
    THEN [req |-> [r EXCEPT ![id].supported = FALSE], refcount |-> c]
    ELSE [req |-> [r EXCEPT ![id].isset = (outcome = "value"), ![id].res = <<id, "made">>],
          refcount |-> [c EXCEPT ![r[id].res] = @ - 1, ![<<id, "made">>] = 1]]

(* A worker's result. *)
preprocessor_add_result(w) ==
    LET result == Head(outbox[w])
        id == task[w]
        variant == SetVariantResult(id, result.outcome, req, refcount)
    IN  /\ todo = <<>>
        /\ outbox[w] # <<>> /\ result.kind = "result"
        /\ outbox' = [outbox EXCEPT ![w] = Tail(@)]
        /\ history_cache' = [history_cache EXCEPT ![ItemOf(id)] = result.history]
        /\ preprocessor_set_request_state_done(id, variant.req)
        /\ refcount' = variant.refcount
        /\ todo' = (IF result.outcome = "value"
                    THEN <<Dependents(id, NewPosition(id))>> ELSE <<>>)
                      \o <<Release(w), Assign(1), Flush, FlushHistory>>
        /\ UNCHANGED <<nvars, direct_queue, workers, task, item_config, config, inbox,
                       started, tests, received, ovars>>

(* The result of a test request is forwarded if its client is still there. *)
preprocessor_flush_test_result(w) ==
    /\ todo = <<>>
    /\ outbox[w] # <<>> /\ Head(outbox[w]).kind = "test_result"
    /\ outbox' = [outbox EXCEPT ![w] = Tail(@)]
    /\ tests' = [tests EXCEPT ![task[w]] = IF @ = "waiting" THEN "answered" ELSE @]
    /\ task' = [task EXCEPT ![w] = None]
    /\ todo' = <<Assign(1), Flush, FlushHistory>>
    /\ UNCHANGED <<qvars, nvars, direct_queue, workers, item_config, config, inbox, started,
                   received, ovars>>

(* No message arrives for a second. *)
recv_timeout ==
    /\ todo = <<>>
    /\ \A w \in Workers : outbox[w] = <<>>
    /\ delivered < Len(flushed)
    /\ todo' = <<FlushHistory>>
    /\ UNCHANGED <<qvars, nvars, direct_queue, workers, task, item_config, config, wvars,
                   tests, received, ovars>>

-------------------------------------------------------------------------------
(* Calls. *)

HasSteps(id) == item_config[ItemOf(id)].present /\ Steps[ItemOf(id)] # "none"

(* Nothing to preprocess: no steps, or a value that is not set. *)
NeedsNoPreprocessing(id) ==
    ~HasSteps(id) \/ (req[id].supported /\ ~req[id].isset)

Priority(id, master) ==
    master = None /\ item_config[ItemOf(id)].present /\ ItemOf(id) \in Internal

(* The queue with a request inserted after the last priority request, at   *)
(* the beginning, after its master, or at the end.                         *)
InsertedFirst(id, master) ==
    IF Priority(id, master) THEN <<id>> \o queue
    ELSE IF master # None THEN InsertAt(queue, Index(master) + 1, id)
                          ELSE Append(queue, id)

Inserted(id, master) ==
    IF Priority(id, master)
    THEN IF priority_tail # None THEN InsertAt(queue, Index(priority_tail) + 1, id)
                                 ELSE <<id>> \o queue
    ELSE IF master # None THEN InsertAt(queue, Index(master) + 1, id)
                          ELSE Append(queue, id)

(* preprocessor_link_items: a request of a linked item waits for the one   *)
(* queued before it.                                                       *)
LinkedWithoutPending(id, r) ==
    [req |-> r,
     linked_items |-> IF r[id].state = "QUEUED" /\ Steps[ItemOf(id)] = "linked"
                      THEN [linked_items EXCEPT ![ItemOf(id)] = id] ELSE linked_items]

Linked(id, r) ==
    LET i == ItemOf(id)
        last == linked_items[i]
    IN  IF r[id].state # "QUEUED" \/ Steps[i] # "linked"
        THEN [req |-> r, linked_items |-> linked_items]
        ELSE [req |-> IF last # None /\ r[last].state # "DONE"
                      THEN [r EXCEPT ![last].pending = id, ![id].state = "PENDING"]
                      ELSE r,
              linked_items |-> [linked_items EXCEPT ![i] = id]]

(* A value that needs no preprocessing is flushed at once when the queue   *)
(* is empty; every other value becomes a queued request.                   *)
preprocessor_enqueue ==
    LET id == Head(todo).id
        master == Head(todo).master
        done == NeedsNoPreprocessing(id)
        r == [req EXCEPT ![id].state = IF done THEN "DONE" ELSE "QUEUED",
                         ![id].ver = item_config[ItemOf(id)].ver]
        linked == Linked(id, r)
    IN  /\ Calling("enqueue")
        /\ IF done /\ queue = <<>>
           THEN /\ flushed' = Append(flushed, id)
                /\ Call(<<Dependents(id, None), Clear(id)>>)
                /\ UNCHANGED <<queue, req, linked_items, priority_tail, preproc_num>>
           ELSE /\ master # None => Contains(queue, master)
                /\ preproc_num' = preproc_num + IF ~done /\ req[id].supported THEN 1 ELSE 0
                /\ queue' = Inserted(id, master)
                /\ priority_tail' = IF Priority(id, master) \/ (master # None /\ master = priority_tail)
                                    THEN id ELSE priority_tail
                /\ req' = linked.req
                /\ linked_items' = linked.linked_items
                /\ Call((IF done THEN <<Dependents(id, id)>> ELSE <<>>) \o <<Queued>>)
                /\ UNCHANGED flushed
        /\ UNCHANGED <<refcount, history_cache, queued_num, direct_queue, workers, task,
                       item_config, config, wvars, tests, received, delivered>>

(* manager->queued_num++, after the dependent values have been enqueued. *)
enqueue_end ==
    /\ Calling("queued")
    /\ queued_num' = queued_num + 1
    /\ Return
    /\ UNCHANGED <<qvars, preproc_num, direct_queue, workers, task, item_config, config,
                   wvars, tests, received, ovars>>

(* preproc_item_value_clear of a value that was flushed at once. *)
preproc_item_value_clear ==
    /\ Calling("clear")
    /\ refcount' = [refcount EXCEPT ![req[Head(todo).id].res] = @ - 1]
    /\ Return
    /\ UNCHANGED <<queue, req, linked_items, history_cache, priority_tail, nvars,
                   direct_queue, workers, task, item_config, config, wvars, tests,
                   received, ovars>>

(* The value of a master item is passed on to its dependent items that are *)
(* configured, the last one first, then tasks are assigned and the queue   *)
(* is flushed.                                                             *)
dep_itemids(i) == {k \in DOMAIN Deps[i] : item_config[Deps[i][k]].present}

Descending(S) == {s \in [1..Cardinality(S) -> S] : \A j, k \in DOMAIN s : j < k => s[j] > s[k]}

preprocessor_enqueue_dependent ==
    LET id == Head(todo).id
        master == Head(todo).master
        i == ItemOf(id)
        derived(k) == <<id[1], Deps[i][k]>>
        ids == {derived(k) : k \in dep_itemids(i)}
    IN  /\ Calling("dependents")
        /\ IF req[id].isset /\ item_config[i].present /\ ids # {}
           THEN /\ req' = [x \in Ids |-> IF x \notin ids THEN req[x]
                             ELSE [req[x] EXCEPT !.supported = req[id].supported,
                                                 !.isset = TRUE, !.res = req[id].res]]
                /\ refcount' = [refcount EXCEPT ![req[id].res] = @ + Cardinality(ids)]
                /\ \E s \in Descending(dep_itemids(i)) :
                      Call([k \in DOMAIN s |-> Enqueue(derived(s[k]), master)]
                              \o <<Assign(1), Flush>>)
           ELSE Return /\ UNCHANGED <<req, refcount>>
        /\ UNCHANGED <<queue, linked_items, history_cache, priority_tail, nvars, direct_queue,
                       workers, task, item_config, config, wvars, tests, received, ovars>>

(* preprocessor_get_free_worker: the first worker without a task, if any. *)
FreeWorkerBusyToo == SelectInSeq(workers, LAMBDA w : TRUE)

FreeWorker == SelectInSeq(workers, LAMBDA w : task[w] = None)

(* One iteration of preprocessor_assign_tasks, or one request looked at by *)
(* preprocessor_get_next_task: the search for a queued request goes on     *)
(* from position pos, so a request that becomes QUEUED behind it waits.    *)
preprocessor_assign_tasks ==
    LET pos == Head(todo).pos
        w == workers[FreeWorker]
        k == SelectInSubSeq(queue, pos, Len(queue), LAMBDA x : req[x].state = "QUEUED")
        id == queue[k]
        i == ItemOf(id)
    IN  /\ Calling("assign")
        /\ \/ /\ FreeWorker = 0 \/ (k = 0 /\ (pos > 1 \/ direct_queue = <<>>))
              /\ Return
              /\ UNCHANGED <<qvars, direct_queue, task, inbox>>
           \/ /\ FreeWorker # 0 /\ pos = 1 /\ direct_queue # <<>>
              /\ direct_queue' = Tail(direct_queue)
              /\ task' = [task EXCEPT ![w] = Head(direct_queue)]
              /\ inbox' = [inbox EXCEPT ![w] = Append(@, [kind |-> "test"])]
              /\ UNCHANGED <<todo, qvars>>
           \/ /\ FreeWorker # 0 /\ (pos > 1 \/ direct_queue = <<>>) /\ k # 0
              /\ ~req[id].supported
              /\ history_cache' = [history_cache EXCEPT ![i] = None]
              /\ preprocessor_set_request_state_done(id, req)
              /\ Call(<<Assign(IF k = 1 THEN 2 ELSE k)>>)
              /\ UNCHANGED <<refcount, direct_queue, task, inbox>>
           \/ /\ FreeWorker # 0 /\ (pos > 1 \/ direct_queue = <<>>) /\ k # 0
              /\ req[id].supported
              /\ req' = [req EXCEPT ![id].state = "PROCESSING"]
              /\ task' = [task EXCEPT ![w] = id]
              /\ inbox' = [inbox EXCEPT ![w] = Append(@, [kind |-> "request", id |-> id,
                                ver |-> req[id].ver, history |-> history_cache[i]])]
              /\ Call(<<Assign(1)>>)
              /\ UNCHANGED <<queue, refcount, linked_items, history_cache, priority_tail,
                             direct_queue>>
        /\ UNCHANGED <<nvars, workers, item_config, config, outbox, started, tests,
                       received, ovars>>

HeadDone == queue # <<>> /\ req[Head(queue)].state = "DONE"

(* One request flushed by preprocessing_flush_queue, with the requests of  *)
(* its flush queue, or the end of the loop at a request that is not done.  *)
preprocessing_flush_queue ==
    /\ Calling("flush")
    /\ \/ /\ ~HeadDone
          /\ Return
          /\ UNCHANGED <<queue, req, refcount, priority_tail, queued_num, flushed>>
       \/ /\ HeadDone
          /\ LET ids == <<Head(queue)>> \o req[Head(queue)].flush IN
             /\ flushed' = flushed \o ids
             /\ queued_num' = queued_num - Len(ids)
             /\ req' = [x \in Ids |-> IF Contains(ids, x) THEN [req[x] EXCEPT !.state = "FREE"]
                                                          ELSE req[x]]
             /\ refcount' = [r \in Results |->
                   refcount[r] - Cardinality({k \in DOMAIN ids : req[ids[k]].res = r})]
             /\ priority_tail' = IF priority_tail = Head(queue) THEN None ELSE priority_tail
             /\ queue' = Tail(queue)
             /\ UNCHANGED todo
    /\ UNCHANGED <<linked_items, history_cache, preproc_num, direct_queue, workers, task,
                   item_config, config, wvars, tests, received, delivered>>

(* The worker whose result was handled becomes free; in the mutant the     *)
(* value is still counted.                                                 *)
ResultEndNotCounted ==
    /\ Calling("release")
    /\ task' = [task EXCEPT ![Head(todo).worker] = None]
    /\ Return
    /\ UNCHANGED <<qvars, nvars, direct_queue, workers, item_config, config, wvars,
                   tests, received, ovars>>

result_end ==
    /\ Calling("release")
    /\ task' = [task EXCEPT ![Head(todo).worker] = None]
    /\ preproc_num' = preproc_num - 1
    /\ Return
    /\ UNCHANGED <<qvars, queued_num, direct_queue, workers, item_config, config, wvars,
                   tests, received, ovars>>

(* End of the main loop's body: the local history cache is passed on when  *)
(* nothing is being preprocessed or a second has passed since last time.   *)
flush_history ==
    /\ Calling("history")
    /\ \/ delivered' = Len(flushed)
       \/ preproc_num # 0 /\ UNCHANGED delivered
    /\ Return
    /\ UNCHANGED <<qvars, nvars, direct_queue, workers, task, item_config, config, wvars,
                   tests, received, flushed>>

-------------------------------------------------------------------------------
(* A worker process starts and registers. *)
worker_start(w) ==
    /\ w \notin started
    /\ started' = started \cup {w}
    /\ outbox' = [outbox EXCEPT ![w] = Append(@, [kind |-> "register"])]
    /\ UNCHANGED <<todo, qvars, nvars, direct_queue, workers, task, item_config, config,
                   inbox, tests, received, ovars>>

(* The outcomes of preprocessing a value: a value, nothing or an error,    *)
(* with what is remembered of it.  A change or throttling step remembers   *)
(* the value, unless another one failed before it or its own failure was   *)
(* handled; a throttling step that discards the value keeps what it was    *)
(* sent.                                                                   *)
Outcomes(msg) ==
    LET remembered == [n |-> msg.id[1], ver |-> msg.ver]
    IN  IF Steps[ItemOf(msg.id)] = "linked"
        THEN ({"value", "none", "error"} \X {remembered, None}) \cup {<<"none", msg.history>>}
        ELSE {"value", "none", "error"} \X {None}

(* A worker executes the steps of a value, with the history it was sent. *)
worker_preprocess_value(w) ==
    /\ inbox[w] # <<>> /\ Head(inbox[w]).kind = "request"
    /\ inbox' = [inbox EXCEPT ![w] = Tail(@)]
    /\ \E o \in Outcomes(Head(inbox[w])) :
          outbox' = [outbox EXCEPT ![w] =
                        Append(@, [kind |-> "result", outcome |-> o[1], history |-> o[2]])]
    /\ UNCHANGED <<todo, qvars, nvars, direct_queue, workers, task, item_config, config,
                   started, tests, received, ovars>>

(* A worker executes a test request. *)
worker_test_value(w) ==
    /\ inbox[w] # <<>> /\ Head(inbox[w]).kind = "test"
    /\ inbox' = [inbox EXCEPT ![w] = Tail(@)]
    /\ outbox' = [outbox EXCEPT ![w] = Append(@, [kind |-> "test_result"])]
    /\ UNCHANGED <<todo, qvars, nvars, direct_queue, workers, task, item_config, config,
                   started, tests, received, ovars>>

(* The environment: a test client gives up; the configuration syncer       *)
(* disables, enables or modifies an item.                                  *)
client_close(t) ==
    /\ tests[t] = "waiting"
    /\ tests' = [tests EXCEPT ![t] = "closed"]
    /\ UNCHANGED <<todo, qvars, nvars, direct_queue, workers, task, item_config, config,
                   wvars, received, ovars>>

config_change(i, present) ==
    /\ config[i].ver < MaxConfigChanges
    /\ config' = [config EXCEPT ![i] = [present |-> present, ver |-> @.ver + 1]]
    /\ UNCHANGED <<todo, qvars, nvars, direct_queue, workers, task, item_config, wvars,
                   tests, received, ovars>>

-------------------------------------------------------------------------------
Batches == UNION {[1..n -> [item : TopItems, kind : Kinds]] : n \in 1..MaxBatch}

Calls ==
    \/ preprocessor_enqueue
    \/ enqueue_end
    \/ preproc_item_value_clear
    \/ preprocessor_enqueue_dependent
    \/ preprocessor_assign_tasks
    \/ preprocessing_flush_queue
    \/ result_end
    \/ flush_history

Replies ==
    \E w \in Workers : \/ preprocessor_register_worker(w)
                       \/ preprocessor_add_result(w)
                       \/ preprocessor_flush_test_result(w)

Worker(w) == worker_start(w) \/ worker_preprocess_value(w) \/ worker_test_value(w)

Next ==
    \/ Calls
    \/ Replies
    \/ recv_timeout
    \/ \E batch \in Batches : preprocessor_add_request(batch)
    \/ \E t \in Tests : preprocessor_add_test_request(t) \/ client_close(t)
    \/ \E w \in Workers : Worker(w)
    \/ \E i \in Items, present \in BOOLEAN : config_change(i, present)

Spec == Init /\ [][Next]_vars

(* The manager's calls return, its main loop receives what was sent and    *)
(* goes round at least once a second, and workers start and finish; nobody *)
(* has to send values or tests or change the configuration.                *)
Fairness ==
    /\ WF_vars(Calls) /\ WF_vars(Replies) /\ WF_vars(recv_timeout)
    /\ \A w \in Workers : WF_vars(Worker(w))

FairSpec == Spec /\ Fairness
-------------------------------------------------------------------------------
(* Properties. *)

(* Where a value is: its positions among the flushed values; in the queue, *)
(* where it is the request of a node (0) or in the flush queue of one; and *)
(* among the pending calls, waiting to be enqueued or to be cleared.       *)
FlushedAt(id) == {k \in DOMAIN flushed : flushed[k] = id}

Place(k, j) == IF j = 0 THEN queue[k] ELSE req[queue[k]].flush[j]

QueuedAt(id) ==
    UNION {{k} \X {j \in 0..Len(req[queue[k]].flush) : Place(k, j) = id} : k \in DOMAIN queue}

CalledAt(op, id) == {k \in DOMAIN todo : todo[k].op = op /\ todo[k].id = id}

(* The variables have their types.  (queued_num is one behind while the    *)
(* dependents of a value are enqueued and may already have been flushed.)  *)
TypeOK ==
    /\ queue \in Seq(Ids)
    /\ req \in [Ids -> [state : {"FREE", "QUEUED", "PROCESSING", "DONE", "PENDING"},
                        pending : Ids \cup {None}, flush : Seq(Ids), supported : BOOLEAN,
                        isset : BOOLEAN, ver : 0..MaxConfigChanges, res : Results \cup {None}]]
    /\ refcount \in [Results -> Nat]
    /\ linked_items \in [Items -> Ids \cup {None}]
    /\ history_cache \in [Items -> History \cup {None}]
    /\ priority_tail \in Ids \cup {None}
    /\ direct_queue \in Seq(Tests) /\ workers \in Seq(Workers)
    /\ task \in [Workers -> Ids \cup Tests \cup {None}]
    /\ queued_num \in Int /\ preproc_num \in Nat
    /\ {item_config, config} \subseteq [Items -> Config]
    /\ \A w \in Workers : Len(inbox[w]) + Len(outbox[w]) <= 1
    /\ tests \in [Tests -> {"idle", "waiting", "answered", "closed"}]
    /\ received \in 0..MaxReceived
    /\ flushed \in Seq(Ids) /\ delivered \in 0..Len(flushed)

(* No value is lost or flushed twice: every collected or derived value is  *)
(* at one place, flushed, in the queue (or a flush queue within it) or     *)
(* about to be enqueued (preprocessor_set_request_state_done,              *)
(* preprocessing_flush_queue).                                             *)
NothingLost ==
    \A id \in Ids :
        Cardinality(FlushedAt(id)) + Cardinality(QueuedAt(id)) + Cardinality(CalledAt("enqueue", id))
            = IF req[id].res # None THEN 1 ELSE 0

(* The values of the given items leave in the order of collection.         *)
InOrder(items) ==
    \A x, y \in Ids : ItemOf(x) = ItemOf(y) /\ ItemOf(x) \in items /\ x[1] < y[1] =>
        /\ \A j \in FlushedAt(x), k \in FlushedAt(y) : j < k
        /\ FlushedAt(y) # {} => QueuedAt(x) = {}
        /\ \A p \in QueuedAt(x), q \in QueuedAt(y) : p[1] < q[1] \/ (p[1] = q[1] /\ p[2] < q[2])

(* The collected values of an item are flushed in the order in which they  *)
(* were collected, although they are preprocessed in parallel and done     *)
(* values are kept in the flush queue of another (preprocessor_enqueue,    *)
(* preprocessor_set_request_state_done).  An internal item has to stay     *)
(* configured for that: with its configuration it loses its priority.      *)
FlushOrder == InOrder(TopItems)

(* So are the values of a dependent item: preprocessing_flush_queue is to  *)
(* "add all sequential processed values from beginning of the queue".      *)
DependentFlushOrder == InOrder(Items \ TopItems)

(* The values of an item with change or throttling steps are preprocessed  *)
(* one at a time, and those that are not derived from another item's in    *)
(* the order of collection, with the history of an earlier value:          *)
(* preprocessor_link_items.                                                *)
LinkedInOrder ==
    /\ \A w \in Workers : \A k \in DOMAIN inbox[w] :
        LET msg == inbox[w][k]
        IN  msg.kind = "request" /\ msg.history # None /\ ItemOf(msg.id) \in TopItems =>
                msg.history.n < msg.id[1]
    /\ \A id \in Ids : req[id].state = "PROCESSING" /\ Steps[ItemOf(id)] = "linked" =>
        \A x \in Ids \ {id} : ItemOf(x) = ItemOf(id) =>
            /\ req[x].state # "PROCESSING"
            /\ ItemOf(id) \in TopItems /\ x[1] < id[1] => req[x].state \in {"DONE", "FREE"}

(* A pending request will be woken up, by one request only, and            *)
(* linked_items refers to unfinished queued requests only.                 *)
LinksLive ==
    /\ \A id \in Ids : req[id].state = "PENDING" =>
          Cardinality({k \in DOMAIN queue : /\ req[queue[k]].pending = id
                                            /\ req[queue[k]].state # "DONE"}) = 1
    /\ \A i \in Items : linked_items[i] # None =>
          Contains(queue, linked_items[i]) /\ req[linked_items[i]].state # "DONE"

(* What ZBX_IPC_PREPROCESSOR_QUEUE reports, and what flushing of history   *)
(* waits for: queued_num counts the values in the queue, preproc_num the   *)
(* ones that are still to be preprocessed.                                 *)
CountersExact ==
    todo = <<>> =>
        /\ queued_num = Cardinality({id \in Ids : QueuedAt(id) # {}})
        /\ preproc_num = Cardinality({id \in Ids : /\ req[id].supported
                              /\ req[id].state \in {"QUEUED", "PENDING", "PROCESSING"}})

(* priority_tail stays in the queue (preprocessor_set_request_state_done   *)
(* frees nodes), and no value of an internal item is queued behind it, if  *)
(* the configuration does not change: one that is no longer configured has *)
(* no priority.                                                            *)
PriorityTailLast ==
    /\ priority_tail # None => Contains(queue, priority_tail)
    /\ MaxConfigChanges = 0 => \A k \in DOMAIN queue :
          ItemOf(queue[k]) \in Internal => priority_tail # None /\ k <= Index(priority_tail)

(* A result is freed with its last value: the reference counter of a       *)
(* result is the number of values that use it.  (It is raised for all      *)
(* dependents at once, before they are enqueued.)                          *)
RefcountExact ==
    LET Uses(id) == QueuedAt(id) # {} \/ CalledAt("enqueue", id) # {} \/ CalledAt("clear", id) # {}
    IN  \A r \in Results :
            refcount[r] = Cardinality({id \in Ids : req[id].res = r /\ Uses(id)})

(* A dependent value is enqueued after its master's request, which is      *)
(* still in the queue (header of preprocessor_enqueue_dependent).          *)
MasterQueued ==
    Calling("enqueue") /\ Head(todo).master # None => Contains(queue, Head(todo).master)

(* A worker is never sent the history of other steps than the ones it is   *)
(* to execute: preprocessor_sync_configuration resets the history of an    *)
(* item whose steps were modified.                                         *)
HistoryMatchesSteps ==
    \A w \in Workers : \A k \in DOMAIN inbox[w] :
        LET msg == inbox[w][k]
        IN  msg.kind = "request" /\ msg.history # None => msg.history.ver = msg.ver

(* Every collected or derived value is passed on to the history cache. *)
EveryValueDelivered ==
    \A id \in Ids : req[id].res # None ~> \E k \in 1..delivered : flushed[k] = id

(* Every test request is answered unless its client goes away. *)
EveryTestEnds == \A t \in Tests : tests[t] = "waiting" ~> tests[t] # "waiting"
==============================================================================
