---------------------------- MODULE HistoryCache -----------------------------
(***************************************************************************)
(* The history cache and the history syncers (libs/zbxdbcache/dbcache.c,   *)
(* the trigger locks of dbconfig.c, zabbix_server/dbsyncer/dbsyncer.c).    *)
(*                                                                         *)
(* Producers (the preprocessing manager above all) collect values in a     *)
(* local buffer and add them to a cache in shared memory, where each item  *)
(* has a list of values and a place in a heap ordered by the timestamp of  *)
(* its oldest value.  Syncers pop items from the heap, lock the triggers   *)
(* that depend on them, write the oldest value of each item, evaluate the  *)
(* triggers and push the items back.  An item with a trigger locked by     *)
(* another syncer is busy and is pushed back as it was.  The cache mutex   *)
(* is released while values are written and while a producer waits for     *)
(* space.  When the server stops, the syncers finish and the main process  *)
(* writes what is left.                                                    *)
(***************************************************************************)
EXTENDS Integers, Sequences, FiniteSets, FiniteSetsExt

CONSTANTS
    Producers,          \* processes that add values
    Syncers,            \* history syncers and the main process
    Main,               \* the main process, a syncer only at exit
    Items, Triggers,
    TriggersOf,         \* TriggersOf[i]: the enabled triggers of item i
    Timers,             \* triggers with time functions
    Server,             \* whether the program is the server or a proxy
    Kinds,              \* kinds of values, of "value", "log" (a value and metadata), "meta"
    Timestamps,         \* timestamps of values
    Capacity,           \* HistoryCacheSize, in values
    SyncMax,            \* ZBX_HC_SYNC_MAX
    LocalMax,           \* ZBX_MAX_VALUES_LOCAL
    MaxValues,          \* bound: values added
    MaxTicks,           \* bound: times a timer trigger is due
    None                \* nobody

ASSUME HistoryCacheAssumption ==
    /\ Main \in Syncers /\ None \notin Producers /\ IsFiniteSet(Items)
    /\ TriggersOf \in [Items -> SUBSET Triggers] /\ Timers \subseteq Triggers
    /\ Server \in BOOLEAN
    /\ Kinds \subseteq {"value", "log", "meta"}
    /\ Timestamps \subseteq Nat
    /\ Capacity \in Nat \ {0} /\ SyncMax \in Nat \ {0} /\ LocalMax \in Nat \ {0}
    /\ MaxValues \in Nat /\ MaxTicks \in Nat

(* A value in a producer's buffer, and in the cache: n counts the values   *)
(* that were put into the cache, meta is the newest metadata (lastlogsize, *)
(* mtime) the value carries, if any.                                       *)
ItemValue == [item : Items, kind : Kinds, ts : Timestamps]
Data == [n : Nat, ts : Timestamps, novalue : BOOLEAN, meta : Nat]

VARIABLES
    values,         \* values[i]: the list of item i, oldest value (tail) first
    status,         \* status[i]: "NORMAL" or "BUSY"
    queued,         \* queued[i]: how often item i is in the history queue
    history_num,
    cache_lock,     \* the producer that holds the cache mutex between steps
    item_values,    \* item_values[p]: buffered values of producer p still to be added
    values_num,     \* values_num[p]: how many values its flush adds
    found,          \* found[p]: hc_get_item found the item of the next value
    producer,       \* producer[p]: where producer p is
    history_items,  \* history_items[s]: items taken by syncer s
    history,        \* history[s]: the values it copied
    triggerids,     \* triggerids[s]: the triggers it locked
    syncer,         \* syncer[s]: where syncer s is
    locked,         \* triggers that are locked
    timer_queue,    \* timer triggers in the timer queue
    due,            \* those whose time has come
    ticks, stopping,
    given,          \* number of values collected
    accepted,       \* accepted[i]: values put into the cache, in order
    processed,      \* processed[i]: values that were written or given up, in order
    lastmeta,       \* lastmeta[i]: the newest metadata given to the cache
    storedmeta,     \* storedmeta[i]: the metadata in the configuration cache
    failed          \* items that lost a value to a failed write

cvars == <<values, status, queued, history_num>>
pvars == <<cache_lock, item_values, values_num, found, producer>>
svars == <<history_items, history, triggerids, syncer>>
tvars == <<locked, timer_queue, due, ticks, stopping>>
hvars == <<given, accepted, processed, lastmeta, storedmeta, failed>>
vars == <<cvars, pvars, svars, tvars, hvars>>

Init ==
    /\ values = [i \in Items |-> <<>>]
    /\ status = [i \in Items |-> "NORMAL"]
    /\ queued = [i \in Items |-> 0]
    /\ history_num = 0
    /\ cache_lock = None
    /\ item_values = [p \in Producers |-> <<>>]
    /\ values_num = [p \in Producers |-> 0]
    /\ found = [p \in Producers |-> FALSE]
    /\ producer = [p \in Producers |-> "idle"]
    /\ history_items = [s \in Syncers |-> {}]
    /\ history = [s \in Syncers |-> {}]
    /\ triggerids = [s \in Syncers |-> {}]
    /\ syncer = [s \in Syncers |-> IF s = Main THEN "main" ELSE "idle"]
    /\ locked = {} /\ timer_queue = Timers /\ due = {}
    /\ ticks = 0 /\ stopping = FALSE
    /\ given = 0
    /\ accepted = [i \in Items |-> <<>>]
    /\ processed = [i \in Items |-> <<>>]
    /\ lastmeta = [i \in Items |-> 0]
    /\ storedmeta = [i \in Items |-> 0]
    /\ failed = {}

-------------------------------------------------------------------------------
(* Producers. *)

(* The values held by the cache. *)
Used == MapThenSumSet(LAMBDA i : Len(values[i]), Items)

At(p, place) == producer[p] = place
GoTo(p, place) == producer' = [producer EXCEPT ![p] = place]

(* dc_add_history: values are buffered, until there are ZBX_MAX_VALUES_    *)
(* LOCAL of them or the process flushes them.                              *)
dc_add_history(p, batch) ==
    /\ At(p, "idle")
    /\ given + Len(batch) <= MaxValues
    /\ given' = given + Len(batch)
    /\ item_values' = [item_values EXCEPT ![p] = batch]
    /\ values_num' = [values_num EXCEPT ![p] = Len(batch)]
    /\ GoTo(p, "flush")
    /\ UNCHANGED <<cvars, cache_lock, found, svars, tvars, accepted, processed, lastmeta,
                   storedmeta, failed>>

(* dc_flush_history takes the mutex, adds the values one by one, counts    *)
(* them and releases it.                                                   *)
flush_begin(p) ==
    /\ At(p, "flush") /\ cache_lock = None
    /\ cache_lock' = p
    /\ GoTo(p, "next")
    /\ UNCHANGED <<cvars, item_values, values_num, found, svars, tvars, hvars>>

flush_end(p) ==
    /\ At(p, "next") /\ item_values[p] = <<>>
    /\ history_num' = history_num + values_num[p]
    /\ cache_lock' = None
    /\ GoTo(p, "idle")
    /\ UNCHANGED <<values, status, queued, item_values, values_num, found, svars, tvars, hvars>>

NextItem(p) == Head(item_values[p]).item
NextNumber(i) == Len(accepted[i]) + 1
Number(i) == lastmeta[i] + 1

(* Metadata without a value is copied to the last value of its item, if    *)
(* there are two or more: a single one may be in processing.               *)
MergesAlways(p) == Head(item_values[p]).kind = "meta" /\ values[NextItem(p)] # <<>>

Merges(p) ==
    /\ Head(item_values[p]).kind = "meta"
    /\ Len(values[NextItem(p)]) > 1

MergeIntoTail(p) ==
    LET i == NextItem(p)
    IN  /\ At(p, "next") /\ item_values[p] # <<>> /\ Merges(p)
        /\ values' = [values EXCEPT ![i][1].meta = Number(i)]
        /\ lastmeta' = [lastmeta EXCEPT ![i] = Number(i)]
        /\ item_values' = [item_values EXCEPT ![p] = Tail(@)]
        /\ UNCHANGED <<status, queued, history_num, cache_lock, values_num, found, producer,
                       svars, tvars, given, accepted, processed, storedmeta, failed>>

(* One iteration of hc_add_item_values: metadata that can be merged ...    *)
merge_metadata(p) ==
    LET i == NextItem(p)
    IN  /\ At(p, "next") /\ item_values[p] # <<>> /\ Merges(p)
        /\ values' = [values EXCEPT ![i][Len(values[i])].meta = Number(i)]
        /\ lastmeta' = [lastmeta EXCEPT ![i] = Number(i)]
        /\ item_values' = [item_values EXCEPT ![p] = Tail(@)]
        /\ UNCHANGED <<status, queued, history_num, cache_lock, values_num, found, producer,
                       svars, tvars, given, accepted, processed, storedmeta, failed>>

(* ... or a value to be cloned, once hc_get_item has looked its item up. *)
hc_get_item(p) ==
    /\ At(p, "next") /\ item_values[p] # <<>> /\ ~Merges(p)
    /\ found' = [found EXCEPT ![p] = values[NextItem(p)] # <<>>]
    /\ GoTo(p, "clone")
    /\ UNCHANGED <<cvars, cache_lock, item_values, values_num, svars, tvars, hvars>>

NewData(p) ==
    LET v == Head(item_values[p])
    IN  [n |-> NextNumber(v.item), ts |-> v.ts, novalue |-> v.kind = "meta",
         meta |-> IF v.kind = "value" THEN 0 ELSE Number(v.item)]

(* There is space: the value is appended to the list of its item, which is *)
(* created and queued if it did not exist.                                 *)
hc_add_item_value(p) ==
    LET i == NextItem(p)
        data == NewData(p)
    IN  /\ At(p, "clone") /\ Used < Capacity
        /\ values' = [values EXCEPT ![i] = IF found[p] THEN Append(@, data) ELSE <<data>>]
        /\ queued' = [queued EXCEPT ![i] = IF found[p] THEN @ ELSE @ + 1]
        /\ accepted' = [accepted EXCEPT ![i] = Append(@, data.n)]
        /\ lastmeta' = [lastmeta EXCEPT ![i] = IF data.meta = 0 THEN @ ELSE data.meta]
        /\ item_values' = [item_values EXCEPT ![p] = Tail(@)]
        /\ GoTo(p, "next")
        /\ UNCHANGED <<status, history_num, cache_lock, values_num, found, svars, tvars,
                       given, processed, storedmeta, failed>>

CacheFullLocked(p) ==
    /\ At(p, "clone") /\ Used >= Capacity
    /\ GoTo(p, "wait")
    /\ UNCHANGED <<cvars, cache_lock, item_values, values_num, found, svars, tvars, hvars>>

(* There is none: the mutex is released for a second at a time, and the    *)
(* item is looked up again when there is space.                            *)
cache_full(p) ==
    /\ At(p, "clone") /\ Used >= Capacity
    /\ cache_lock' = None
    /\ GoTo(p, "wait")
    /\ UNCHANGED <<cvars, item_values, values_num, found, svars, tvars, hvars>>

WaitEndStale(p) ==
    /\ At(p, "wait") /\ cache_lock = None /\ Used < Capacity
    /\ cache_lock' = p
    /\ GoTo(p, "clone")
    /\ UNCHANGED <<cvars, item_values, values_num, found, svars, tvars, hvars>>

wait_end(p) ==
    /\ At(p, "wait") /\ cache_lock = None /\ Used < Capacity
    /\ cache_lock' = p
    /\ found' = [found EXCEPT ![p] = values[NextItem(p)] # <<>>]
    /\ GoTo(p, "clone")
    /\ UNCHANGED <<cvars, item_values, values_num, svars, tvars, hvars>>

-------------------------------------------------------------------------------
(* Syncers. *)

In(s, place) == syncer[s] = place
Proceed(s, place) == syncer' = [syncer EXCEPT ![s] = place]

TailOf(i) == Head(values[i])
InQueue == {i \in Items : queued[i] > 0}

(* The batches hc_pop_items may take: up to ZBX_HC_SYNC_MAX items, those   *)
(* with the oldest values.                                                 *)
Batches ==
    {S \in SUBSET InQueue :
        /\ Cardinality(S) = IF Cardinality(InQueue) < SyncMax THEN Cardinality(InQueue) ELSE SyncMax
        /\ \A i \in S, j \in InQueue \ S : TailOf(i).ts <= TailOf(j).ts}

RoundEndOnce(s, left, more) ==
    IF s = Main THEN {"gone"}
    ELSE IF more THEN {"pop", "idle"} ELSE {IF stopping THEN "gone" ELSE "idle"}

RoundEndNeverStops(s, left, more) ==
    IF s = Main THEN {IF left THEN "pop" ELSE "gone"}
    ELSE IF more THEN {"pop", "idle"} ELSE {"idle"}

(* What follows a round of the loop: if there is more another round, now   *)
(* or after ZBX_HC_SYNC_TIME_MAX seconds in a new call, else the end of the *)
(* process or sleep and a new call.                                        *)
RoundEnd(s, left, more) ==
    IF s = Main THEN {IF left THEN "pop" ELSE "gone"}
    ELSE IF more THEN {"pop", "idle"} ELSE {IF stopping THEN "gone" ELSE "idle"}

(* A new call of zbx_sync_history_cache.  Timers are not processed when    *)
(* the server stops.                                                       *)
zbx_sync_history_cache(s) ==
    /\ In(s, "idle")
    /\ timer_queue' = IF stopping THEN {} ELSE timer_queue
    /\ due' = IF stopping THEN {} ELSE due
    /\ Proceed(s, "pop")
    /\ UNCHANGED <<cvars, pvars, history_items, history, triggerids, locked, ticks, stopping,
                   hvars>>

hc_pop_items(s) ==
    /\ In(s, "pop") /\ cache_lock = None
    /\ \E S \in Batches :
        /\ history_items' = [history_items EXCEPT ![s] = S]
        /\ queued' = [i \in Items |-> IF i \in S THEN queued[i] - 1 ELSE queued[i]]
        /\ \E place \in IF S # {} THEN {IF Server THEN "lock" ELSE "get"}
                        ELSE IF Server THEN {"timers"} ELSE RoundEnd(s, FALSE, FALSE) :
              Proceed(s, place)
    /\ UNCHANGED <<values, status, history_num, pvars, history, triggerids, tvars, hvars>>

(* The triggers to be locked for an item: none for a value without data. *)
LockedFor(i) == IF TailOf(i).novalue THEN {} ELSE TriggersOf[i]

(* The items A of those taken by a syncer that become available: in the    *)
(* order of their oldest values, each unless one of its triggers is locked *)
(* already, by another process or for an item before it.                   *)
AvailableIgnoringOwn(s, A) ==
    A = {i \in history_items[s] : LockedFor(i) \cap locked = {}}

Available(s, A) ==
    /\ \A i \in A : LockedFor(i) \cap locked = {}
    /\ \A i, j \in A : i # j => LockedFor(i) \cap LockedFor(j) = {}
    /\ \A i \in history_items[s] \ A :
          \/ LockedFor(i) \cap locked # {}
          \/ \E j \in A : TailOf(j).ts <= TailOf(i).ts /\ LockedFor(i) \cap LockedFor(j) # {}

DCconfig_lock_triggers_by_history_items(s) ==
    /\ In(s, "lock")
    /\ \E A \in SUBSET history_items[s] :
        /\ Available(s, A)
        /\ status' = [i \in Items |-> IF i \in history_items[s] \ A THEN "BUSY" ELSE status[i]]
        /\ triggerids' = [triggerids EXCEPT ![s] = UNION {LockedFor(i) : i \in A}]
        /\ locked' = locked \cup triggerids'[s]
        /\ Proceed(s, IF A = {} THEN "busy" ELSE "get")
    /\ UNCHANGED <<values, queued, history_num, pvars, history_items, history, timer_queue,
                   due, ticks, stopping, hvars>>

PushedBusyToo(s) ==
    [i \in Items |-> IF i \in history_items[s] THEN Tail(values[i]) ELSE values[i]]

(* The items a syncer has taken after hc_push_items: a busy one as it was, *)
(* another without its oldest value, which is the last one if the item is  *)
(* not queued again.                                                       *)
PushedValues(s) ==
    [i \in Items |-> IF i \in history_items[s] /\ status[i] = "NORMAL"
                     THEN Tail(values[i]) ELSE values[i]]

PushedBusyLost(s) ==
    [i \in Items |-> IF i \in history_items[s] /\ status[i] = "NORMAL" /\ Len(values[i]) > 1
                     THEN queued[i] + 1 ELSE queued[i]]

PushedQueue(s) ==
    [i \in Items |-> IF i \in history_items[s] /\ (status[i] = "BUSY" \/ Len(values[i]) > 1)
                     THEN queued[i] + 1 ELSE queued[i]]

hc_push_items(s) ==
    /\ cache_lock = None
    /\ values' = PushedValues(s)
    /\ queued' = PushedQueue(s)
    /\ status' = [i \in Items |-> IF i \in history_items[s] THEN "NORMAL" ELSE status[i]]
    /\ history_items' = [history_items EXCEPT ![s] = {}]

(* All items were busy. *)
push_busy(s) ==
    /\ In(s, "busy")
    /\ hc_push_items(s)
    /\ Proceed(s, "timers")
    /\ UNCHANGED <<history_num, pvars, history, triggerids, tvars, hvars>>

(* The values are copied, without the cache mutex. *)
hc_get_item_values(s) ==
    /\ In(s, "get")
    /\ history' = [history EXCEPT ![s] =
          {<<i, TailOf(i)>> : i \in {j \in history_items[s] : status[j] = "NORMAL"}}]
    /\ Proceed(s, "write")
    /\ UNCHANGED <<cvars, pvars, history_items, triggerids, tvars, hvars>>

SyncedData(s, i) == (CHOOSE h \in history[s] : h[1] = i)[2]
SyncedItems(s) == {h[1] : h \in history[s]}

Processed(s) ==
    [i \in Items |-> IF i \in SyncedItems(s) THEN Append(processed[i], SyncedData(s, i).n)
                     ELSE processed[i]]

(* The values are written and their metadata goes to the configuration     *)
(* cache.  A database that is down is retried until it is up.              *)
write_history(s) ==
    /\ In(s, "write")
    /\ processed' = Processed(s)
    /\ storedmeta' = [i \in Items |->
          IF i \in SyncedItems(s) /\ SyncedData(s, i).meta # 0 THEN SyncedData(s, i).meta
          ELSE storedmeta[i]]
    /\ Proceed(s, IF Server THEN "timers" ELSE "push")
    /\ UNCHANGED <<cvars, pvars, history_items, history, triggerids, tvars, given, accepted,
                   lastmeta, failed>>

(* On the server writing may fail for good: the values are given up. *)
write_failed(s) ==
    /\ In(s, "write") /\ Server
    /\ \E h \in history[s] : ~h[2].novalue
    /\ processed' = Processed(s)
    /\ failed' = failed \cup SyncedItems(s)
    /\ Proceed(s, "unlock")
    /\ UNCHANGED <<cvars, pvars, history_items, history, triggerids, tvars, given, accepted,
                   lastmeta, storedmeta>>

(* Timer triggers whose time has come are rescheduled, and the unlocked    *)
(* ones processed.                                                         *)
TimersLockedToo(s) ==
    /\ In(s, "timers")
    /\ triggerids' = [triggerids EXCEPT ![s] = @ \cup due]
    /\ locked' = locked \cup due
    /\ due' = {}
    /\ Proceed(s, "unlock")
    /\ UNCHANGED <<cvars, pvars, history_items, history, timer_queue, ticks, stopping, hvars>>

zbx_dc_get_timer_triggerids(s) ==
    /\ In(s, "timers")
    /\ triggerids' = [triggerids EXCEPT ![s] = @ \cup (due \ locked)]
    /\ locked' = locked \cup due
    /\ due' = {}
    /\ Proceed(s, "unlock")
    /\ UNCHANGED <<cvars, pvars, history_items, history, timer_queue, ticks, stopping, hvars>>

(* After recalculate_triggers: the triggers are unlocked. *)
DCconfig_unlock_triggers(s) ==
    /\ In(s, "unlock")
    /\ locked' = locked \ triggerids[s]
    /\ triggerids' = [triggerids EXCEPT ![s] = {}]
    /\ \E place \in IF history[s] = {} THEN RoundEnd(s, InQueue # {}, FALSE) ELSE {"push"} :
          Proceed(s, place)
    /\ UNCHANGED <<cvars, pvars, history_items, history, timer_queue, due, ticks, stopping,
                   hvars>>

(* The items are pushed back.  The syncer goes on if there are more and at *)
(* least a tenth of the items it took could be processed.                  *)
push_items(s) ==
    /\ In(s, "push")
    /\ hc_push_items(s)
    /\ history_num' = history_num - Cardinality(history[s])
    /\ history' = [history EXCEPT ![s] = {}]
    /\ LET left == \E i \in Items : PushedQueue(s)[i] > 0
           more == left /\ (10 * Cardinality(history[s]) >= Cardinality(history_items[s])
                            \/ ~Server)
       IN  \E place \in RoundEnd(s, left, more) : Proceed(s, place)
    /\ UNCHANGED <<pvars, triggerids, tvars, hvars>>

-------------------------------------------------------------------------------
(* The environment: time passes, the server is stopped. *)
timer_due(t) ==
    /\ ticks < MaxTicks /\ t \in timer_queue
    /\ ticks' = ticks + 1
    /\ due' = due \cup {t}
    /\ UNCHANGED <<cvars, pvars, svars, locked, timer_queue, stopping, hvars>>

stop ==
    /\ ~stopping
    /\ stopping' = TRUE
    /\ UNCHANGED <<cvars, pvars, svars, locked, timer_queue, due, ticks, hvars>>

(* The main process: when the syncers are gone the other processes are     *)
(* killed wherever they are and locks are disabled, then all items are     *)
(* queued again.                                                           *)
sync_history_cache_full ==
    /\ In(Main, "main") /\ stopping
    /\ \A s \in Syncers \ {Main} : In(s, "gone")
    /\ producer' = [p \in Producers |-> "dead"]
    /\ cache_lock' = None
    /\ locked' = {} /\ timer_queue' = {} /\ due' = {}
    /\ status' = [i \in Items |-> "NORMAL"]
    /\ queued' = [i \in Items |-> IF values[i] # <<>> THEN 1 ELSE 0]
    /\ Proceed(Main, IF \E i \in Items : queued'[i] > 0 THEN "pop" ELSE "gone")
    /\ UNCHANGED <<values, history_num, item_values, values_num, found,
                   history_items, history, triggerids, ticks, stopping, hvars>>

-------------------------------------------------------------------------------
LocalBatches == UNION {[1..n -> ItemValue] : n \in 1..LocalMax}

Flush(p) ==
    \/ flush_begin(p) \/ flush_end(p) \/ merge_metadata(p) \/ hc_get_item(p)
    \/ hc_add_item_value(p) \/ cache_full(p) \/ wait_end(p)

Sync(s) ==
    \/ hc_pop_items(s) \/ DCconfig_lock_triggers_by_history_items(s) \/ push_busy(s)
    \/ hc_get_item_values(s) \/ write_history(s) \/ write_failed(s)
    \/ zbx_dc_get_timer_triggerids(s) \/ DCconfig_unlock_triggers(s) \/ push_items(s)
    \/ zbx_sync_history_cache(s)

Next ==
    \/ \E p \in Producers : Flush(p) \/ \E batch \in LocalBatches : dc_add_history(p, batch)
    \/ \E s \in Syncers : Sync(s)
    \/ \E t \in Timers : timer_due(t)
    \/ stop
    \/ sync_history_cache_full

Spec == Init /\ [][Next]_vars

(* Processes run, a database that is down comes back, and the main process *)
(* goes on once the syncers are gone.  Nobody has to collect values or to  *)
(* stop the server.                                                        *)
Fairness ==
    /\ \A p \in Producers : WF_vars(Flush(p))
    /\ \A s \in Syncers : WF_vars(Sync(s))
    /\ WF_vars(sync_history_cache_full)

FairSpec == Spec /\ Fairness
-------------------------------------------------------------------------------
(* Properties. *)

(* The variables have their types. *)
TypeOK ==
    /\ values \in [Items -> Seq(Data)]
    /\ status \in [Items -> {"NORMAL", "BUSY"}]
    /\ queued \in [Items -> Nat]
    /\ history_num \in Int
    /\ cache_lock \in Producers \cup {None}
    /\ item_values \in [Producers -> Seq(ItemValue)]
    /\ values_num \in [Producers -> Nat]
    /\ found \in [Producers -> BOOLEAN]
    /\ producer \in [Producers -> {"idle", "flush", "next", "clone", "wait", "dead"}]
    /\ history_items \in [Syncers -> SUBSET Items]
    /\ history \in [Syncers -> SUBSET (Items \X Data)]
    /\ triggerids \in [Syncers -> SUBSET Triggers]
    /\ syncer \in [Syncers -> {"main", "pop", "lock", "busy", "get", "write", "timers",
                               "unlock", "push", "idle", "gone"}]
    /\ locked \subseteq Triggers /\ timer_queue \subseteq Timers /\ due \subseteq Timers
    /\ ticks \in Nat /\ stopping \in BOOLEAN
    /\ given \in Nat
    /\ {accepted, processed} \subseteq [Items -> Seq(Nat)]
    /\ {lastmeta, storedmeta} \subseteq [Items -> Nat]
    /\ failed \subseteq Items

(* An item with values is in the history queue once or held by one syncer, *)
(* and an item without values is neither: no value is ever forgotten in    *)
(* the cache, and no syncer uses an item that was removed (hc_pop_items,   *)
(* hc_push_items, and hc_add_item_values after a wait).                    *)
ItemOwnedOnce ==
    \A i \in Items :
        /\ queued[i] = IF values[i] # <<>> /\ (\A s \in Syncers : i \notin history_items[s])
                       THEN 1 ELSE 0
        /\ \A s \in Syncers : i \in history_items[s] =>
              values[i] # <<>> /\ \A r \in Syncers \ {s} : i \notin history_items[r]

(* "No other processes can change item's history data until it is pushed   *)
(* back to history queue": what a syncer copied without the mutex is still *)
(* the oldest value of the item when it is removed.                        *)
TailStable ==
    \A s \in Syncers : \A h \in history[s] :
        /\ h[1] \in history_items[s] /\ status[h[1]] = "NORMAL"
        /\ values[h[1]] # <<>> /\ TailOf(h[1]) = h[2]

(* A trigger is processed by one process at a time, and is locked while it *)
(* is.                                                                     *)
TriggerExclusive ==
    /\ locked = UNION {triggerids[s] : s \in Syncers}
    /\ \A r, s \in Syncers : r # s => triggerids[r] \cap triggerids[s] = {}

(* Syncer s works on the values it copied and their triggers. *)
Working(s) == syncer[s] \in {"write", "timers", "unlock"}

(* Values of items that have a trigger in common are never worked on at    *)
(* the same time, by two syncers or by one: the trigger is evaluated for   *)
(* one after the other (DCconfig_lock_triggers_by_history_items).          *)
TriggersSerial ==
    Server => \A r, s \in Syncers : Working(r) /\ Working(s) =>
        \A g \in history[r], h \in history[s] :
            <<r, g>> = <<s, h>> \/ g[2].novalue \/ h[2].novalue
              \/ TriggersOf[g[1]] \cap TriggersOf[h[1]] = {}

(* The values of item i that are in the cache and not processed yet. *)
Unprocessed(i) ==
    IF \E s \in Syncers : In(s, "write") = FALSE /\ i \in SyncedItems(s)
    THEN Tail(values[i]) ELSE values[i]

(* Each item's values are processed once, in the order they were added. *)
ProcessedInOrder ==
    \A i \in Items :
        LET rest == Unprocessed(i)
        IN  accepted[i] = processed[i] \o [k \in DOMAIN rest |-> rest[k].n]

(* The newest metadata of an item is stored or with a value in the cache,  *)
(* unless a failed write gave it up.                                       *)
MetadataKept ==
    \A i \in Items \ failed :
        \/ storedmeta[i] = lastmeta[i]
        \/ \E k \in DOMAIN values[i] : values[i][k].meta = lastmeta[i]

(* Stored metadata never goes back to an older state of the log file. *)
MetadataForward == [][\A i \in Items : storedmeta'[i] >= storedmeta[i]]_storedmeta

(* The program ends with an empty cache (sync_history_cache_full). *)
NothingLeft == In(Main, "gone") => \A i \in Items : values[i] = <<>>

(* A producer that waits for space gets on, unless the server stops. *)
ProducerProceeds ==
    \A p \in Producers : producer[p] = "wait" ~> producer[p] # "wait"

(* Every value put into the cache is processed, by a syncer or at exit. *)
EveryValueProcessed ==
    \A i \in Items : \A n \in 1..MaxValues :
        Len(accepted[i]) >= n ~> Len(processed[i]) >= n

(* When the server is stopped the main process comes to its end. *)
StopEnds == stopping ~> In(Main, "gone")

-------------------------------------------------------------------------------
(* The inductive invariant behind the safety properties. *)

(* A producer holds the cache mutex while it adds values, has a value left *)
(* while it clones one or waits, and knows whether its item exists.        *)
ProducersInStep ==
    \A p \in Producers :
        /\ producer[p] \in {"next", "clone"} <=> cache_lock = p
        /\ producer[p] \in {"clone", "wait"} => item_values[p] # <<>>
        /\ producer[p] = "clone" => (found[p] <=> values[NextItem(p)] # <<>>)

Resting == {"main", "idle", "pop", "gone"}

(* What a syncer holds at each place of its loop. *)
InStep(s) ==
    /\ syncer[s] \in Resting => history_items[s] = {}
    /\ syncer[s] \in Resting \cup {"lock", "busy", "get"} => history[s] = {}
    /\ syncer[s] \in Resting \cup {"lock", "busy", "push"} \/ ~Server => triggerids[s] = {}
    /\ syncer[s] = "lock" => \A i \in history_items[s] : status[i] = "NORMAL"
    /\ syncer[s] = "get" => \E i \in history_items[s] : status[i] = "NORMAL"
    /\ syncer[s] = "write" => history[s] # {}
    /\ syncer[s] \in {"timers", "unlock"} /\ history[s] = {} => history_items[s] = {}
    /\ ~Server => syncer[s] \notin {"lock", "busy", "timers", "unlock"}
    /\ IsFiniteSet(history[s])

SyncersInStep == \A s \in Syncers : InStep(s)

BusyHeld == \A i \in Items : status[i] = "BUSY" => \E s \in Syncers : i \in history_items[s]

(* The items whose values syncer s processes or is about to. *)
Taken(s) == {i \in history_items[s] : status[i] = "NORMAL"}

(* A syncer holds the lock of every trigger of the values it processes,    *)
(* and took each for one of them.                                          *)
LocksTaken(s) ==
    Server /\ syncer[s] \in {"get", "write", "timers", "unlock"} =>
        \A i \in Taken(s) :
            /\ LockedFor(i) \subseteq triggerids[s]
            /\ \A j \in Taken(s) : i # j => LockedFor(i) \cap LockedFor(j) = {}

TriggersTaken == \A s \in Syncers : LocksTaken(s)

IInv ==
    /\ TypeOK
    /\ ItemOwnedOnce
    /\ ProducersInStep
    /\ SyncersInStep
    /\ BusyHeld
    /\ TailStable
    /\ TriggerExclusive
    /\ TriggersTaken

(* The data behind the invariant: the values r of an item that are not     *)
(* processed yet follow the values p in the list a of all of them, and the *)
(* metadata they carry is newer than what is stored (s), grows from value  *)
(* to value, and ends, if it is kept, with the newest (l).                 *)
Follows(a, p, r) ==
    /\ Len(a) = Len(p) + Len(r)
    /\ \A k \in 1..Len(p) : a[k] = p[k]
    /\ \A k \in 1..Len(r) : a[Len(p) + k] = r[k].n

MetadataOrdered(r, s, l) ==
    /\ s <= l
    /\ \A k \in 1..Len(r) : r[k].meta # 0 => s < r[k].meta /\ r[k].meta <= l
    /\ \A j, k \in 1..Len(r) : j < k /\ r[j].meta # 0 /\ r[k].meta # 0 => r[j].meta < r[k].meta

MetadataHeld(r, s, l) == s = l \/ \E k \in 1..Len(r) : r[k].meta = l

Consistent(a, p, r, s, l, kept) ==
    /\ Follows(a, p, r)
    /\ MetadataOrdered(r, s, l)
    /\ kept => MetadataHeld(r, s, l)

DataInv ==
    \A i \in Items :
        Consistent(accepted[i], processed[i], Unprocessed(i), storedmeta[i], lastmeta[i],
                   i \notin failed)

(* The items that a syncer returns without their oldest values are those   *)
(* whose values it copied.                                                 *)
CopiedAll(s) ==
    syncer[s] \in {"busy", "write", "timers", "unlock", "push"} => Taken(s) \subseteq SyncedItems(s)

AllCopied == \A s \in Syncers : CopiedAll(s)

(* Once the main process syncs it is the only one left, and it ends with   *)
(* an empty cache.                                                         *)
MainAlone ==
    /\ syncer[Main] # "main" =>
          /\ \A p \in Producers : producer[p] = "dead"
          /\ \A s \in Syncers \ {Main} : syncer[s] = "gone"
    /\ syncer[Main] # "idle"
    /\ NothingLeft
==============================================================================
