---------------------------- MODULE AlertManager -----------------------------
(***************************************************************************)
(* How alerts are sent: the alert manager (zabbix_server/alerter/          *)
(* alert_manager.c), the alert syncer that moves alerts and their results  *)
(* between the database and the manager (alert_syncer.c), the alerters     *)
(* that send them (alerter.c) and trappers that test media types.          *)
(*                                                                         *)
(* The manager has three levels of queues: media types, which limit the    *)
(* alerts sent at the same time, alert pools of a media type, whose alerts *)
(* are sent one after the other, and alerts, ordered by the time at which  *)
(* they are due.  An object is in the queue above it only while there is   *)
(* something below that may be sent.  Which of the alerts that are due is  *)
(* the first is left open.                                                 *)
(***************************************************************************)
EXTENDS Integers, Sequences, FiniteSets

CONSTANTS
    MediaTypes,
    Pools,          \* alert pools: sources of alerts
    DbAlerts,       \* alerts of the alerts table
    External,       \* requests to test a media type
    Watchdog,       \* alerts the manager makes up when the database is down
    MediaType,      \* MediaType[a]: the media type of alert a
    Pool,           \* Pool[a]: its pool; that of an external alert is its own
    Settings,       \* what a media type may be set to
    Recipients,     \* media types of the recipients of watchdog alerts
    Alerters,       \* number of alerters
    Modulus,        \* of the unsigned counter of alerts, 2^64
    MaxRestarts,    \* bound: restarts of the server
    MaxChanges      \* bound: changes of media types

Alerts == DbAlerts \cup External \cup Watchdog

(* maxsessions = 0: no limit.  error: the settings are not valid.          *)
ASSUME AlertAssumption ==
    /\ IsFiniteSet(Alerts) /\ DbAlerts \subseteq Nat
    /\ DbAlerts \cap External = {} /\ Watchdog \cap (DbAlerts \cup External) = {}
    /\ \A a \in Alerts : MediaType[a] \in MediaTypes /\ Pool[a] \in Pools
    /\ \A a, b \in Alerts : a \in External /\ Pool[a] = Pool[b] => a = b
    /\ Settings \subseteq [maxsessions : Nat, maxattempts : Nat \ {0}, error : BOOLEAN]
    /\ Recipients \subseteq MediaTypes
    /\ Alerters \in Nat \ {0} /\ Modulus \in Nat \ {0} /\ MaxRestarts \in Nat /\ MaxChanges \in Nat

VARIABLES
    mediatypes,     \* manager->mediatypes
    alertpools,     \* manager->alertpools; an absent pool is an empty one
    queue,          \* manager->queue: the media types in it
    alerts_num,     \* manager->alerts_num
    due,            \* alerts whose nextsend has come
    retries,        \* retries[a]: failed attempts
    sending,        \* sending[a]: what an alerter does with a
    free,           \* length of manager->free_alerters
    unregistered,   \* alerters that have not connected yet
    results,        \* manager->results
    watchdog,       \* manager->watchdog
    inbox,          \* messages of the syncer to the manager
    syncer,         \* where the loop of the syncer is
    status_limit,   \* whether the syncer takes alerts that are not sent, too
    cache,          \* amdb->mediatypes
    answer,         \* results on their way to the syncer
    db,             \* the alerts table
    config,         \* the media_type table
    test,           \* test[x]: the state of external request x
    made,           \* watchdog alerts made so far
    delivered,      \* delivered[a]: how often a reached its recipient
    restarts, changes

managerVars == <<mediatypes, alertpools, queue, alerts_num, due, retries, results, watchdog>>
alerterVars == <<sending, free, unregistered>>
syncerVars == <<syncer, status_limit, cache>>
vars == <<managerVars, alerterVars, syncerVars, inbox, answer, db, config, test, made,
          delivered, restarts, changes>>

NoSettings == [maxsessions |-> 0, maxattempts |-> 0, error |-> TRUE]
NoMediatypes == [m \in MediaTypes |-> NoSettings]

Absent == [exists |-> FALSE, remove |-> FALSE, settings |-> NoSettings, alerts_num |-> 0,
           refcount |-> 0, queue |-> {}]
NoPool == [alerts_num |-> 0, refcount |-> 0, queue |-> {}]
NoResult == [status |-> "none", retries |-> 0]
NoTest == [state |-> "none", settings |-> NoSettings]

(* A message to the manager: media types with their settings or, in        *)
(* DROP and WATCHDOG, just which ones (ids), or alerts.                     *)
Message(type, settings, ids) == [type |-> type, settings |-> settings, ids |-> ids]

AllSettings == Settings \cup {NoSettings}
MediaTypeRecord == [exists : BOOLEAN, remove : BOOLEAN, settings : AllSettings, alerts_num : Nat,
                    refcount : Nat, queue : SUBSET Pools]
PoolRecord == [alerts_num : Nat, refcount : Nat, queue : SUBSET Alerts]
ResultRecord == [status : {"none", "NOT_SENT", "SENT", "FAILED"}, retries : Nat]
AlertRecord == [status : {"none", "NEW", "NOT_SENT", "SENT", "FAILED"}, retries : Nat]
TestRecord == [state : {"none", "requested", "pending", "answered"}, settings : AllSettings]
MessageOf(types, ids) == [type : types, settings : [MediaTypes -> AllSettings], ids : ids]
MessageRecord == MessageOf({"MEDIATYPES", "RESULTS"}, {{}}) \cup MessageOf({"ALERTS"}, SUBSET DbAlerts)
                 \cup MessageOf({"DROP", "WATCHDOG"}, SUBSET MediaTypes)

TypeOK ==
    /\ mediatypes \in [MediaTypes -> MediaTypeRecord]
    /\ alertpools \in [MediaTypes -> [Pools -> PoolRecord]]
    /\ queue \subseteq MediaTypes /\ watchdog \subseteq MediaTypes
    /\ alerts_num \in 0..(Modulus - 1) /\ due \subseteq Alerts
    /\ retries \in [Alerts -> Nat]
    /\ sending \in [Alerts -> {"no", "sending", "sent", "failed"}]
    /\ free \in 0..Alerters /\ unregistered \in 0..Alerters
    /\ results \in [DbAlerts -> ResultRecord] /\ answer \in [DbAlerts -> ResultRecord]
    /\ syncer \in {"queue", "wait", "answered", "cleanup"} /\ status_limit \in {1, 2}
    /\ inbox \in Seq(MessageRecord)
    /\ cache \in [MediaTypes -> AllSettings] /\ config \in [MediaTypes -> Settings]
    /\ db \in [DbAlerts -> AlertRecord] /\ test \in [External -> TestRecord]
    /\ made \subseteq Watchdog
    /\ delivered \in [DbAlerts -> Nat] /\ restarts \in 0..MaxRestarts /\ changes \in 0..MaxChanges

NoPools == [m \in MediaTypes |-> [p \in Pools |-> NoPool]]
NoResults == [a \in DbAlerts |-> NoResult]

Init ==
    /\ mediatypes = [m \in MediaTypes |-> Absent] /\ alertpools = NoPools
    /\ queue = {} /\ alerts_num = 0 /\ due = {} /\ retries = [a \in Alerts |-> 0]
    /\ results = NoResults /\ watchdog = {}
    /\ sending = [a \in Alerts |-> "no"] /\ free = 0 /\ unregistered = Alerters
    /\ inbox = <<>> /\ answer = NoResults
    /\ syncer = "queue" /\ status_limit = 2 /\ cache = NoMediatypes
    /\ db = NoResults /\ config \in [MediaTypes -> Settings]
    /\ test = [x \in External |-> NoTest] /\ made = {}
    /\ delivered = [a \in DbAlerts |-> 0] /\ restarts = 0 /\ changes = 0

------------------------------------------------------------------------------
(* The queues of the manager.  s holds the media types, the alert pools    *)
(* and the queue of media types.                                           *)

Queues == [mt |-> mediatypes, ap |-> alertpools, q |-> queue]
Become(s) == mediatypes' = s.mt /\ alertpools' = s.ap /\ queue' = s.q

Room(t) == t.settings.maxsessions = 0 \/ t.alerts_num < t.settings.maxsessions

PushMediatype(s, m) ==
    IF s.mt[m].queue # {} /\ Room(s.mt[m]) THEN [s EXCEPT !.q = @ \cup {m}] ELSE s

(* Mutant: a pool is queued while one of its alerts is being sent. *)
PoolAlwaysReady(pool) == TRUE

PoolReady(pool) == pool.alerts_num = 0

PushAlertpool(s, m, p) ==
    IF PoolReady(s.ap[m][p]) THEN [s EXCEPT !.mt[m].queue = @ \cup {p}] ELSE s

(* Mutant: the remove flag stays. *)
UpdateMediatypeFlagKept(s, m, settings, remove) ==
    [s EXCEPT !.mt[m] = IF @.exists THEN [@ EXCEPT !.settings = settings]
                        ELSE [Absent EXCEPT !.exists = TRUE, !.remove = remove, !.settings = settings]]

(* am_update_mediatype: a media type that exists loses its remove flag. *)
UpdateMediatype(s, m, settings, remove) ==
    [s EXCEPT !.mt[m] = IF @.exists THEN [@ EXCEPT !.remove = FALSE, !.settings = settings]
                        ELSE [Absent EXCEPT !.exists = TRUE, !.remove = remove, !.settings = settings]]

(* Alerts A of media types that exist become part of the queues; new pools *)
(* are made for them.                                                      *)
AddAlerts(s, A) ==
    LET of(m) == {a \in A : MediaType[a] = m}
        in(m, p) == {a \in of(m) : Pool[a] = p}
        t == [s EXCEPT
                !.ap = [m \in MediaTypes |-> [p \in Pools |->
                          [s.ap[m][p] EXCEPT !.refcount = @ + Cardinality(in(m, p)),
                                             !.queue = @ \cup in(m, p)]]],
                !.mt = [m \in MediaTypes |->
                          [s.mt[m] EXCEPT !.refcount = @ + Cardinality(of(m)),
                             !.queue = @ \cup {p \in Pools : in(m, p) # {} /\ PoolReady(s.ap[m][p])}]]]
    IN [t EXCEPT !.q = @ \cup {m \in MediaTypes : of(m) # {} /\ t.mt[m].queue # {} /\ Room(t.mt[m])}]

(* am_pop_alert, if a is the first alert. *)
PopAlert(s, a) ==
    LET m == MediaType[a]
        p == Pool[a]
    IN PushMediatype([s EXCEPT !.q = @ \ {m},
                         !.mt[m].queue = @ \ {p}, !.mt[m].alerts_num = @ + 1,
                         !.ap[m][p].queue = @ \ {a}, !.ap[m][p].alerts_num = @ + 1], m)

(* am_remove_alert: the last alert removes its pool and perhaps its media  *)
(* type.                                                                   *)
RemoveAlert(s, a) ==
    LET m == MediaType[a]
        p == Pool[a]
        t == [s EXCEPT !.mt[m].alerts_num = @ - 1, !.mt[m].refcount = @ - 1,
                       !.ap[m][p].alerts_num = @ - 1, !.ap[m][p].refcount = @ - 1]
        u == IF t.ap[m][p].refcount = 0 THEN [t EXCEPT !.ap[m][p] = NoPool] ELSE PushAlertpool(t, m, p)
    IN IF u.mt[m].refcount # 0 THEN PushMediatype(u, m)
       ELSE IF u.mt[m].remove THEN [u EXCEPT !.mt[m] = Absent] ELSE u

(* Mutant: the media type of a retried alert is not queued again. *)
RetryAlertNotQueued(s, a) ==
    LET m == MediaType[a]
        p == Pool[a]
        t == [s EXCEPT !.mt[m].alerts_num = @ - 1, !.ap[m][p].alerts_num = @ - 1,
                       !.ap[m][p].queue = @ \cup {a}]
    IN PushAlertpool(t, m, p)

(* am_retry_alert, if there are attempts left. *)
RetryAlert(s, a) ==
    LET m == MediaType[a]
        p == Pool[a]
        t == [s EXCEPT !.mt[m].alerts_num = @ - 1, !.ap[m][p].alerts_num = @ - 1,
                       !.ap[m][p].queue = @ \cup {a}]
    IN PushMediatype(PushAlertpool(t, m, p), m)

(* Alerts that may be popped. *)
Sendable == {a \in due : /\ MediaType[a] \in queue
                         /\ Pool[a] \in mediatypes[MediaType[a]].queue
                         /\ a \in alertpools[MediaType[a]][Pool[a]].queue}

(* Mutant: the counter is a signed number. *)
CountSigned(n) == n

(* manager->alerts_num is unsigned. *)
Count(n) == n % Modulus

(* Messages are handled when nothing more can be dispatched. *)
Dispatched == free = 0 \/ Sendable = {}

(* am_db_update_alert, or the answer to an external request. *)
Report(a, status, n) ==
    /\ results' = IF a \in DbAlerts THEN [results EXCEPT ![a] = [status |-> status, retries |-> n]]
                  ELSE results
    /\ test' = IF a \in External THEN [test EXCEPT ![a].state = "answered"] ELSE test

------------------------------------------------------------------------------
(* The loop of the manager: read the time, queue watchdog alerts, dispatch *)
(* what is due, handle a message.  Once an hour media types that are to be *)
(* removed and not used are looked for; CountersExact shows that there are *)
(* none.                                                                   *)

(* The time is read: an alert that failed before has become due. *)
Ripen(a) ==
    /\ a \in alertpools[MediaType[a]][Pool[a]].queue \ due
    /\ due' = due \cup {a}
    /\ UNCHANGED <<mediatypes, alertpools, queue, alerts_num, retries, results, watchdog, alerterVars,
                   syncerVars, inbox, answer, db, config, test, made, delivered, restarts, changes>>

(* am_queue_watchdog_alerts, if the database is down: an alert for every   *)
(* recipient whose media type is known.                                    *)
QueueWatchdogAlerts ==
    LET W == {w \in Watchdog \ made : MediaType[w] \in watchdog /\ mediatypes[MediaType[w]].exists}
    IN /\ W # {}
       /\ Become(AddAlerts(Queues, W))
       /\ due' = due \cup W /\ made' = made \cup W
       /\ UNCHANGED <<alerts_num, retries, results, watchdog, alerterVars, syncerVars, inbox, answer,
                      db, config, test, delivered, restarts, changes>>

(* am_process_alert: the alert is given to an alerter, or fails at once if *)
(* the media type is not valid or the command cannot be prepared.          *)
Dispatch(a, prepared) ==
    LET s == PopAlert(Queues, a)
    IN /\ free > 0 /\ a \in Sendable
       /\ due' = due \ {a}
       /\ IF prepared /\ ~mediatypes[MediaType[a]].settings.error
          THEN /\ Become(s)
               /\ sending' = [sending EXCEPT ![a] = "sending"] /\ free' = free - 1
               /\ UNCHANGED <<alerts_num, results, test>>
          ELSE /\ Become(RemoveAlert(s, a))
               /\ Report(a, "FAILED", 0)
               /\ alerts_num' = Count(alerts_num - 1)
               /\ UNCHANGED <<sending, free>>
       /\ UNCHANGED <<retries, watchdog, unregistered, syncerVars, inbox, answer, db, config,
                      made, delivered, restarts, changes>>

(* am_register_alerter *)
Register ==
    /\ Dispatched
    /\ unregistered > 0 /\ unregistered' = unregistered - 1 /\ free' = free + 1
    /\ UNCHANGED <<managerVars, sending, syncerVars, inbox, answer, db, config, test, made, delivered,
                   restarts, changes>>

(* am_process_result, with the media type's current number of attempts. *)
ProcessResult(a) ==
    LET again == /\ sending[a] = "failed" /\ a \notin External
                 /\ retries[a] + 1 < mediatypes[MediaType[a]].settings.maxattempts
        n == IF sending[a] = "failed" THEN retries[a] + 1 ELSE retries[a]
        status == CASE sending[a] = "sent" -> "SENT" [] again -> "NOT_SENT" [] OTHER -> "FAILED"
    IN /\ Dispatched
       /\ sending[a] \in {"sent", "failed"}
       /\ Become(IF again THEN RetryAlert(Queues, a) ELSE RemoveAlert(Queues, a))
       /\ alerts_num' = IF again THEN alerts_num ELSE Count(alerts_num - 1)
       /\ retries' = [retries EXCEPT ![a] = IF again THEN n ELSE 0]
       /\ Report(a, status, n)
       /\ sending' = [sending EXCEPT ![a] = "no"] /\ free' = free + 1
       /\ UNCHANGED <<due, watchdog, unregistered, syncerVars, inbox, answer, db, config, made, delivered,
                      restarts, changes>>

(* am_process_external_alert_request: a media type that is not known is    *)
(* created to be removed again.                                            *)
ProcessExternal(x) ==
    /\ Dispatched
    /\ test[x].state = "requested" /\ test' = [test EXCEPT ![x] = [NoTest EXCEPT !.state = "pending"]]
    /\ Become(AddAlerts(UpdateMediatype(Queues, MediaType[x], test[x].settings, TRUE), {x}))
    /\ alerts_num' = Count(alerts_num + 1) /\ due' = due \cup {x}
    /\ UNCHANGED <<retries, results, watchdog, alerterVars, syncerVars, inbox, answer, db, config, made,
                   delivered, restarts, changes>>

(* am_update_mediatypes *)
ProcessMediatypes(msg) ==
    /\ msg.type = "MEDIATYPES"
    /\ mediatypes' = [m \in MediaTypes |->
                        IF msg.settings[m] = NoSettings THEN mediatypes[m]
                        ELSE UpdateMediatype(Queues, m, msg.settings[m], FALSE).mt[m]]
    /\ UNCHANGED <<alertpools, queue, alerts_num, due, retries, results, watchdog, answer>>

(* am_queue_alerts: alerts of media types that are not known are dropped.  *)
(* The number of retries is the one the syncer has read.                   *)
ProcessAlerts(msg) ==
    LET A == {a \in msg.ids : mediatypes[MediaType[a]].exists}
    IN /\ msg.type = "ALERTS"
       /\ Become(AddAlerts(Queues, A))
       /\ alerts_num' = Count(alerts_num + Cardinality(A)) /\ due' = due \cup A
       /\ retries' = [a \in Alerts |-> IF a \in A THEN db[a].retries ELSE retries[a]]
       /\ UNCHANGED <<results, watchdog, answer>>

(* am_update_watchdog *)
ProcessWatchdog(msg) ==
    /\ msg.type = "WATCHDOG" /\ watchdog' = msg.ids
    /\ UNCHANGED <<mediatypes, alertpools, queue, alerts_num, due, retries, results, answer>>

(* Mutant: a media type is removed though alerts refer to it. *)
DroppedAlways(t) == Absent

Dropped(t) == IF t.refcount = 0 THEN Absent ELSE [t EXCEPT !.remove = TRUE]

(* am_drop_mediatypes *)
ProcessDrop(msg) ==
    /\ msg.type = "DROP"
    /\ mediatypes' = [m \in MediaTypes |->
                        IF m \in msg.ids /\ mediatypes[m].exists THEN Dropped(mediatypes[m])
                        ELSE mediatypes[m]]
    /\ UNCHANGED <<alertpools, queue, alerts_num, due, retries, results, watchdog, answer>>

(* am_flush_results *)
FlushResults(msg) ==
    /\ msg.type = "RESULTS"
    /\ answer' = results /\ results' = NoResults
    /\ UNCHANGED <<mediatypes, alertpools, queue, alerts_num, due, retries, watchdog>>

(* A message of the syncer. *)
ProcessSyncer ==
    /\ Dispatched /\ inbox # <<>> /\ inbox' = Tail(inbox)
    /\ LET msg == Head(inbox)
       IN \/ ProcessMediatypes(msg) \/ ProcessAlerts(msg) \/ ProcessWatchdog(msg)
          \/ ProcessDrop(msg) \/ FlushResults(msg)
    /\ syncer' = IF Head(inbox).type = "RESULTS" THEN "answered" ELSE syncer
    /\ UNCHANGED <<alerterVars, status_limit, cache, db, config, test, made, delivered, restarts, changes>>

------------------------------------------------------------------------------
(* An alerter *)

Deliver(a, ok) ==
    /\ sending[a] = "sending"
    /\ sending' = [sending EXCEPT ![a] = IF ok THEN "sent" ELSE "failed"]
    /\ delivered' = IF ok /\ a \in DbAlerts THEN [delivered EXCEPT ![a] = @ + 1] ELSE delivered
    /\ UNCHANGED <<managerVars, free, unregistered, syncerVars, inbox, answer, db, config, test, made,
                   restarts, changes>>

------------------------------------------------------------------------------
(* The syncer *)

(* am_db_update_mediatypes: the settings of media types M that differ from *)
(* the cached ones are sent.                                               *)
Cached(old, M) == [m \in MediaTypes |-> IF m \in M THEN config[m] ELSE old[m]]
Updates(old, M) ==
    LET new == Cached(old, M)
    IN IF new = old THEN <<>>
       ELSE <<Message("MEDIATYPES", [m \in MediaTypes |-> IF new[m] = old[m] THEN NoSettings ELSE new[m]], {})>>

(* Mutant: alerts not sent are read from the database every time. *)
LimitKept(ok) == status_limit

(* status_limit in am_db_get_alerts: alerts not sent are those of an       *)
(* earlier run of the server, and read once.                               *)
NextLimit(ok) == IF ok THEN 1 ELSE status_limit

(* am_db_queue_alerts: new alerts, and at first those not sent, are marked *)
(* in the database and sent to the manager, media types first; if the      *)
(* database fails nothing is done.  Then am_db_flush_results asks for      *)
(* results.                                                                *)
QueueAlerts(ok) ==
    LET A == {a \in DbAlerts : ok /\ \/ db[a].status = "NEW"
                                     \/ db[a].status = "NOT_SENT" /\ status_limit = 2}
        M == {MediaType[a] : a \in A}
    IN /\ syncer = "queue" /\ syncer' = "wait"
       /\ db' = [a \in DbAlerts |-> IF a \in A THEN [db[a] EXCEPT !.status = "NOT_SENT"] ELSE db[a]]
       /\ status_limit' = NextLimit(ok)
       /\ cache' = Cached(cache, M)
       /\ inbox' = inbox \o Updates(cache, M)
                         \o (IF A = {} THEN <<>> ELSE <<Message("ALERTS", NoMediatypes, A)>>)
                         \o <<Message("RESULTS", NoMediatypes, {})>>
       /\ UNCHANGED <<managerVars, alerterVars, answer, config, test, made, delivered, restarts, changes>>

(* The results are written, again and again until the transaction succeeds. *)
WriteResults ==
    /\ syncer = "answered" /\ syncer' = "cleanup"
    /\ db' = [a \in DbAlerts |-> IF answer[a] = NoResult THEN db[a] ELSE answer[a]]
    /\ answer' = NoResults
    /\ UNCHANGED <<managerVars, alerterVars, status_limit, cache, inbox, config, test, made, delivered,
                   restarts, changes>>

(* am_db_remove_expired_mediatypes drops media types not used for a day,   *)
(* am_db_update_watchdog sends the recipients of watchdog alerts; each is  *)
(* done from time to time.                                                 *)
Cleanup(expired, watch) ==
    LET kept == [m \in MediaTypes |-> IF m \in expired THEN NoSettings ELSE cache[m]]
        R == IF watch THEN Recipients ELSE {}
    IN /\ syncer = "cleanup" /\ syncer' = "queue"
       /\ \A m \in expired : cache[m] # NoSettings
       /\ cache' = Cached(kept, R)
       /\ inbox' = inbox \o (IF expired = {} THEN <<>> ELSE <<Message("DROP", NoMediatypes, expired)>>)
                         \o Updates(kept, R)
                         \o (IF watch THEN <<Message("WATCHDOG", NoMediatypes, R)>> ELSE <<>>)
       /\ UNCHANGED <<managerVars, alerterVars, status_limit, answer, db, config, test, made,
                      delivered, restarts, changes>>

------------------------------------------------------------------------------
(* The rest of the system *)

(* An escalation inserts an alert. *)
AddAlert(a) ==
    /\ db[a].status = "none" /\ \A b \in DbAlerts : b < a => db[b].status # "none"
    /\ db' = [db EXCEPT ![a].status = "NEW"]
    /\ UNCHANGED <<managerVars, alerterVars, syncerVars, inbox, answer, config, test, made, delivered,
                   restarts, changes>>

(* A trapper reads a media type and asks the manager to test it. *)
RequestTest(x) ==
    /\ test[x].state = "none"
    /\ test' = [test EXCEPT ![x] = [state |-> "requested", settings |-> config[MediaType[x]]]]
    /\ UNCHANGED <<managerVars, alerterVars, syncerVars, inbox, answer, db, config, made, delivered,
                   restarts, changes>>

ChangeMediatype(m) ==
    /\ changes < MaxChanges /\ changes' = changes + 1
    /\ \E s \in Settings \ {config[m]} : config' = [config EXCEPT ![m] = s]
    /\ UNCHANGED <<managerVars, alerterVars, syncerVars, inbox, answer, db, test, made, delivered,
                   restarts>>

(* The server is stopped and started; trappers lose their requests. *)
Restart ==
    /\ restarts < MaxRestarts /\ restarts' = restarts + 1
    /\ mediatypes' = [m \in MediaTypes |-> Absent] /\ alertpools' = NoPools
    /\ queue' = {} /\ alerts_num' = 0 /\ due' = {} /\ retries' = [a \in Alerts |-> 0]
    /\ results' = NoResults /\ watchdog' = {}
    /\ sending' = [a \in Alerts |-> "no"] /\ free' = 0 /\ unregistered' = Alerters
    /\ inbox' = <<>> /\ answer' = NoResults
    /\ syncer' = "queue" /\ status_limit' = 2 /\ cache' = NoMediatypes
    /\ test' = [x \in External |-> IF test[x].state = "none" THEN NoTest ELSE [NoTest EXCEPT !.state = "answered"]]
    /\ UNCHANGED <<db, config, made, delivered, changes>>

Manager ==
    \/ QueueWatchdogAlerts \/ Register \/ ProcessSyncer
    \/ \E a \in Alerts : Ripen(a) \/ ProcessResult(a) \/ \E prepared \in BOOLEAN : Dispatch(a, prepared)
    \/ \E x \in External : ProcessExternal(x)

Syncer ==
    \/ \E ok \in BOOLEAN : QueueAlerts(ok)
    \/ WriteResults
    \/ \E expired \in SUBSET MediaTypes, watch \in BOOLEAN : Cleanup(expired, watch)

Next ==
    \/ Manager \/ Syncer
    \/ \E a \in Alerts, ok \in BOOLEAN : Deliver(a, ok)
    \/ \E a \in DbAlerts : AddAlert(a)
    \/ \E x \in External : RequestTest(x)
    \/ \E m \in MediaTypes : ChangeMediatype(m)
    \/ Restart

Spec == Init /\ [][Next]_vars

(* The processes go on, time passes, the database comes back, and the      *)
(* messages of all clients of the manager are handled (the IPC service     *)
(* keeps its clients in a queue).                                          *)
Fairness ==
    /\ WF_vars(\E a \in Alerts, prepared \in BOOLEAN : Dispatch(a, prepared))
    /\ WF_vars(Register) /\ WF_vars(ProcessSyncer)
    /\ WF_vars(\E a \in Alerts : ProcessResult(a)) /\ WF_vars(\E x \in External : ProcessExternal(x))
    /\ WF_vars(\E a \in Alerts : Ripen(a))
    /\ WF_vars(\E a \in Alerts, ok \in BOOLEAN : Deliver(a, ok))
    /\ WF_vars(Syncer) /\ SF_vars(QueueAlerts(TRUE))

FairSpec == Spec /\ Fairness

------------------------------------------------------------------------------
(* Properties *)

InFlight(m, p) == {a \in Alerts : sending[a] # "no" /\ MediaType[a] = m /\ Pool[a] = p}
Waiting(m, p) == alertpools[m][p].queue

(* Alerts of a pool are sent one after the other: no two alerters work on  *)
(* the same pool, whatever is queued, retried or dropped meanwhile.        *)
PoolSequential == \A m \in MediaTypes, p \in Pools : Cardinality(InFlight(m, p)) <= 1

(* The counters of sessions and references are exact, so a media type or a *)
(* pool is never removed while an alert refers to it, nor kept by one that *)
(* is gone, and the media types that are to be removed are in use.         *)
CountersExact ==
    \A m \in MediaTypes :
       LET flying == UNION {InFlight(m, p) : p \in Pools}
           waiting == UNION {Waiting(m, p) : p \in Pools}
       IN /\ mediatypes[m].remove => mediatypes[m].refcount > 0
          /\ mediatypes[m].alerts_num = Cardinality(flying)
          /\ mediatypes[m].refcount = Cardinality(flying) + Cardinality(waiting)
          /\ \A p \in Pools :
                /\ alertpools[m][p].alerts_num = Cardinality(InFlight(m, p))
                /\ alertpools[m][p].refcount = Cardinality(InFlight(m, p)) + Cardinality(Waiting(m, p))

(* No alert is stranded: a pool with waiting alerts is queued unless one   *)
(* of its alerts is being sent, a media type with queued pools is queued   *)
(* unless an alert of it is being sent, and what is queued has something   *)
(* to send.                                                                *)
NothingStranded ==
    /\ \A m \in MediaTypes, p \in Pools :
          (p \in mediatypes[m].queue) = (Waiting(m, p) # {} /\ InFlight(m, p) = {})
    /\ \A m \in MediaTypes :
          /\ m \in queue => mediatypes[m].queue # {}
          /\ mediatypes[m].queue # {} => m \in queue \/ mediatypes[m].alerts_num > 0

(* An alert taken from the database is in one of the hands it goes through *)
(* until its result is written: no message about a media type is late.     *)
InHand(a) ==
    \/ \E i \in 1..Len(inbox) : inbox[i].type = "ALERTS" /\ a \in inbox[i].ids
    \/ a \in Waiting(MediaType[a], Pool[a]) \/ sending[a] # "no"
    \/ results[a].status \in {"SENT", "FAILED"} \/ answer[a].status \in {"SENT", "FAILED"}
NoAlertLost ==
    \A a \in DbAlerts : db[a].status = "NOT_SENT" => InHand(a) \/ status_limit = 2

(* An alert is sent a second time only if the server was restarted, and an *)
(* alert the database says is sent has been sent.                          *)
SentOnce ==
    \A a \in DbAlerts : /\ delivered[a] <= 1 + restarts
                        /\ db[a].status = "SENT" => delivered[a] > 0

(* Every alert is sent or fails for good, and every test is answered. *)
EveryAlertEnds ==
    /\ \A a \in DbAlerts : db[a].status = "NEW" ~> db[a].status \in {"SENT", "FAILED"}
    /\ \A x \in External : test[x].state = "requested" ~> test[x].state = "answered"
==============================================================================
