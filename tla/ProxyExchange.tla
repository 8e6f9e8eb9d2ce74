---------------------------- MODULE ProxyExchange ----------------------------
(***************************************************************************)
(* The exchange of history between a proxy and its server: the data sender *)
(* of an active proxy (zabbix_proxy/datasender/datasender.c) or the data   *)
(* request answered by a passive one (zbx_send_proxy_data), the reading of *)
(* the proxy database (libs/zbxdbhigh/proxy.c), the trapper or proxy       *)
(* poller of the server that takes the values (trapper/proxydata.c,        *)
(* proxypoller.c) and the data sessions that recognise values sent again   *)
(* (dbconfig.c).                                                           *)
(*                                                                         *)
(* Several history syncers insert rows in transactions of their own, so    *)
(* ids become visible out of order.  The proxy reads rows above the last   *)
(* id the server took, looking once more when an id is missing, sends them *)
(* and moves its last id when the server says that it took them.  Requests *)
(* may arrive after the proxy has given them up, answers may be lost, and  *)
(* both programs may be restarted.                                         *)
(***************************************************************************)
EXTENDS Integers, FiniteSets, FiniteSetsExt

CONSTANTS
    Trappers,       \* server processes that take proxy data
    Modes,          \* kinds of proxies considered, of "active" and "passive"
    MaxId,          \* bound: rows ever inserted
    Inactive,       \* rows of items or hosts that are not monitored
    MaxRecords,     \* ZBX_MAX_HRECORDS
    MaxRetries,     \* total_retries, the waits for missing ids in one reading
    ValuesMax,      \* ZBX_HISTORY_VALUES_MAX
    MaxFaults       \* bound: exchanges given up, restarts

Ids == 1..MaxId
Tokens == 1..(MaxFaults + 1)

ASSUME ProxyExchangeAssumption ==
    /\ Modes \subseteq {"active", "passive"}
    /\ MaxId \in Nat /\ Inactive \subseteq Ids
    /\ MaxRecords \in Nat \ {0} /\ MaxRetries \in Nat /\ ValuesMax \in Nat \ {0}
    /\ MaxFaults \in Nat

VARIABLES
    mode,
    rows,           \* proxy_history: rows[i] is "none", "open" (in a transaction), "visible" or "gone"
    lastid,         \* history_lastid in the ids table
    token,          \* the session token of the running proxy
    upload_state,   \* whether the last request succeeded
    hist_upload,    \* whether the server lets the proxy upload
    sender,         \* the data sender of the proxy
    net,            \* requests on their way to the server
    answer,         \* the answer on its way to the proxy, if any
    sessions,       \* sessions[k]: last_valueid of the session with token k, if there is one
    trapper,        \* trapper[t]: what trapper t works on
    faults,
    taken,          \* ids the server has processed
    passed,         \* ids the proxy read past while they were not visible
    dropped,        \* ids discarded in shared sessions, or confirmed by a server that stopped
                    \* before it processed them
    seen,           \* seen[k]: ids processed in session k since the server started
    repeated,       \* sessions in which an id was processed twice
    shared          \* sessions two trappers worked on at the same time

proxyVars == <<rows, lastid, token, upload_state, hist_upload, sender>>
serverVars == <<sessions, trapper, taken, dropped, seen, repeated, shared>>
vars == <<mode, proxyVars, net, answer, serverVars, faults, passed>>

(* pos is the id after which rows are read, got the rows of this call of   *)
(* proxy_get_history_data, batch the rows of earlier ones, waited whether  *)
(* the sender has just waited for a missing id.                            *)
Sender == [phase : {"idle", "read", "send", "wait"}, pos : 0..MaxId, got : SUBSET Ids,
           batch : SUBSET Ids, waited : BOOLEAN, retries : 0..MaxRetries]
Idle == [phase |-> "idle", pos |-> 0, got |-> {}, batch |-> {}, waited |-> FALSE, retries |-> 0]

(* A request is live while the proxy waits for its answer. *)
Request == [live : BOOLEAN, token : Tokens, ids : SUBSET Ids]
Answer == [ok : BOOLEAN, upload : {"enabled", "disabled", "undefined"}]
NoAnswer == [ok |-> FALSE, upload |-> "none"]
NoSession == -1

(* todo are the ids not yet looked at, ok those of the current chunk that  *)
(* are new, last the highest id processed.                                 *)
Trapper == [phase : {"idle", "lookup", "create", "reset", "check", "process", "finish"}, live : BOOLEAN,
            token : Tokens, todo : SUBSET Ids, ok : SUBSET Ids, chunk : SUBSET Ids, last : 0..MaxId]
Free == [phase |-> "idle", live |-> FALSE, token |-> 1, todo |-> {}, ok |-> {}, chunk |-> {}, last |-> 0]

TypeOK ==
    /\ mode \in Modes
    /\ rows \in [Ids -> {"none", "open", "visible", "gone"}]
    /\ lastid \in 0..MaxId /\ token \in Tokens
    /\ upload_state \in BOOLEAN /\ hist_upload \in BOOLEAN
    /\ sender \in Sender
    /\ net \subseteq Request
    /\ answer \in Answer \cup {NoAnswer}
    /\ sessions \in [Tokens -> 0..MaxId \cup {NoSession}]
    /\ trapper \in [Trappers -> Trapper]
    /\ faults \in 0..MaxFaults
    /\ taken \subseteq Ids /\ passed \subseteq Ids /\ dropped \subseteq Ids
    /\ seen \in [Tokens -> SUBSET Ids]
    /\ repeated \subseteq Tokens /\ shared \subseteq Tokens

Init ==
    /\ mode \in Modes
    /\ rows = [i \in Ids |-> "none"] /\ lastid = 0
    /\ token = 1 /\ upload_state = TRUE /\ hist_upload = TRUE /\ sender = Idle
    /\ net = {} /\ answer = NoAnswer
    /\ sessions = [k \in Tokens |-> NoSession] /\ trapper = [t \in Trappers |-> Free]
    /\ faults = 0
    /\ taken = {} /\ passed = {} /\ dropped = {}
    /\ seen = [k \in Tokens |-> {}] /\ repeated = {} /\ shared = {}

------------------------------------------------------------------------------
(* The history syncers of the proxy *)

(* A syncer inserts a row; the database numbers rows in the order of       *)
(* insertion.                                                              *)
Insert(i) ==
    /\ rows[i] = "none" /\ \A j \in 1..(i - 1) : rows[j] # "none"
    /\ rows' = [rows EXCEPT ![i] = "open"]
    /\ UNCHANGED <<mode, lastid, token, upload_state, hist_upload, sender, net, answer, serverVars,
                   faults, passed>>

(* Its transaction ends; after a rollback the number is not used again. *)
EndTransaction(i, state) ==
    /\ rows[i] = "open"
    /\ rows' = [rows EXCEPT ![i] = state]
    /\ UNCHANGED <<mode, lastid, token, upload_state, hist_upload, sender, net, answer, serverVars,
                   faults, passed>>

Commit(i) == EndTransaction(i, "visible")
Rollback(i) == EndTransaction(i, "gone")

------------------------------------------------------------------------------
(* The data sender *)

(* The n smallest elements of S. *)
Least(S, n) == {i \in S : Cardinality({j \in S : j < i}) < n}

Visible(pos) == {i \in Ids : i > pos /\ rows[i] = "visible"}

(* An active proxy reads history when the last request succeeded and the   *)
(* server has not disabled uploads; a passive one when the server asks,    *)
(* which it does only after it has dealt with the previous answer.         *)
MayRead ==
    \/ mode = "active" /\ upload_state /\ hist_upload
    \/ mode = "passive" /\ net = {} /\ \A t \in Trappers : trapper[t].phase = "idle"

StartReading ==
    /\ sender.phase = "idle" /\ MayRead
    /\ sender' = [Idle EXCEPT !.phase = "read", !.pos = lastid, !.retries = MaxRetries]
    /\ UNCHANGED <<mode, rows, lastid, token, upload_state, hist_upload, net, answer, serverVars,
                   faults, passed>>

(* One select of proxy_get_history_data: rows are taken up to the first    *)
(* missing id; there the sender waits and looks again, once per gap and    *)
(* MaxRetries times in all, and then goes on behind the gap.               *)
Look ==
    LET found == Least(Visible(sender.pos), MaxRecords - Cardinality(sender.got))
        first == IF sender.waited THEN Min(found) ELSE sender.pos + 1
        inrow == {i \in found : \A j \in first..i : j \in found}
        got   == sender.got \cup inrow
        again == found # inrow /\ sender.retries > 0
    IN /\ sender.phase = "read"
       /\ sender' = [sender EXCEPT !.got = got,
                        !.phase = IF again THEN "read" ELSE "send",
                        !.pos = Max(inrow \cup {sender.pos}),
                        !.waited = again,
                        !.retries = IF again THEN @ - 1 ELSE @]
       /\ passed' = IF found = {} THEN passed ELSE passed \cup ((sender.pos + 1)..(first - 1))
       /\ UNCHANGED <<mode, rows, lastid, token, upload_state, hist_upload, net, answer, serverVars, faults>>

(* A full call of proxy_get_history_data is followed by another one while  *)
(* the message has room.                                                   *)
ReadMore ==
    /\ sender.phase = "send" /\ Cardinality(sender.got) = MaxRecords
    /\ sender' = [Idle EXCEPT !.phase = "read", !.pos = Max(sender.got),
                              !.batch = sender.batch \cup sender.got, !.retries = MaxRetries]
    /\ UNCHANGED <<mode, rows, lastid, token, upload_state, hist_upload, net, answer, serverVars,
                   faults, passed>>

(* The rows are put into the message until it is full, those of inactive   *)
(* items are left out, and the message is sent.                            *)
Send ==
    /\ sender.phase = "send"
    /\ \E last \in (sender.got \ Inactive) \cup {MaxId} :
          LET batch == sender.batch \cup {i \in sender.got : i <= last}
          IN /\ sender' = [Idle EXCEPT !.phase = "wait", !.batch = batch]
             /\ net' = net \cup {[live |-> TRUE, token |-> token, ids |-> batch \ Inactive]}
    /\ UNCHANGED <<mode, rows, lastid, token, upload_state, hist_upload, answer, serverVars, faults, passed>>

(* A request without history: after a failure, while uploads are disabled, *)
(* or because it is time to ask for tasks and not yet for data.            *)
Probe ==
    /\ mode = "active" /\ sender.phase = "idle"
    /\ sender' = [Idle EXCEPT !.phase = "wait"]
    /\ net' = net \cup {[live |-> TRUE, token |-> token, ids |-> {}]}
    /\ UNCHANGED <<mode, rows, lastid, token, upload_state, hist_upload, answer, serverVars, faults, passed>>

(* Mutants: the last id moves though the server refused the data; uploads  *)
(* once disabled stay so.                                                  *)
LastidAnyAnswer == IF sender.batch # {} THEN Max(sender.batch) ELSE lastid
UploadNeverEnabled == hist_upload /\ answer.upload # "disabled"

NewLastid == IF answer.ok /\ sender.batch # {} THEN Max(sender.batch) ELSE lastid
NewUpload == IF answer.upload = "undefined" THEN hist_upload ELSE answer.upload = "enabled"

(* The answer arrives; if the request succeeded, the last id moves to the  *)
(* last row read, whether or not any row was sent.                         *)
ReceiveAnswer ==
    /\ sender.phase = "wait" /\ answer # NoAnswer
    /\ upload_state' = (answer.ok \/ mode = "passive")
    /\ hist_upload' = NewUpload /\ lastid' = NewLastid
    /\ sender' = Idle /\ answer' = NoAnswer
    /\ UNCHANGED <<mode, rows, token, net, serverVars, faults, passed>>

Dead(r) == [r EXCEPT !.live = FALSE]
DeadTrapper(tr) == [t \in Trappers |-> Dead(tr[t])]

(* The request has neither arrived nor will it be answered. *)
Broken ==
    /\ answer = NoAnswer
    /\ \A r \in net : ~r.live
    /\ \A t \in Trappers : ~trapper[t].live

(* The exchange fails or takes too long for the proxy.  The request may be *)
(* lost, or be served late, and a late answer is lost.                     *)
GiveUp ==
    /\ sender.phase = "wait"
    /\ faults' = IF Broken THEN faults ELSE faults + 1
    /\ faults' <= MaxFaults
    /\ upload_state' = (mode = "passive")
    /\ sender' = Idle /\ answer' = NoAnswer
    /\ \E lost \in BOOLEAN : net' = {Dead(r) : r \in {q \in net : ~q.live \/ ~lost}}
    /\ trapper' = DeadTrapper(trapper)
    /\ UNCHANGED <<mode, rows, lastid, token, hist_upload, sessions, taken, dropped, seen, repeated,
                   shared, passed>>

(* The proxy is restarted: transactions are rolled back, its session is a  *)
(* new one, the last id is kept.                                           *)
RestartProxy ==
    /\ faults < MaxFaults /\ faults' = faults + 1
    /\ rows' = [i \in Ids |-> IF rows[i] = "open" THEN "gone" ELSE rows[i]]
    /\ token' = token + 1
    /\ upload_state' = TRUE /\ hist_upload' = TRUE
    /\ sender' = Idle /\ answer' = NoAnswer
    /\ net' = {Dead(r) : r \in net} /\ trapper' = DeadTrapper(trapper)
    /\ UNCHANGED <<mode, lastid, sessions, taken, dropped, seen, repeated, shared, passed>>

------------------------------------------------------------------------------
(* The server *)

(* A trapper starts to process the values of request r. *)
Begin(t, r) ==
    /\ trapper' = [trapper EXCEPT ![t] = [Free EXCEPT !.phase = "lookup", !.live = r.live,
                                             !.token = r.token, !.todo = r.ids]]
    /\ shared' = IF \E u \in Trappers : trapper[u].phase # "idle" /\ trapper[u].token = r.token
                 THEN shared \cup {r.token} ELSE shared

Reply(r, ok, upload) == answer' = IF r.live THEN [ok |-> ok, upload |-> upload] ELSE answer

(* A request of an active proxy.  The throttling queue may disable         *)
(* uploads, and then a request with history is refused.                    *)
Accept(t, r, enabled) ==
    /\ mode = "active" /\ r \in net /\ trapper[t].phase = "idle"
    /\ net' = net \ {r}
    /\ IF r.ids # {} /\ enabled
       THEN Begin(t, r) /\ UNCHANGED answer
       ELSE /\ Reply(r, r.ids = {}, IF enabled THEN "enabled" ELSE "disabled")
            /\ UNCHANGED <<trapper, shared>>
    /\ UNCHANGED <<mode, proxyVars, sessions, taken, dropped, seen, repeated, faults, passed>>

(* The data of a passive proxy: they are confirmed first.  If that cannot  *)
(* be sent, the data are not used.                                         *)
AcceptPassive(t, r) ==
    /\ mode = "passive" /\ r \in net /\ trapper[t].phase = "idle"
    /\ net' = net \ {r}
    /\ Reply(r, TRUE, "undefined")
    /\ \/ r.ids # {} /\ Begin(t, [r EXCEPT !.live = FALSE])
       \/ r.ids = {} /\ UNCHANGED <<trapper, shared>>
       \/ ~r.live /\ r.ids # {} /\ UNCHANGED <<trapper, shared>>
    /\ UNCHANGED <<mode, proxyVars, sessions, taken, dropped, seen, repeated, faults, passed>>

(* zbx_dc_get_or_create_data_session: the search and the insertion lock    *)
(* the cache one after the other, and the last id of a new session is set  *)
(* without a lock, so that until then it is not initialized.               *)
Lookup(t) ==
    /\ trapper[t].phase = "lookup"
    /\ trapper' = [trapper EXCEPT ![t].phase =
                      IF sessions[trapper[t].token] = NoSession THEN "create" ELSE "check"]
    /\ UNCHANGED <<mode, proxyVars, net, answer, sessions, taken, dropped, seen, repeated, shared,
                   faults, passed>>

Create(t) ==
    LET k == trapper[t].token
    IN /\ trapper[t].phase = "create"
       /\ \E v \in IF sessions[k] = NoSession THEN 0..MaxId ELSE {sessions[k]} :
             sessions' = [sessions EXCEPT ![k] = v]
       /\ trapper' = [trapper EXCEPT ![t].phase = "reset"]
       /\ UNCHANGED <<mode, proxyVars, net, answer, taken, dropped, seen, repeated, shared, faults, passed>>

Reset(t) ==
    /\ trapper[t].phase = "reset"
    /\ sessions' = [sessions EXCEPT ![trapper[t].token] = 0]
    /\ trapper' = [trapper EXCEPT ![t].phase = "check"]
    /\ UNCHANGED <<mode, proxyVars, net, answer, taken, dropped, seen, repeated, shared, faults, passed>>

(* Values the session has seen are discarded ... *)
CheckDuplicates(t) ==
    LET k == trapper[t].token
        chunk == Least(trapper[t].todo, ValuesMax)
        ok == {i \in chunk : i > sessions[k]}
    IN /\ trapper[t].phase = "check"
       /\ trapper' = [trapper EXCEPT ![t].phase = "process", ![t].chunk = chunk,
                         ![t].todo = @ \ chunk, ![t].ok = ok]
       /\ dropped' = IF k \in shared THEN dropped \cup (chunk \ ok) ELSE dropped
       /\ UNCHANGED <<mode, proxyVars, net, answer, sessions, taken, seen, repeated, shared,
                      faults, passed>>

(* ... and the others are given to preprocessing and the history cache. *)
Process(t) ==
    LET k == trapper[t].token
        ok == trapper[t].ok
    IN /\ trapper[t].phase = "process"
       /\ taken' = taken \cup ok
       /\ repeated' = IF ok \cap seen[k] # {} THEN repeated \cup {k} ELSE repeated
       /\ seen' = [seen EXCEPT ![k] = @ \cup ok]
       /\ trapper' = [trapper EXCEPT ![t].phase = IF trapper[t].todo = {} THEN "finish" ELSE "check",
                         ![t].ok = {}, ![t].chunk = {}, ![t].last = Max(trapper[t].chunk)]
       /\ UNCHANGED <<mode, proxyVars, net, answer, sessions, dropped, shared, faults, passed>>

(* Mutant: the session is not updated. *)
OldValueid(old, last) == old

LastValueid(old, last) == IF old > last THEN old ELSE last

(* The session remembers the last id, and an active proxy gets its answer. *)
Finish(t) ==
    LET k == trapper[t].token
        last == trapper[t].last
    IN /\ trapper[t].phase = "finish"
       /\ sessions' = [sessions EXCEPT ![k] = LastValueid(@, last)]
       /\ Reply(trapper[t], TRUE, "enabled")
       /\ trapper' = [trapper EXCEPT ![t] = Free]
       /\ UNCHANGED <<mode, proxyVars, net, taken, dropped, seen, repeated, shared, faults, passed>>

(* Values a trapper has confirmed and not processed: those of a passive    *)
(* proxy.                                                                  *)
Confirmed ==
    IF mode = "passive" THEN UNION {trapper[t].todo \cup trapper[t].ok : t \in Trappers} ELSE {}

(* The server is stopped and started: sessions are forgotten, as is what   *)
(* its processes worked on.                                                *)
RestartServer ==
    /\ faults < MaxFaults /\ faults' = faults + 1
    /\ sessions' = [k \in Tokens |-> NoSession]
    /\ trapper' = [t \in Trappers |-> Free]
    /\ dropped' = dropped \cup Confirmed
    /\ seen' = [k \in Tokens |-> {}]
    /\ UNCHANGED <<mode, proxyVars, net, answer, taken, repeated, shared, passed>>

Next ==
    \/ \E i \in Ids : Insert(i) \/ Commit(i) \/ Rollback(i)
    \/ StartReading \/ Look \/ ReadMore \/ Send \/ Probe \/ ReceiveAnswer \/ GiveUp \/ RestartProxy
    \/ \E t \in Trappers :
          \/ \E r \in net : AcceptPassive(t, r) \/ \E enabled \in BOOLEAN : Accept(t, r, enabled)
          \/ Lookup(t) \/ Create(t) \/ Reset(t) \/ CheckDuplicates(t) \/ Process(t) \/ Finish(t)
    \/ RestartServer

Spec == Init /\ [][Next]_vars

(* The data sender and the trappers do not stop.  Time passes, so data are *)
(* read again and again and a broken exchange is noticed; the throttling   *)
(* queue lets each proxy pass again and again (ProxyQueue).                *)
Fairness ==
    /\ WF_vars(Look) /\ WF_vars(Send) /\ WF_vars(Probe) /\ WF_vars(ReceiveAnswer)
    /\ SF_vars(StartReading) /\ WF_vars(GiveUp /\ Broken)
    /\ SF_vars(\E t \in Trappers, r \in net : r.live /\ Accept(t, r, TRUE))
    /\ SF_vars(\E t \in Trappers, r \in net : r.ids # {} /\ Accept(t, r, TRUE))
    /\ WF_vars(\E t \in Trappers, r \in net : AcceptPassive(t, r))
    /\ \A t \in Trappers : WF_vars(Lookup(t) \/ Create(t) \/ Reset(t) \/ CheckDuplicates(t) \/ Process(t) \/ Finish(t))

FairSpec == Spec /\ Fairness

------------------------------------------------------------------------------
(* Properties *)

(* No visible value is left behind: below the last id the proxy stored, a  *)
(* value of a monitored item has been processed by the server, unless it   *)
(* became visible after the proxy had waited for it once and gone on, two  *)
(* trappers used its session at the same time, or the server confirmed it  *)
(* to a passive proxy first and is still working on it or was stopped      *)
(* meanwhile.                                                              *)
NothingSkipped ==
    \A i \in Ids : i <= lastid /\ rows[i] = "visible" /\ i \notin Inactive
                      => i \in taken \cup passed \cup dropped \cup Confirmed

(* A session recognises values sent again after a lost answer or a late    *)
(* request, unless two trappers worked on it at the same time.             *)
NoRepetition == repeated \subseteq shared

(* zbx_dc_get_or_create_data_session: "only one data session is updated at *)
(* the same time".                                                         *)
OneUpdater == \A t, u \in Trappers :
    t # u /\ trapper[t].phase # "idle" /\ trapper[u].phase # "idle" => trapper[t].token # trapper[u].token

(* Every value that becomes visible is processed by the server at last.    *)
EveryValueTaken ==
    \A i \in Ids \ Inactive : rows[i] = "visible" ~> i \in taken \cup passed \cup dropped
==============================================================================
