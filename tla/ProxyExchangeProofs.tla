------------------------- MODULE ProxyExchangeProofs -------------------------
(***************************************************************************)
(* Proofs about the exchange of history between a proxy and its server:    *)
(* nothing below the stored last id is skipped, and a session that two     *)
(* trappers never shared processes no value twice.                         *)
(*                                                                         *)
(* The argument follows a row.  Everything at or below the last id is      *)
(* settled (LastInv).  What the sender reads continues it without a gap    *)
(* (ReadInv, BatchInv), so that a request holds every unsettled row below  *)
(* one of its own (RequestInv), and so does what a trapper has in hand     *)
(* (SoundInv); the proxy waits for one exchange, which is in one place     *)
(* (LiveInv), so that a success says that the batch is settled.  On the    *)
(* server a session knows settled ids only (SessionInv) and all that were  *)
(* processed in it (SeenInv), since its only trapper takes them in order   *)
(* (WorkInv, SharedInv).                                                   *)
(***************************************************************************)
EXTENDS ProxyExchange, FiniteSetTheorems, WellFoundedInduction, TLAPS

------------------------------------------------------------------------------
(* The inductive invariant *)

(* What the proxy need not send any more: processed by the server, passed  *)
(* by, dropped, or of an item that is not monitored.                       *)
Settled == taken \cup passed \cup dropped \cup Inactive

(* The rows up to the last id are settled, or a server that has confirmed  *)
(* them to a passive proxy is working on them.                             *)
LastInv == \A i \in Ids : i <= lastid => i \in Settled \cup Confirmed

(* What the sender has read lies behind the last id, in order and without  *)
(* a gap that was not passed by; a passive proxy reads when the server has *)
(* nothing of it left.                                                     *)
ReadInv ==
    sender.phase \in {"read", "send"} =>
        /\ lastid <= sender.pos
        /\ \A i \in Ids : lastid < i /\ i <= sender.pos => i \in sender.got \cup sender.batch \cup passed
        /\ \A i \in sender.got \cup sender.batch : lastid < i /\ i <= sender.pos
        /\ \A b \in sender.batch, i \in sender.got : b < i
        /\ mode = "passive" => net = {} /\ \A t \in Trappers : trapper[t].phase = "idle"

(* The same of the batch sent. *)
BatchInv ==
    sender.phase = "wait" =>
        \A b \in sender.batch, i \in Ids : lastid < i /\ i <= b => i \in sender.batch \cup passed

(* The exchange the proxy waits for is in one place: on the network, with  *)
(* one trapper, or answered.                                               *)
NoLiveRequest == \A r \in net : ~r.live
NoLiveTrapper == \A t \in Trappers : ~trapper[t].live
LiveInv ==
    /\ sender.phase # "wait" => answer = NoAnswer /\ NoLiveRequest /\ NoLiveTrapper
    /\ answer # NoAnswer => NoLiveRequest /\ NoLiveTrapper
    /\ \A r \in net : r.live => r = [live |-> TRUE, token |-> token, ids |-> sender.batch \ Inactive]
    /\ \A t \in Trappers : trapper[t].live =>
          /\ NoLiveRequest
          /\ mode = "active" /\ trapper[t].phase # "idle"
          /\ \A u \in Trappers : trapper[u].live => u = t
          /\ sender.batch \subseteq Settled \cup trapper[t].todo \cup trapper[t].ok
    /\ answer.ok => sender.batch \subseteq Settled \cup Confirmed

(* A request contains every row below one of its own that is not settled.  *)
RequestInv == \A r \in net : \A b \in r.ids, i \in Ids : i <= b => i \in r.ids \cup Settled

(* The work of a trapper: ids are taken in order, in chunks.               *)
Work(w) ==
    /\ w.phase = "idle" => w.todo = {} /\ w.chunk = {} /\ w.last = 0
    /\ w.phase \in {"lookup", "create", "reset"} => w.last = 0
    /\ w.phase \in {"lookup", "create", "reset", "check"} => w.todo # {} /\ w.chunk = {}
    /\ w.phase = "process" => w.chunk # {}
    /\ w.phase = "finish" => w.todo = {} /\ w.chunk = {}
    /\ w.ok \subseteq w.chunk
    /\ \A i \in w.todo \cup w.chunk : w.last < i
    /\ \A i \in w.chunk, j \in w.todo : i < j
WorkInv == \A t \in Trappers : Work(trapper[t])

(* Below what a trapper has in hand everything is settled or still to do.  *)
Sound(w, settled) ==
    \A b \in w.todo \cup w.chunk \cup {w.last}, i \in Ids : i <= b => i \in w.todo \cup w.ok \cup settled
SoundInv == \A t \in Trappers : Sound(trapper[t], Settled)

(* Trappers that work on the same session at the same time are noticed.    *)
Busy(t, k) == trapper[t].phase # "idle" /\ trapper[t].token = k
SharedInv == \A k \in Tokens, t, u \in Trappers : Busy(t, k) /\ Busy(u, k) /\ t # u => k \in shared

(* A session that was never shared knows settled ids only, except while it *)
(* is not initialized.                                                     *)
Raw(k) == \E t \in Trappers : trapper[t].phase = "reset" /\ trapper[t].token = k
SessionInv == \A k \in Tokens \ shared : ~Raw(k) => \A i \in Ids : i <= sessions[k] => i \in Settled

(* It remembers what was processed in it, together with the trapper at     *)
(* work.                                                                   *)
SeenInv == \A k \in Tokens \ shared :
    /\ \A i \in seen[k] : i <= sessions[k] \/ \E t \in Trappers : Busy(t, k) /\ i <= trapper[t].last
    /\ \A t \in Trappers : Busy(t, k) =>
          /\ trapper[t].phase = "create" => sessions[k] = NoSession
          /\ trapper[t].phase = "reset" => seen[k] = {}
          /\ trapper[t].phase = "process" => \A i \in trapper[t].ok : sessions[k] < i

ServerInv == WorkInv /\ SoundInv /\ SharedInv /\ SessionInv /\ SeenInv /\ NoRepetition

TypeInv == TypeOK /\ token <= faults + 1

IInv == TypeInv /\ LastInv /\ ReadInv /\ BatchInv /\ LiveInv /\ RequestInv /\ ServerInv

------------------------------------------------------------------------------
(* Smallest and largest ids *)

(* A non-empty set of numbers has a smallest one: Min chooses it.          *)
LEMMA MinProperties ==
    ASSUME NEW S \in SUBSET Nat, S # {}
    PROVE  Min(S) \in S /\ \A y \in S : Min(S) <= y
PROOF
  <1>1. PICK x \in S : \A y \in S : ~(<<y, x>> \in OpToRel(<, Nat))
    BY NatLessThanWellFounded, WFMin, Zenon
  <1>2. \A y \in S : x <= y
    <2>1. TAKE y \in S
    <2>2. x \in Nat /\ y \in Nat OBVIOUS
    <2>3. <<y, x>> \notin {ss \in Nat \X Nat : ss[1] < ss[2]} BY <1>1, Zenon DEF OpToRel
    <2> QED BY <2>2, <2>3
  <1> QED BY <1>2 DEF Min

(* So has a non-empty set of ids a largest one: Max chooses it.            *)
LEMMA MaxProperties ==
    ASSUME NEW S \in SUBSET (0..MaxId), S # {}
    PROVE  Max(S) \in S /\ \A y \in S : y <= Max(S)
PROOF
  <1>0. MaxId \in Nat BY ProxyExchangeAssumption
  <1> DEFINE D == {MaxId - y : y \in S}
  <1>1. D \in SUBSET Nat /\ D # {}
    <2>1. \A y \in S : y \in Int /\ y <= MaxId BY <1>0
    <2>2. \A y \in S : MaxId - y \in Nat BY <2>1, <1>0
    <2> QED BY <2>2, Zenon
  <1>2. Min(D) \in D /\ \A y \in D : Min(D) <= y BY <1>1, MinProperties, Zenon
  <1>3. PICK x \in S : Min(D) = MaxId - x BY <1>2
  <1>4. \A y \in S : MaxId - x <= MaxId - y
    <2>1. TAKE y \in S
    <2>2. MaxId - y \in D OBVIOUS
    <2> QED BY <2>2, <1>2, <1>3
  <1>5. \A y \in S : y <= x
    <2>1. TAKE y \in S
    <2>2. MaxId - x <= MaxId - y BY <1>4
    <2> QED BY <2>2, <1>0
  <1>6. \A y \in S : x >= y BY <1>5, <1>0
  <1>7. Max(S) \in S /\ \A y \in S : Max(S) >= y
    BY <1>6, Zenon DEF Max
  <1> QED BY <1>7, <1>0

(* A chunk of the n smallest ids is a part of the ids, is not empty when   *)
(* there are any, and lies below the others.                               *)
LEMMA LeastProperties ==
    ASSUME NEW S \in SUBSET Ids, NEW n \in Nat \ {0}
    PROVE  /\ Least(S, n) \subseteq S
           /\ S # {} => Least(S, n) # {}
           /\ \A i \in Least(S, n), j \in S \ Least(S, n) : i < j
PROOF
  <1>0. MaxId \in Nat BY ProxyExchangeAssumption
  <1> DEFINE Below(i) == {j \in S : j < i}
  <1>1. IsFiniteSet(S)
    <2>1. IsFiniteSet(1..MaxId) BY <1>0, FS_Interval
    <2> QED BY <2>1, FS_Subset DEF Ids
  <1>2. Least(S, n) \subseteq S BY DEF Least
  <1>3. S # {} => Least(S, n) # {}
    <2> SUFFICES ASSUME S # {} PROVE Least(S, n) # {} OBVIOUS
    <2>1. S \in SUBSET Nat BY <1>0 DEF Ids
    <2>2. Min(S) \in S /\ \A y \in S : Min(S) <= y BY <2>1, MinProperties, Zenon
    <2>3. \A y \in S : ~(y < Min(S))
      <3>1. Min(S) \in Nat /\ \A y \in S : y \in Nat BY <2>1, <2>2, Zenon
      <3> QED BY <3>1, <2>2
    <2>a. Below(Min(S)) = {} BY <2>3
    <2>4. Cardinality(Below(Min(S))) = 0 BY <2>a, FS_EmptySet
    <2> QED BY <2>2, <2>4 DEF Least
  <1>4. ASSUME NEW i \in Least(S, n), NEW j \in S, j \notin Least(S, n) PROVE i < j
    <2>1. i \in S /\ i \in Int /\ j \in Int BY <1>0 DEF Least, Ids
    <2>2. SUFFICES ASSUME ~(i < j) PROVE FALSE OBVIOUS
    <2>3. j < i BY <2>1, <2>2, <1>4
    <2>a. \A y \in S : y \in Int BY <1>0 DEF Ids
    <2>b. \A y \in S : y < j => y < i BY <2>a, <2>1, <2>3
    <2>4. Below(j) \subseteq Below(i) BY <2>b
    <2>5. IsFiniteSet(Below(i)) BY <1>1, FS_Subset
    <2>6. /\ Cardinality(Below(j)) <= Cardinality(Below(i)) /\ IsFiniteSet(Below(j))
      BY <2>4, <2>5, FS_Subset
    <2>7. Cardinality(Below(i)) \in Nat /\ Cardinality(Below(j)) \in Nat
      BY <2>5, <2>6, FS_CardinalityType
    <2>8. Cardinality(Below(i)) < n BY DEF Least
    <2>9. Cardinality(Below(j)) < n BY <2>6, <2>7, <2>8
    <2> QED BY <2>9, <1>4 DEF Least
  <1> QED BY <1>2, <1>3, <1>4

------------------------------------------------------------------------------
(* Frames: what steps of one side leave alone *)

(* Nothing a trapper does changes but that nobody may wait for it.         *)
SameWork == \A t \in Trappers :
    /\ trapper'[t].phase = trapper[t].phase /\ trapper'[t].token = trapper[t].token
    /\ trapper'[t].todo = trapper[t].todo /\ trapper'[t].ok = trapper[t].ok
    /\ trapper'[t].chunk = trapper[t].chunk /\ trapper'[t].last = trapper[t].last

(* Steps of the proxy keep what holds of the server.                       *)
LEMMA ServerFrame ==
    ASSUME ServerInv, SameWork, passed \subseteq passed',
           UNCHANGED <<mode, sessions, taken, dropped, seen, repeated, shared>>
    PROVE  ServerInv' /\ Settled \subseteq Settled' /\ Confirmed' = Confirmed
PROOF
  <1>1. Settled \subseteq Settled' BY DEF Settled
  <1>2. Confirmed' = Confirmed
    <2>1. \A t \in Trappers : trapper'[t].todo \cup trapper'[t].ok = trapper[t].todo \cup trapper[t].ok
      BY Zenon DEF SameWork
    <2>2. UNION {trapper'[t].todo \cup trapper'[t].ok : t \in Trappers}
            = UNION {trapper[t].todo \cup trapper[t].ok : t \in Trappers}
      BY <2>1, Zenon
    <2> QED BY <2>2, Zenon DEF Confirmed
  <1>3. WorkInv' BY DEF ServerInv, WorkInv, Work, SameWork
  <1>4. SoundInv'
    <2> SUFFICES ASSUME NEW t \in Trappers PROVE Sound(trapper[t], Settled)' BY DEF SoundInv
    <2>1. Sound(trapper[t], Settled) BY DEF ServerInv, SoundInv
    <2> QED BY <1>1, <2>1, Zenon DEF Sound, SameWork
  <1>5. \A t \in Trappers, k \in Tokens : Busy(t, k)' = Busy(t, k) BY Zenon DEF Busy, SameWork
  <1>6. \A k \in Tokens : Raw(k)' = Raw(k) BY Zenon DEF Raw, SameWork
  <1>7. SharedInv' BY <1>5 DEF ServerInv, SharedInv
  <1>8. SessionInv' BY <1>6, <1>1 DEF ServerInv, SessionInv
  <1>9. SeenInv'
    <2> SUFFICES ASSUME NEW k \in Tokens \ shared
                 PROVE  /\ \A i \in seen[k] : i <= sessions[k]
                                \/ \E t \in Trappers : Busy(t, k)' /\ i <= trapper'[t].last
                        /\ \A t \in Trappers : Busy(t, k)' =>
                              /\ trapper'[t].phase = "create" => sessions[k] = NoSession
                              /\ trapper'[t].phase = "reset" => seen[k] = {}
                              /\ trapper'[t].phase = "process" => \A i \in trapper'[t].ok : sessions[k] < i
      BY Zenon DEF SeenInv
    <2>1. /\ \A i \in seen[k] : i <= sessions[k] \/ \E t \in Trappers : Busy(t, k) /\ i <= trapper[t].last
          /\ \A t \in Trappers : Busy(t, k) =>
                /\ trapper[t].phase = "create" => sessions[k] = NoSession
                /\ trapper[t].phase = "reset" => seen[k] = {}
                /\ trapper[t].phase = "process" => \A i \in trapper[t].ok : sessions[k] < i
      BY Zenon DEF ServerInv, SeenInv
    <2> QED BY <1>5, <2>1, Zenon DEF SameWork
  <1>10. NoRepetition' BY DEF ServerInv, NoRepetition
  <1> QED BY <1>1, <1>2, <1>3, <1>4, <1>7, <1>8, <1>9, <1>10 DEF ServerInv

(* Steps of the server keep what holds of the proxy: they settle or        *)
(* confirm more and more, and take requests away.                          *)
LEMMA ProxyFrame ==
    ASSUME LastInv, ReadInv, BatchInv, RequestInv, UNCHANGED <<mode, proxyVars, passed>>,
           Settled \subseteq Settled', Settled \cup Confirmed \subseteq (Settled \cup Confirmed)',
           net' \subseteq net,
           mode = "passive" /\ net = {} /\ (\A t \in Trappers : trapper[t].phase = "idle")
              => \A t \in Trappers : trapper'[t].phase = "idle"
    PROVE  LastInv' /\ ReadInv' /\ BatchInv' /\ RequestInv'
PROOF
  <1>1. LastInv' BY Zenon DEF LastInv, proxyVars
  <1>2. ReadInv'
    <2> SUFFICES ASSUME sender.phase \in {"read", "send"} PROVE ReadInv' BY DEF ReadInv, proxyVars
    <2>1. mode = "passive" => net' = {} /\ \A t \in Trappers : trapper'[t].phase = "idle"
      BY DEF ReadInv
    <2> QED BY <2>1 DEF ReadInv, proxyVars
  <1>3. BatchInv' BY DEF BatchInv, proxyVars
  <1>4. RequestInv' BY Zenon DEF RequestInv
  <1> QED BY <1>1, <1>2, <1>3, <1>4

------------------------------------------------------------------------------
(* The initial states, and the history syncers *)

LEMMA InitInv == Init => IInv
PROOF
  <1> SUFFICES ASSUME Init PROVE IInv OBVIOUS
  <1>0. MaxId \in Nat /\ MaxFaults \in Nat /\ MaxRetries \in Nat /\ Inactive \subseteq Ids
    BY ProxyExchangeAssumption
  <1>1. TypeInv
    <2>1. Idle \in Sender BY <1>0 DEF Idle, Sender
    <2>2. 1 \in Tokens BY <1>0 DEF Tokens
    <2>3. Free \in Trapper BY <1>0, <2>2 DEF Free, Trapper
    <2> QED BY <1>0, <2>1, <2>2, <2>3 DEF Init, TypeInv, TypeOK
  <1>2. LastInv BY DEF Init, LastInv, Ids
  <1>3. ReadInv /\ BatchInv BY DEF Init, ReadInv, BatchInv, Idle
  <1>4. LiveInv BY DEF Init, LiveInv, Idle, NoAnswer, Free, NoLiveRequest, NoLiveTrapper
  <1>5. RequestInv BY DEF Init, RequestInv
  <1>6. WorkInv BY DEF Init, WorkInv, Work, Free
  <1>7. SoundInv BY DEF Init, SoundInv, Sound, Free, Ids
  <1>8. SharedInv BY DEF Init, SharedInv, Busy, Free
  <1>9. SessionInv BY DEF Init, SessionInv, NoSession, Ids
  <1>10. SeenInv BY DEF Init, SeenInv, Busy, Free
  <1>11. NoRepetition BY DEF Init, NoRepetition
  <1> QED BY <1>1, <1>2, <1>3, <1>4, <1>5, <1>6, <1>7, <1>8, <1>9, <1>10, <1>11 DEF IInv, ServerInv

(* Rows are typed; nothing else of the invariant speaks of them.           *)
LEMMA RowsFrame ==
    ASSUME IInv, rows' \in [Ids -> {"none", "open", "visible", "gone"}],
           UNCHANGED <<mode, lastid, token, upload_state, hist_upload, sender, net, answer, serverVars,
                       faults, passed>>
    PROVE  IInv'
PROOF
  <1>1. TypeInv' BY DEF IInv, TypeInv, TypeOK, serverVars
  <1>2. SameWork BY DEF SameWork, serverVars
  <1>3. ServerInv' /\ Settled \subseteq Settled' /\ Confirmed' = Confirmed
    BY <1>2, ServerFrame DEF IInv, serverVars
  <1>4. LastInv' BY <1>3, Zenon DEF IInv, LastInv
  <1>5. ReadInv' /\ BatchInv' BY DEF IInv, ReadInv, BatchInv, serverVars
  <1>6. Settled' = Settled BY DEF Settled, serverVars
  <1>7. LiveInv' BY <1>3, <1>6 DEF IInv, LiveInv, NoLiveRequest, NoLiveTrapper, serverVars
  <1>8. RequestInv' BY <1>6 DEF IInv, RequestInv
  <1> QED BY <1>1, <1>3, <1>4, <1>5, <1>7, <1>8 DEF IInv

LEMMA SyncersInv ==
    ASSUME IInv, NEW i \in Ids, Insert(i) \/ Commit(i) \/ Rollback(i)
    PROVE  IInv'
PROOF
  <1>1. rows \in [Ids -> {"none", "open", "visible", "gone"}] BY DEF IInv, TypeInv, TypeOK
  <1>2. rows' \in [Ids -> {"none", "open", "visible", "gone"}]
    BY <1>1 DEF Insert, Commit, Rollback, EndTransaction
  <1>3. UNCHANGED <<mode, lastid, token, upload_state, hist_upload, sender, net, answer, serverVars,
                    faults, passed>>
    BY Zenon DEF Insert, Commit, Rollback, EndTransaction
  <1> QED BY <1>2, <1>3, RowsFrame, Zenon

------------------------------------------------------------------------------
(* The data sender *)

(* The fields of the sender have their types.                              *)
LEMMA SenderType ==
    ASSUME TypeOK
    PROVE  /\ lastid \in 0..MaxId /\ sender.pos \in 0..MaxId /\ sender.retries \in 0..MaxRetries
           /\ sender.got \in SUBSET Ids /\ sender.batch \in SUBSET Ids /\ sender.waited \in BOOLEAN
           /\ sender.phase \in {"idle", "read", "send", "wait"}
           /\ Ids \subseteq 0..MaxId /\ Ids \subseteq Int /\ 0..MaxId \subseteq Int
  BY ProxyExchangeAssumption DEF TypeOK, Sender, Ids

(* A step of the sender with the same exchange keeps what is said of the   *)
(* network and of the server.                                              *)
LEMMA SenderFrame ==
    ASSUME IInv, UNCHANGED <<mode, net, answer, serverVars>>, passed \subseteq passed'
    PROVE  /\ ServerInv' /\ Settled \subseteq Settled' /\ Confirmed' = Confirmed
           /\ RequestInv'
           /\ lastid' = lastid => LastInv'
PROOF
  <1>1. SameWork BY DEF SameWork, serverVars
  <1>2. ServerInv' /\ Settled \subseteq Settled' /\ Confirmed' = Confirmed
    BY <1>1, ServerFrame DEF IInv, serverVars
  <1>3. RequestInv' BY <1>2, Zenon DEF IInv, RequestInv
  <1>4. lastid' = lastid => LastInv' BY <1>2, Zenon DEF IInv, LastInv
  <1> QED BY <1>2, <1>3, <1>4

(* While no exchange is under way nothing is live.                         *)
LEMMA QuietLive ==
    ASSUME LiveInv, sender.phase # "wait"
    PROVE  answer = NoAnswer /\ NoLiveRequest /\ NoLiveTrapper
  BY DEF LiveInv

LEMMA QuietFrame ==
    ASSUME LiveInv, sender.phase # "wait", UNCHANGED <<net, answer, trapper>>
    PROVE  LiveInv'
PROOF
  <1>1. answer' = NoAnswer /\ NoLiveRequest' /\ NoLiveTrapper'
    BY QuietLive DEF NoLiveRequest, NoLiveTrapper
  <1> QED BY <1>1 DEF LiveInv, NoLiveRequest, NoLiveTrapper, NoAnswer

LEMMA StartReadingInv == ASSUME IInv, StartReading PROVE IInv'
PROOF
  <1>0. UNCHANGED <<mode, rows, lastid, token, upload_state, hist_upload, net, answer, serverVars, faults, passed>>
    BY DEF StartReading
  <1>1. /\ sender.phase = "idle" /\ MayRead
        /\ sender' = [phase |-> "read", pos |-> lastid, got |-> {}, batch |-> {}, waited |-> FALSE,
                      retries |-> MaxRetries]
    BY DEF StartReading, Idle
  <1>2. TypeInv'
    <2>1. sender' \in Sender
      BY <1>1, SenderType, ProxyExchangeAssumption DEF IInv, TypeInv, Sender
    <2> QED BY <1>0, <2>1 DEF IInv, TypeInv, TypeOK, serverVars
  <1>3. ServerInv' /\ RequestInv' /\ LastInv' BY <1>0, SenderFrame
  <1>4. ReadInv'
    <2>1. lastid \in Int /\ \A i \in Ids : i \in Int BY SenderType DEF IInv, TypeInv
    <2>2. mode = "passive" => net = {} /\ \A t \in Trappers : trapper[t].phase = "idle"
      BY <1>1 DEF MayRead
    <2>3. trapper' = trapper BY <1>0 DEF serverVars
    <2> QED BY <1>0, <1>1, <2>1, <2>2, <2>3 DEF ReadInv
  <1>5. BatchInv' BY <1>1 DEF BatchInv
  <1>6. LiveInv' BY <1>0, <1>1, QuietFrame DEF IInv, serverVars
  <1> QED BY <1>2, <1>3, <1>4, <1>5, <1>6 DEF IInv

LEMMA LookInv == ASSUME IInv, Look PROVE IInv'
PROOF
  <1> DEFINE found == Least(Visible(sender.pos), MaxRecords - Cardinality(sender.got))
             first == IF sender.waited THEN Min(found) ELSE sender.pos + 1
             inrow == {i \in found : \A j \in first..i : j \in found}
             again == found # inrow /\ sender.retries > 0
             pos == Max(inrow \cup {sender.pos})
             gap == (sender.pos + 1)..(first - 1)
  <1>0. UNCHANGED <<mode, rows, lastid, token, upload_state, hist_upload, net, answer, serverVars, faults>>
    BY DEF Look
  <1>1. /\ sender.phase = "read"
        /\ sender' = [sender EXCEPT !.got = sender.got \cup inrow, !.phase = IF again THEN "read" ELSE "send",
                        !.pos = pos, !.waited = again, !.retries = IF again THEN @ - 1 ELSE @]
        /\ passed' = IF found = {} THEN passed ELSE passed \cup gap
    BY Zenon DEF Look
  <1>2. found \subseteq Visible(sender.pos) BY DEF Least
  <1> HIDE DEF found
  <1>3. TypeOK BY DEF IInv, TypeInv
  <1>4. sender.pos \in 0..MaxId /\ sender.pos \in Int /\ lastid \in Int /\ MaxId \in Nat
    BY <1>3, SenderType, ProxyExchangeAssumption
  <1>5. found \subseteq Ids /\ \A i \in found : sender.pos < i /\ i \in Int /\ i \in 0..MaxId
    BY <1>2, <1>3, SenderType DEF Visible
  <1>6. found # {} => Min(found) \in found /\ \A y \in found : Min(found) <= y
    BY <1>5, MinProperties DEF Ids
  <1>7. found # {} => first \in Int /\ sender.pos < first /\ \A y \in found : first <= y
    <2> SUFFICES ASSUME found # {} PROVE first \in Int /\ sender.pos < first /\ \A y \in found : first <= y
      OBVIOUS
    <2>1. CASE sender.waited BY <2>1, <1>5, <1>6
    <2>2. CASE ~sender.waited BY <2>2, <1>4, <1>5
    <2> QED BY <2>1, <2>2
  <1>8. found # {} => gap \subseteq Ids
    <2> SUFFICES ASSUME found # {}, NEW i \in gap PROVE i \in Ids OBVIOUS
    <2>1. PICK y \in found : TRUE OBVIOUS
    <2>2. first <= y /\ y <= MaxId /\ first \in Int /\ y \in Int BY <1>5, <1>7
    <2> HIDE DEF first
    <2> QED BY <2>2, <1>4 DEF Ids
  <1>9. inrow \subseteq found /\ \A i \in inrow, j \in Int : first <= j /\ j <= i => j \in found
    <2>1. inrow \subseteq found OBVIOUS
    <2>2. \A i \in inrow : \A j \in first..i : j \in found BY Zenon
    <2>3. \A i \in inrow : first \in Int /\ i \in Int BY <1>5, <1>7, <2>1
    <2> HIDE DEF inrow, first
    <2> QED BY <2>1, <2>2, <2>3
  <1>10. \A i \in inrow, j \in Int : first <= j /\ j <= i => j \in inrow
    <2> SUFFICES ASSUME NEW i \in inrow, NEW j \in Int, first <= j, j <= i PROVE j \in inrow OBVIOUS
    <2>1. first \in Int /\ i \in Int BY <1>5, <1>7, <1>9
    <2>2. j \in found BY <1>9
    <2>3. \A h \in first..j : h \in found
      <3>1. TAKE h \in first..j
      <3> HIDE DEF first, inrow
      <3>2. h \in Int /\ first <= h /\ h <= i BY <2>1
      <3> QED BY <3>2, <1>9
    <2> QED BY <2>2, <2>3
  <1> HIDE DEF inrow, first
  <1>11. /\ pos \in inrow \cup {sender.pos} /\ pos \in 0..MaxId
         /\ \A i \in inrow : i <= pos
         /\ sender.pos <= pos
    <2>1. inrow \cup {sender.pos} \in SUBSET (0..MaxId) BY <1>4, <1>5, <1>9
    <2>2. pos \in inrow \cup {sender.pos} /\ \A y \in inrow \cup {sender.pos} : y <= pos
      BY <2>1, MaxProperties, Zenon
    <2> QED BY <2>1, <2>2
  <1>12. \A i \in Ids : sender.pos < i /\ i <= pos => i \in inrow \cup passed'
    <2> SUFFICES ASSUME NEW i \in Ids, sender.pos < i, i <= pos PROVE i \in inrow \cup passed' OBVIOUS
    <2>0. i \in Int /\ pos \in Int BY <1>3, <1>11, SenderType
    <2>1. pos \in inrow BY <1>11, <2>0, <1>4
    <2>2. found # {} /\ first \in Int BY <2>1, <1>9, <1>7
    <2>3. CASE first <= i BY <2>0, <2>1, <2>3, <1>10
    <2>4. CASE i < first
      <3>1. i \in gap BY <2>0, <2>2, <2>4, <1>4
      <3> QED BY <3>1, <2>2, <1>1
    <2> QED BY <2>0, <2>2, <2>3, <2>4
  <1> HIDE DEF pos, again
  <1>13. passed \subseteq passed' /\ passed' \subseteq Ids
    <2>1. passed \subseteq Ids BY <1>3 DEF TypeOK
    <2> HIDE DEF gap
    <2> QED BY <2>1, <1>1, <1>8
  <1>14. /\ sender'.phase \in {"read", "send"} /\ sender'.pos = pos /\ sender'.batch = sender.batch
         /\ sender'.got = sender.got \cup inrow
         /\ sender' \in Sender
    <2>1. sender \in Sender BY <1>3 DEF TypeOK
    <2>2. sender.got \cup inrow \in SUBSET Ids BY <1>3, <1>5, <1>9, SenderType
    <2>3. (IF again THEN sender.retries - 1 ELSE sender.retries) \in 0..MaxRetries
      <3>1. sender.retries \in 0..MaxRetries BY <1>3, SenderType
      <3>2. again => sender.retries > 0 BY DEF again
      <3> QED BY <3>1, <3>2, ProxyExchangeAssumption
    <2>4. again \in BOOLEAN BY DEF again
    <2> QED BY <1>1, <1>11, <2>1, <2>2, <2>3, <2>4 DEF Sender
  <1>15. TypeInv' BY <1>0, <1>13, <1>14 DEF IInv, TypeInv, TypeOK, serverVars
  <1>16. ServerInv' /\ RequestInv' /\ LastInv' /\ Settled \subseteq Settled' /\ Confirmed' = Confirmed
    BY <1>0, <1>13, SenderFrame
  <1>17. ReadInv'
    <2>1. /\ lastid <= sender.pos
          /\ \A i \in Ids : lastid < i /\ i <= sender.pos => i \in sender.got \cup sender.batch \cup passed
          /\ \A i \in sender.got \cup sender.batch : lastid < i /\ i <= sender.pos
          /\ \A b \in sender.batch, i \in sender.got : b < i
          /\ mode = "passive" => net = {} /\ \A t \in Trappers : trapper[t].phase = "idle"
      BY <1>1 DEF IInv, ReadInv
    <2>2. sender.got \subseteq Int /\ sender.batch \subseteq Int /\ inrow \subseteq Int /\ pos \in Int
          /\ Ids \subseteq Int
      BY <1>3, <1>5, <1>9, <1>11, SenderType
    <2>3. \A i \in inrow : sender.pos < i BY <1>5, <1>9
    <2>4. lastid <= pos BY <2>1, <2>2, <1>4, <1>11
    <2>5. \A i \in Ids : lastid < i /\ i <= pos => i \in (sender.got \cup inrow) \cup sender.batch \cup passed'
      BY <2>1, <2>2, <1>4, <1>12, <1>13
    <2>6. \A i \in (sender.got \cup inrow) \cup sender.batch : lastid < i /\ i <= pos
      <3>1. \A i \in inrow : lastid < i /\ i <= pos
        <4>1. \A i \in inrow : lastid < i BY <2>1, <2>2, <2>3, <1>4
        <4> QED BY <4>1, <1>11
      <3>2. \A i \in sender.got \cup sender.batch : i <= pos BY <2>1, <2>2, <1>4, <1>11
      <3> QED BY <3>1, <3>2, <2>1
    <2>7. \A b \in sender.batch, i \in sender.got \cup inrow : b < i
      <3>1. \A b \in sender.batch : b <= sender.pos BY <2>1
      <3>2. \A b \in sender.batch, i \in inrow : b < i BY <3>1, <2>2, <2>3, <1>4
      <3> QED BY <3>2, <2>1
    <2>8. mode' = "passive" => net' = {} /\ \A t \in Trappers : trapper'[t].phase = "idle"
      BY <2>1, <1>0 DEF serverVars
    <2>9. sender'.got \cup sender'.batch = (sender.got \cup inrow) \cup sender.batch
          /\ sender'.pos = pos /\ lastid' = lastid /\ sender'.batch = sender.batch /\ sender'.got = sender.got \cup inrow
      BY <1>0, <1>14
    <2> QED BY <2>4, <2>5, <2>6, <2>7, <2>8, <2>9, Zenon DEF ReadInv
  <1>18. BatchInv' BY <1>14 DEF BatchInv
  <1>19. LiveInv' BY <1>0, <1>1, QuietFrame DEF IInv, serverVars
  <1> QED BY <1>15, <1>16, <1>17, <1>18, <1>19 DEF IInv

LEMMA ReadMoreInv == ASSUME IInv, ReadMore PROVE IInv'
PROOF
  <1> DEFINE pos == Max(sender.got)
             batch == sender.batch \cup sender.got
  <1>0. UNCHANGED <<mode, rows, lastid, token, upload_state, hist_upload, net, answer, serverVars, faults, passed>>
    BY DEF ReadMore
  <1>1. /\ sender.phase = "send"
        /\ sender' = [phase |-> "read", pos |-> pos, got |-> {}, batch |-> batch, waited |-> FALSE,
                      retries |-> MaxRetries]
    BY DEF ReadMore, Idle
  <1>2. TypeOK BY DEF IInv, TypeInv
  <1>3. sender.got # {}
    BY FS_EmptySet, ProxyExchangeAssumption DEF ReadMore
  <1>4. pos \in sender.got /\ \A y \in sender.got : y <= pos
    <2>1. sender.got \in SUBSET (0..MaxId) BY <1>2, SenderType
    <2> QED BY <2>1, <1>3, MaxProperties, Zenon
  <1> HIDE DEF pos
  <1>5. /\ lastid <= sender.pos
        /\ \A i \in Ids : lastid < i /\ i <= sender.pos => i \in sender.got \cup sender.batch \cup passed
        /\ \A i \in sender.got \cup sender.batch : lastid < i /\ i <= sender.pos
        /\ \A b \in sender.batch, i \in sender.got : b < i
        /\ mode = "passive" => net = {} /\ \A t \in Trappers : trapper[t].phase = "idle"
    BY <1>1 DEF IInv, ReadInv
  <1>6. /\ sender.got \subseteq Int /\ sender.batch \subseteq Int /\ Ids \subseteq Int /\ pos \in 0..MaxId
        /\ lastid \in Int /\ sender.pos \in Int /\ batch \in SUBSET Ids
    BY <1>2, <1>4, SenderType
  <1>7. TypeInv'
    <2>1. sender' \in Sender BY <1>1, <1>6, ProxyExchangeAssumption DEF Sender
    <2> QED BY <1>0, <2>1 DEF IInv, TypeInv, TypeOK, serverVars
  <1>8. ServerInv' /\ RequestInv' /\ LastInv' BY <1>0, SenderFrame
  <1>9. ReadInv'
    <2>1. lastid < pos /\ pos <= sender.pos BY <1>4, <1>5
    <2>2. \A i \in Ids : lastid < i /\ i <= pos => i \in batch \cup passed
      <3>1. \A i \in Ids : i \in Int BY <1>6, Zenon
      <3>3. pos \in Int BY <1>6
      <3>2. \A i \in Ids : i <= pos => i <= sender.pos BY <2>1, <1>6, <3>1, <3>3
      <3> QED BY <3>2, <1>5
    <2>3. \A i \in batch : lastid < i /\ i <= pos BY <1>4, <1>5, <1>6
    <2>4. mode' = "passive" => net' = {} /\ \A t \in Trappers : trapper'[t].phase = "idle"
      BY <1>0, <1>5 DEF serverVars
    <2>5. sender'.phase = "read" /\ sender'.pos = pos /\ sender'.got = {} /\ sender'.batch = batch
      BY <1>1
    <2>6. lastid <= pos BY <2>1, <1>6
    <2> HIDE DEF batch
    <2> QED BY <1>0, <2>2, <2>3, <2>4, <2>5, <2>6 DEF ReadInv
  <1>10. BatchInv' BY <1>1 DEF BatchInv
  <1>11. LiveInv' BY <1>0, <1>1, QuietFrame DEF IInv, serverVars
  <1> QED BY <1>7, <1>8, <1>9, <1>10, <1>11 DEF IInv

(* Sending a request: rows of inactive items are left out, and what        *)
(* remains contains all that is not settled below its last row.            *)
LEMMA SendRequest ==
    ASSUME IInv, sender.phase # "wait", NEW batch \in SUBSET Ids,
           \A b \in batch, i \in Ids : lastid < i /\ i <= b => i \in batch \cup passed,
           batch = {} \/ Confirmed = {},
           sender' = [phase |-> "wait", pos |-> 0, got |-> {}, batch |-> batch, waited |-> FALSE, retries |-> 0],
           net' = net \cup {[live |-> TRUE, token |-> token, ids |-> batch \ Inactive]},
           UNCHANGED <<mode, rows, lastid, token, upload_state, hist_upload, answer, serverVars, faults, passed>>
    PROVE  IInv'
PROOF
  <1> DEFINE r == [live |-> TRUE, token |-> token, ids |-> batch \ Inactive]
  <1>0. sender'.phase = "wait" /\ sender'.batch = batch OBVIOUS
  <1>1. TypeOK BY DEF IInv, TypeInv
  <1>2. TypeInv'
    <2>0. 0 \in 0..MaxId /\ 0 \in 0..MaxRetries BY ProxyExchangeAssumption
    <2>4. [phase |-> "wait", pos |-> 0, got |-> {}, batch |-> batch, waited |-> FALSE, retries |-> 0] \in Sender
      BY <2>0 DEF Sender
    <2>1. sender' \in Sender BY <2>4, Zenon
    <2>2. r \in Request BY <1>1 DEF Request, TypeOK
    <2>3. net' = net \cup {r} OBVIOUS
    <2> HIDE DEF r
    <2> QED BY <2>1, <2>2, <2>3 DEF IInv, TypeInv, TypeOK, serverVars
  <1>3. SameWork BY DEF SameWork, serverVars
  <1>4. ServerInv' /\ Settled \subseteq Settled' /\ Confirmed' = Confirmed
    BY <1>3, ServerFrame DEF IInv, serverVars
  <1>5. LastInv' BY <1>4, Zenon DEF IInv, LastInv
  <1>6. ReadInv' BY <1>0 DEF ReadInv
  <1>7. BatchInv' BY <1>0 DEF BatchInv
  <1>8. LiveInv'
    <2>1. answer = NoAnswer /\ NoLiveRequest /\ NoLiveTrapper BY QuietLive DEF IInv
    <2>2. answer' = NoAnswer /\ NoLiveTrapper' BY <2>1 DEF NoLiveTrapper, serverVars
    <2>3. \A q \in net' : q.live => q = [live |-> TRUE, token |-> token, ids |-> batch \ Inactive]
      BY <2>1 DEF NoLiveRequest
    <2> QED BY <2>2, <2>3, <1>0 DEF LiveInv, NoLiveTrapper, NoAnswer
  <1>9. RequestInv'
    <2>1. \A b \in batch \ Inactive, i \in Ids : i <= b => i \in (batch \ Inactive) \cup Settled'
      <3> SUFFICES ASSUME NEW b \in batch \ Inactive, NEW i \in Ids, i <= b
                   PROVE  i \in (batch \ Inactive) \cup Settled'
        OBVIOUS
      <3>1. lastid \in Int /\ i \in Int BY <1>1, SenderType
      <3>2. CASE lastid < i
        <4>1. i \in batch \cup passed BY <3>2
        <4> QED BY <4>1, <1>4 DEF Settled
      <3>3. CASE i <= lastid
        <4>1. i \in Settled \cup Confirmed BY <3>3 DEF IInv, LastInv
        <4> QED BY <4>1, <1>4
      <3> QED BY <3>1, <3>2, <3>3
    <2>2. \A q \in net : \A b \in q.ids, i \in Ids : i <= b => i \in q.ids \cup Settled'
      BY <1>4, Zenon DEF IInv, RequestInv
    <2>3. r.ids = batch \ Inactive OBVIOUS
    <2>4. SUFFICES ASSUME NEW q \in net', NEW b \in q.ids, NEW i \in Ids, i <= b
                   PROVE  i \in q.ids \cup Settled'
      BY DEF RequestInv
    <2>7. q \in net \/ q = r BY <2>4
    <2>5. CASE q \in net BY <2>2, <2>4, <2>5
    <2>6. CASE q = r BY <2>1, <2>3, <2>4, <2>6
    <2> QED BY <2>5, <2>6, <2>7
  <1> QED BY <1>2, <1>4, <1>5, <1>6, <1>7, <1>8, <1>9 DEF IInv

LEMMA SendInv == ASSUME IInv, Send PROVE IInv'
PROOF
  <1>0. UNCHANGED <<mode, rows, lastid, token, upload_state, hist_upload, answer, serverVars, faults, passed>>
    BY DEF Send
  <1>1. sender.phase = "send" BY DEF Send
  <1>2. PICK last \in (sender.got \ Inactive) \cup {MaxId} :
          LET batch == sender.batch \cup {i \in sender.got : i <= last}
          IN /\ sender' = [Idle EXCEPT !.phase = "wait", !.batch = batch]
             /\ net' = net \cup {[live |-> TRUE, token |-> token, ids |-> batch \ Inactive]}
    BY DEF Send
  <1> DEFINE batch == sender.batch \cup {i \in sender.got : i <= last}
  <1>3. TypeOK BY DEF IInv, TypeInv
  <1>4. /\ sender.got \in SUBSET Ids /\ sender.batch \in SUBSET Ids /\ Ids \subseteq Int /\ last \in Int
        /\ lastid \in Int /\ sender.pos \in Int /\ batch \in SUBSET Ids
    BY <1>3, SenderType, ProxyExchangeAssumption
  <1>5. \A b \in batch, i \in Ids : lastid < i /\ i <= b => i \in batch \cup passed
    <2> SUFFICES ASSUME NEW b \in batch, NEW i \in Ids, lastid < i, i <= b PROVE i \in batch \cup passed
      OBVIOUS
    <2>1. b \in sender.got \cup sender.batch /\ b \in Int /\ i \in Int BY <1>4
    <2>2. b <= sender.pos BY <1>1, <2>1 DEF IInv, ReadInv
    <2>3. i <= sender.pos BY <2>1, <2>2, <1>4
    <2>4. i \in sender.got \cup sender.batch \cup passed BY <1>1, <2>3 DEF IInv, ReadInv
    <2>5. CASE i \in sender.got
      <3>1. b \notin sender.batch
        <4>1. b \in sender.batch => b < i BY <1>1, <2>5 DEF IInv, ReadInv
        <4> QED BY <4>1, <2>1
      <3>2. b <= last BY <3>1
      <3>3. i <= last BY <3>2, <2>1, <1>4
      <3> QED BY <3>3, <2>5
    <2> QED BY <2>4, <2>5
  <1>6. Confirmed = {}
    <2>1. mode = "passive" => \A t \in Trappers : trapper[t].phase = "idle" BY <1>1 DEF IInv, ReadInv
    <2>2. \A t \in Trappers : trapper[t].phase = "idle" => trapper[t].todo = {} /\ trapper[t].ok = {}
      BY DEF IInv, ServerInv, WorkInv, Work
    <2> QED BY <2>1, <2>2 DEF Confirmed
  <1>7. /\ sender' = [phase |-> "wait", pos |-> 0, got |-> {}, batch |-> batch, waited |-> FALSE, retries |-> 0]
        /\ net' = net \cup {[live |-> TRUE, token |-> token, ids |-> batch \ Inactive]}
    BY <1>2 DEF Idle
  <1> HIDE DEF batch
  <1> QED BY <1>0, <1>1, <1>4, <1>5, <1>6, <1>7, SendRequest

LEMMA ProbeInv == ASSUME IInv, Probe PROVE IInv'
PROOF
  <1>0. UNCHANGED <<mode, rows, lastid, token, upload_state, hist_upload, answer, serverVars, faults, passed>>
    BY DEF Probe
  <1>1. /\ sender.phase = "idle"
        /\ sender' = [phase |-> "wait", pos |-> 0, got |-> {}, batch |-> {}, waited |-> FALSE, retries |-> 0]
    BY DEF Probe, Idle
  <1>2. net' = net \cup {[live |-> TRUE, token |-> token, ids |-> {} \ Inactive]}
    <2>1. {} \ Inactive = {} OBVIOUS
    <2>2. net' = net \cup {[live |-> TRUE, token |-> token, ids |-> {}]} BY DEF Probe
    <2> QED BY <2>1, <2>2, Zenon
  <1>3. /\ {} \in SUBSET Ids /\ sender.phase # "wait"
        /\ \A b \in {}, i \in Ids : lastid < i /\ i <= b => i \in {} \cup passed
    BY <1>1
  <1> QED BY <1>0, <1>1, <1>2, <1>3, SendRequest, Zenon

LEMMA ReceiveAnswerInv == ASSUME IInv, ReceiveAnswer PROVE IInv'
PROOF
  <1>0. UNCHANGED <<mode, rows, token, net, serverVars, faults, passed>> BY DEF ReceiveAnswer
  <1>1. /\ sender.phase = "wait" /\ answer # NoAnswer
        /\ upload_state' = (answer.ok \/ mode = "passive")
        /\ hist_upload' = NewUpload /\ lastid' = NewLastid
        /\ sender' = Idle /\ answer' = NoAnswer
    BY DEF ReceiveAnswer
  <1>2. TypeOK BY DEF IInv, TypeInv
  <1>3. /\ sender.batch \in SUBSET (0..MaxId) /\ lastid \in 0..MaxId /\ lastid \in Int /\ Ids \subseteq Int
        /\ 0..MaxId \subseteq Int
    BY <1>2, SenderType
  <1>4. sender.batch # {} => Max(sender.batch) \in sender.batch /\ Max(sender.batch) \in 0..MaxId
    BY <1>3, MaxProperties
  <1>5. TypeInv'
    <2>1. Idle \in Sender BY ProxyExchangeAssumption DEF Idle, Sender
    <2>2. lastid' \in 0..MaxId BY <1>1, <1>3, <1>4 DEF NewLastid
    <2>3. answer \in Answer BY <1>1, <1>2 DEF TypeOK
    <2>4. upload_state' \in BOOLEAN
      <3>1. answer.ok \in BOOLEAN BY <2>3 DEF Answer
      <3> QED BY <3>1, <1>1, Zenon
    <2>5. hist_upload' \in BOOLEAN
      <3>1. hist_upload \in BOOLEAN BY <1>2 DEF TypeOK
      <3> QED BY <3>1, <1>1, Zenon DEF NewUpload
    <2> QED BY <1>0, <1>1, <2>1, <2>2, <2>4, <2>5 DEF IInv, TypeInv, TypeOK, serverVars
  <1>6. SameWork BY <1>0 DEF SameWork, serverVars
  <1>7. ServerInv' /\ Settled \subseteq Settled' /\ Confirmed' = Confirmed
    BY <1>0, <1>6, ServerFrame DEF IInv, serverVars
  <1>8. LastInv'
    <2>1. \A i \in Ids : i <= lastid => i \in Settled' \cup Confirmed'
      BY <1>7, Zenon DEF IInv, LastInv
    <2>2. CASE answer.ok /\ sender.batch # {}
      <3> SUFFICES ASSUME NEW i \in Ids, i <= lastid' PROVE i \in Settled' \cup Confirmed' BY DEF LastInv
      <3>1. lastid' = Max(sender.batch) BY <1>1, <2>2 DEF NewLastid
      <3>2. CASE i <= lastid BY <2>1, <3>2
      <3>3. CASE lastid < i
        <4>1. i \in sender.batch \cup passed
          BY <1>1, <1>4, <2>2, <3>1, <3>3 DEF IInv, BatchInv
        <4>2. sender.batch \subseteq Settled \cup Confirmed BY <2>2 DEF IInv, LiveInv
        <4> QED BY <4>1, <4>2, <1>7 DEF Settled
      <3>4. i \in Int BY <1>3
      <3> QED BY <3>2, <3>3, <3>4, <1>3
    <2>3. CASE ~(answer.ok /\ sender.batch # {})
      <3>1. lastid' = lastid BY <1>1, <2>3 DEF NewLastid
      <3> QED BY <2>1, <3>1 DEF LastInv
    <2> QED BY <2>2, <2>3
  <1>9. ReadInv' /\ BatchInv' BY <1>1 DEF ReadInv, BatchInv, Idle
  <1>10. LiveInv'
    <2>1. NoLiveRequest /\ NoLiveTrapper BY <1>1 DEF IInv, LiveInv
    <2>2. NoLiveRequest' /\ NoLiveTrapper' BY <1>0, <2>1 DEF NoLiveRequest, NoLiveTrapper, serverVars
    <2> QED BY <1>1, <2>2 DEF LiveInv, NoLiveRequest, NoLiveTrapper, NoAnswer
  <1>11. RequestInv' BY <1>0, <1>7, Zenon DEF IInv, RequestInv
  <1> QED BY <1>5, <1>7, <1>8, <1>9, <1>10, <1>11 DEF IInv

(* The proxy does not wait any more: requests and trapper go on without    *)
(* it.                                                                     *)
LEMMA AbandonFrame ==
    ASSUME IInv, net' \subseteq {Dead(r) : r \in net}, trapper' = DeadTrapper(trapper),
           sender' = Idle, answer' = NoAnswer,
           UNCHANGED <<mode, lastid, sessions, taken, dropped, seen, repeated, shared, passed>>
    PROVE  /\ net' \subseteq Request /\ trapper' \in [Trappers -> Trapper] /\ sender' \in Sender
           /\ LastInv' /\ ReadInv' /\ BatchInv' /\ LiveInv' /\ RequestInv' /\ ServerInv'
PROOF
  <1>0. TypeOK BY DEF IInv, TypeInv
  <1>1. \A r \in net : Dead(r) \in Request /\ Dead(r).live = FALSE /\ Dead(r).ids = r.ids
    BY <1>0 DEF TypeOK, Request, Dead
  <1>2. \A t \in Trappers : trapper'[t] = [trapper[t] EXCEPT !.live = FALSE] BY DEF DeadTrapper, Dead
  <1>3. \A t \in Trappers : trapper[t] \in Trapper BY <1>0 DEF TypeOK
  <1>4. SameWork /\ NoLiveTrapper' BY <1>2, <1>3 DEF SameWork, Trapper, NoLiveTrapper
  <1>5. trapper' \in [Trappers -> Trapper]
    <2>1. \A t \in Trappers : [trapper[t] EXCEPT !.live = FALSE] \in Trapper BY <1>3 DEF Trapper
    <2> QED BY <2>1 DEF DeadTrapper, Dead
  <1>6. net' \subseteq Request /\ NoLiveRequest' BY <1>1 DEF NoLiveRequest
  <1>7. sender' \in Sender BY ProxyExchangeAssumption DEF Idle, Sender
  <1>8. ServerInv' /\ Settled \subseteq Settled' /\ Confirmed' = Confirmed
    BY <1>4, ServerFrame DEF IInv
  <1>9. LastInv' BY <1>8, Zenon DEF IInv, LastInv
  <1>10. ReadInv' /\ BatchInv' BY DEF ReadInv, BatchInv, Idle
  <1>11. LiveInv' BY <1>4, <1>6 DEF LiveInv, NoLiveRequest, NoLiveTrapper, NoAnswer
  <1>12. RequestInv'
    <2> SUFFICES ASSUME NEW q \in net', NEW b \in q.ids, NEW i \in Ids, i <= b
                 PROVE  i \in q.ids \cup Settled'
      BY DEF RequestInv
    <2>1. PICK r \in net : q = Dead(r) OBVIOUS
    <2>2. q.ids = r.ids BY <2>1, <1>1
    <2> QED BY <2>2, <1>8 DEF IInv, RequestInv
  <1> QED BY <1>5, <1>6, <1>7, <1>8, <1>9, <1>10, <1>11, <1>12

LEMMA GiveUpInv == ASSUME IInv, GiveUp PROVE IInv'
PROOF
  <1>1. /\ UNCHANGED <<mode, rows, lastid, token, hist_upload, sessions, taken, dropped, seen, repeated, shared, passed>>
        /\ upload_state' = (mode = "passive") /\ sender' = Idle /\ answer' = NoAnswer
        /\ trapper' = DeadTrapper(trapper)
    BY DEF GiveUp
  <1>2. net' \subseteq {Dead(r) : r \in net} BY DEF GiveUp
  <1>3. faults' \in {faults, faults + 1} /\ faults' <= MaxFaults BY Zenon DEF GiveUp
  <1>4. TypeOK /\ faults \in Nat /\ token \in Int /\ token <= faults + 1
    BY ProxyExchangeAssumption DEF IInv, TypeInv, TypeOK, Tokens
  <1>5. /\ net' \subseteq Request /\ trapper' \in [Trappers -> Trapper] /\ sender' \in Sender
        /\ LastInv' /\ ReadInv' /\ BatchInv' /\ LiveInv' /\ RequestInv' /\ ServerInv'
    BY <1>1, <1>2, AbandonFrame
  <1>6. faults' \in 0..MaxFaults /\ token' <= faults' + 1
    <2>1. MaxFaults \in Nat /\ token' = token BY <1>1, ProxyExchangeAssumption
    <2>2. faults' = faults \/ faults' = faults + 1 BY <1>3
    <2>3. faults \in Nat /\ token \in Int /\ token <= faults + 1 /\ faults' <= MaxFaults BY <1>3, <1>4
    <2>4. faults' \in Nat /\ faults <= faults' BY <2>2, <2>3
    <2>5. faults' \in 0..MaxFaults BY <2>1, <2>3, <2>4
    <2>6. token <= faults' + 1
      <3>1. \A a \in Int, b, c \in Nat : a <= b + 1 /\ b <= c => a <= c + 1 OBVIOUS
      <3> QED BY <2>3, <2>4, <3>1, Zenon
    <2> QED BY <2>1, <2>5, <2>6, Zenon
  <1>7. upload_state' \in BOOLEAN BY <1>1
  <1>8. TypeInv' BY <1>1, <1>4, <1>5, <1>6, <1>7 DEF TypeInv, TypeOK
  <1> QED BY <1>5, <1>8 DEF IInv

LEMMA RestartProxyInv == ASSUME IInv, RestartProxy PROVE IInv'
PROOF
  <1>1. /\ UNCHANGED <<mode, lastid, sessions, taken, dropped, seen, repeated, shared, passed>>
        /\ upload_state' = TRUE /\ hist_upload' = TRUE /\ sender' = Idle /\ answer' = NoAnswer
        /\ trapper' = DeadTrapper(trapper) /\ net' = {Dead(r) : r \in net}
        /\ rows' = [i \in Ids |-> IF rows[i] = "open" THEN "gone" ELSE rows[i]]
        /\ faults < MaxFaults /\ faults' = faults + 1 /\ token' = token + 1
    BY DEF RestartProxy
  <1>2. TypeOK /\ faults \in Nat /\ token \in Nat /\ token >= 1 /\ token <= faults + 1
    BY ProxyExchangeAssumption DEF IInv, TypeInv, TypeOK, Tokens
  <1>3. /\ net' \subseteq Request /\ trapper' \in [Trappers -> Trapper] /\ sender' \in Sender
        /\ LastInv' /\ ReadInv' /\ BatchInv' /\ LiveInv' /\ RequestInv' /\ ServerInv'
    BY <1>1, AbandonFrame
  <1>4. faults' \in 0..MaxFaults /\ token' <= faults' + 1 /\ token' \in Tokens
    BY <1>1, <1>2, ProxyExchangeAssumption DEF Tokens
  <1>5. rows' \in [Ids -> {"none", "open", "visible", "gone"}] BY <1>1, <1>2 DEF TypeOK
  <1>6. TypeInv' BY <1>1, <1>2, <1>3, <1>4, <1>5 DEF TypeInv, TypeOK
  <1> QED BY <1>3, <1>6 DEF IInv

------------------------------------------------------------------------------
(* The trappers *)

(* The record of a trapper has its types.                                  *)
LEMMA TrapperType ==
    ASSUME TypeOK, NEW t \in Trappers
    PROVE  /\ trapper[t] \in Trapper /\ trapper[t].token \in Tokens
           /\ trapper[t].todo \in SUBSET Ids /\ trapper[t].ok \in SUBSET Ids /\ trapper[t].chunk \in SUBSET Ids
           /\ trapper[t].last \in 0..MaxId /\ trapper[t].live \in BOOLEAN
           /\ sessions[trapper[t].token] \in 0..MaxId \cup {NoSession} /\ seen[trapper[t].token] \in SUBSET Ids
           /\ Ids \subseteq Int /\ 0..MaxId \subseteq Int /\ NoSession \in Int /\ Ids \subseteq 0..MaxId
  BY ProxyExchangeAssumption DEF TypeOK, Trapper, Ids, NoSession

(* In a session that was never shared a trapper is alone.                  *)
LEMMA Alone ==
    ASSUME IInv, NEW t \in Trappers, trapper[t].phase # "idle", trapper[t].token \in Tokens \ shared
    PROVE  /\ \A u \in Trappers : Busy(u, trapper[t].token) => u = t
           /\ \A i \in seen[trapper[t].token] : i <= sessions[trapper[t].token] \/ i <= trapper[t].last
           /\ trapper[t].phase = "create" => sessions[trapper[t].token] = NoSession
           /\ trapper[t].phase = "reset" => seen[trapper[t].token] = {}
           /\ trapper[t].phase = "process" => \A i \in trapper[t].ok : sessions[trapper[t].token] < i
           /\ trapper[t].phase # "reset" => \A i \in Ids : i <= sessions[trapper[t].token] => i \in Settled
PROOF
  <1> DEFINE k == trapper[t].token
  <1>1. Busy(t, k) BY DEF Busy
  <1>2. \A u \in Trappers : Busy(u, k) => u = t BY <1>1 DEF IInv, ServerInv, SharedInv
  <1>3. /\ \A i \in seen[k] : i <= sessions[k] \/ \E u \in Trappers : Busy(u, k) /\ i <= trapper[u].last
        /\ trapper[t].phase = "create" => sessions[k] = NoSession
        /\ trapper[t].phase = "reset" => seen[k] = {}
        /\ trapper[t].phase = "process" => \A i \in trapper[t].ok : sessions[k] < i
    BY <1>1 DEF IInv, ServerInv, SeenInv
  <1>4. trapper[t].phase # "reset" => ~Raw(k) BY <1>2 DEF Raw, Busy
  <1>5. trapper[t].phase # "reset" => \A i \in Ids : i <= sessions[k] => i \in Settled
    BY <1>4 DEF IInv, ServerInv, SessionInv
  <1> QED BY <1>2, <1>3, <1>5

(* A step of one trapper that keeps its session or ends its work.          *)
TrapperStep(t, w) ==
    /\ w \in Trapper /\ trapper' = [trapper EXCEPT ![t] = w]
    /\ w.phase = "idle" \/ w.token = trapper[t].token
    /\ UNCHANGED <<mode, proxyVars, net, shared, faults, passed>>
    /\ taken \subseteq taken' /\ dropped \subseteq dropped'

LEMMA OtherTrappers ==
    ASSUME TypeOK, NEW t \in Trappers, NEW w, trapper' = [trapper EXCEPT ![t] = w]
    PROVE  trapper'[t] = w /\ \A u \in Trappers : u # t => trapper'[u] = trapper[u]
  BY DEF TypeOK

(* It keeps what is said of the proxy and of the trappers when it leaves   *)
(* nothing it had in hand undone.                                          *)
LEMMA TrapperFrame ==
    ASSUME IInv, NEW t \in Trappers, trapper[t].phase # "idle", NEW w, TrapperStep(t, w),
           trapper[t].todo \cup trapper[t].ok \subseteq w.todo \cup w.ok \cup Settled',
           Work(w), Sound(w, Settled')
    PROVE  /\ LastInv' /\ ReadInv' /\ BatchInv' /\ RequestInv' /\ WorkInv' /\ SoundInv' /\ SharedInv'
           /\ Settled \subseteq Settled' /\ Settled \cup Confirmed \subseteq (Settled \cup Confirmed)'
PROOF
  <1>0. TypeOK /\ UNCHANGED <<mode, proxyVars, net, shared, faults, passed>>
    BY DEF IInv, TypeInv, TrapperStep
  <1>1. trapper'[t] = w /\ \A u \in Trappers : u # t => trapper'[u] = trapper[u]
    BY <1>0, OtherTrappers DEF TrapperStep
  <1>2. Settled \subseteq Settled' BY <1>0 DEF Settled, TrapperStep
  <1>3. Settled \cup Confirmed \subseteq (Settled \cup Confirmed)'
    <2>1. \A u \in Trappers : trapper[u].todo \cup trapper[u].ok
                                \subseteq trapper'[u].todo \cup trapper'[u].ok \cup Settled'
      BY <1>1
    <2>2. Confirmed \subseteq Settled' \cup Confirmed'
      <3>1. CASE mode = "passive"
        <4>1. Confirmed = UNION {trapper[u].todo \cup trapper[u].ok : u \in Trappers}
          BY <3>1, Zenon DEF Confirmed
        <4>2. Confirmed' = UNION {trapper'[u].todo \cup trapper'[u].ok : u \in Trappers}
          BY <3>1, <1>0, Zenon DEF Confirmed
        <4>3. SUFFICES ASSUME NEW i \in Confirmed PROVE i \in Settled' \cup Confirmed' OBVIOUS
        <4>4. PICK u \in Trappers : i \in trapper[u].todo \cup trapper[u].ok BY <4>1
        <4>5. i \in trapper'[u].todo \cup trapper'[u].ok \cup Settled' BY <2>1, <4>4
        <4> QED BY <4>2, <4>5
      <3>2. CASE mode # "passive" BY <3>2 DEF Confirmed
      <3> QED BY <3>1, <3>2
    <2> QED BY <1>2, <2>2
  <1>4. LastInv' /\ ReadInv' /\ BatchInv' /\ RequestInv'
    BY <1>0, <1>2, <1>3, ProxyFrame DEF IInv
  <1>5. WorkInv' BY <1>1 DEF IInv, ServerInv, WorkInv
  <1>6. SoundInv'
    <2>1. \A u \in Trappers : Sound(trapper[u], Settled) => Sound(trapper[u], Settled')
      BY <1>2, Zenon DEF Sound
    <2>2. \A u \in Trappers : Sound(trapper'[u], Settled')
      BY <1>1, <2>1 DEF IInv, ServerInv, SoundInv
    <2> QED BY <2>2, Zenon DEF SoundInv
  <1>7. \A u \in Trappers, k \in Tokens : Busy(u, k)' => Busy(u, k)
    BY <1>1 DEF Busy, TrapperStep
  <1>8. SharedInv'
    <2>1. SharedInv /\ shared' = shared BY <1>0 DEF IInv, ServerInv
    <2> QED BY <1>7, <2>1, Zenon DEF SharedInv
  <1> QED BY <1>2, <1>3, <1>4, <1>5, <1>6, <1>8

(* It keeps what is said of the sessions when it keeps that of its own.    *)
LEMMA SessionFrame ==
    ASSUME IInv, NEW t \in Trappers, trapper[t].phase # "idle", NEW w, TrapperStep(t, w),
           NEW k \in Tokens, k = trapper[t].token,
           \A j \in Tokens \ {k} : sessions'[j] = sessions[j] /\ seen'[j] = seen[j],
           k \notin shared =>
              /\ \A i \in seen'[k] : i <= sessions'[k] \/ (w.phase # "idle" /\ i <= w.last)
              /\ w.phase = "create" => sessions'[k] = NoSession
              /\ w.phase = "reset" => seen'[k] = {}
              /\ w.phase = "process" => \A i \in w.ok : sessions'[k] < i
              /\ w.phase # "reset" => \A i \in Ids : i <= sessions'[k] => i \in Settled'
    PROVE  SessionInv' /\ SeenInv'
PROOF
  <1>0. TypeOK /\ shared' = shared /\ Settled \subseteq Settled'
    BY DEF IInv, TypeInv, TrapperStep, Settled
  <1>1. trapper'[t] = w /\ \A u \in Trappers : u # t => trapper'[u] = trapper[u]
    BY <1>0, OtherTrappers DEF TrapperStep
  <1>2. w.phase = "idle" \/ w.token = k BY DEF TrapperStep
  <1>3. \A u \in Trappers, j \in Tokens : j # k => Busy(u, j)' = Busy(u, j)
    <2> SUFFICES ASSUME NEW u \in Trappers, NEW j \in Tokens, j # k PROVE Busy(u, j)' = Busy(u, j) OBVIOUS
    <2>1. CASE u = t
      <3>1. ~Busy(t, j) BY DEF Busy
      <3>2. ~Busy(t, j)' BY <1>1, <1>2 DEF Busy
      <3> QED BY <2>1, <3>1, <3>2 DEF Busy
    <2>2. CASE u # t BY <1>1, <2>2 DEF Busy
    <2> QED BY <2>1, <2>2
  <1>4. k \notin shared => \A u \in Trappers : Busy(u, k)' => u = t
    <2>1. k \notin shared => \A u \in Trappers : Busy(u, k) => u = t BY Alone
    <2>2. \A u \in Trappers : u # t => Busy(u, k)' = Busy(u, k) BY <1>1 DEF Busy
    <2> QED BY <2>1, <2>2
  <1>5. SessionInv'
    <2> SUFFICES ASSUME NEW j \in Tokens \ shared, ~Raw(j)', NEW i \in Ids, i <= sessions'[j]
                 PROVE  i \in Settled'
      BY <1>0 DEF SessionInv
    <2>1. CASE j = k
      <3>1. CASE w.phase = "reset"
        <4>1. Raw(k)' BY <1>1, <1>2, <3>1 DEF Raw
        <4> QED BY <2>1, <4>1
      <3>2. CASE w.phase # "reset" BY <2>1, <3>2
      <3> QED BY <3>1, <3>2
    <2>2. CASE j # k
      <3>1. ~Raw(j)
        <4>1. \A u \in Trappers : u # t /\ trapper[u].phase = "reset" => trapper[u].token # j
          BY <1>1 DEF Raw
        <4> QED BY <2>2, <4>1 DEF Raw
      <3> QED BY <2>2, <3>1, <1>0 DEF IInv, ServerInv, SessionInv
    <2> QED BY <2>1, <2>2
  <1>6. SeenInv'
    <2> SUFFICES ASSUME NEW j \in Tokens \ shared
                 PROVE  /\ \A i \in seen'[j] : i <= sessions'[j]
                                \/ \E u \in Trappers : Busy(u, j)' /\ i <= trapper'[u].last
                        /\ \A u \in Trappers : Busy(u, j)' =>
                              /\ trapper'[u].phase = "create" => sessions'[j] = NoSession
                              /\ trapper'[u].phase = "reset" => seen'[j] = {}
                              /\ trapper'[u].phase = "process" => \A i \in trapper'[u].ok : sessions'[j] < i
      BY <1>0, Zenon DEF SeenInv
    <2>1. CASE j = k
      <3>1. w.phase # "idle" => Busy(t, k)' BY <1>1, <1>2 DEF Busy
      <3>2. \A u \in Trappers : Busy(u, k)' => u = t BY <1>4, <2>1
      <3>3. /\ \A i \in seen'[k] : i <= sessions'[k] \/ (w.phase # "idle" /\ i <= w.last)
            /\ w.phase = "create" => sessions'[k] = NoSession
            /\ w.phase = "reset" => seen'[k] = {}
            /\ w.phase = "process" => \A i \in w.ok : sessions'[k] < i
        BY <2>1
      <3> QED BY <1>1, <2>1, <3>1, <3>2, <3>3
    <2>2. CASE j # k
      <3>1. /\ \A i \in seen[j] : i <= sessions[j] \/ \E u \in Trappers : Busy(u, j) /\ i <= trapper[u].last
            /\ \A u \in Trappers : Busy(u, j) =>
                  /\ trapper[u].phase = "create" => sessions[j] = NoSession
                  /\ trapper[u].phase = "reset" => seen[j] = {}
                  /\ trapper[u].phase = "process" => \A i \in trapper[u].ok : sessions[j] < i
        BY DEF IInv, ServerInv, SeenInv
      <3>2. ~Busy(t, j) BY <2>2 DEF Busy
      <3>3. \A u \in Trappers : Busy(u, j)' = Busy(u, j) BY <1>3, <2>2
      <3>4. \A u \in Trappers : Busy(u, j) => trapper'[u] = trapper[u] BY <1>1, <3>2
      <3>5. sessions'[j] = sessions[j] /\ seen'[j] = seen[j] BY <2>2
      <3> QED BY <3>1, <3>3, <3>4, <3>5, Zenon
    <2> QED BY <2>1, <2>2
  <1> QED BY <1>5, <1>6

(* A proxy that waits for a trapper goes on waiting while it works.        *)
LEMMA LiveFrame ==
    ASSUME IInv, NEW t \in Trappers, trapper[t].phase # "idle", NEW w, TrapperStep(t, w),
           w.live => trapper[t].live /\ w.phase # "idle", answer' = answer,
           trapper[t].todo \cup trapper[t].ok \subseteq w.todo \cup w.ok \cup Settled',
           Settled \subseteq Settled', Settled \cup Confirmed \subseteq (Settled \cup Confirmed)'
    PROVE  LiveInv'
PROOF
  <1>0. TypeOK /\ UNCHANGED <<mode, sender, token, net, answer>>
    BY DEF IInv, TypeInv, TrapperStep, proxyVars
  <1>1. trapper'[t] = w /\ \A u \in Trappers : u # t => trapper'[u] = trapper[u]
    BY <1>0, OtherTrappers DEF TrapperStep
  <1>2. \A u \in Trappers : trapper'[u].live => trapper[u].live BY <1>1
  <1>3. (NoLiveRequest => NoLiveRequest') /\ (NoLiveTrapper => NoLiveTrapper')
    BY <1>0, <1>2 DEF NoLiveRequest, NoLiveTrapper
  <1>4. \A u \in Trappers : trapper'[u].live /\ trapper[u].phase # "idle" => trapper'[u].phase # "idle" BY <1>1
  <1>5. \A u \in Trappers : trapper[u].todo \cup trapper[u].ok
                              \subseteq trapper'[u].todo \cup trapper'[u].ok \cup Settled'
    BY <1>1
  <1>6. /\ sender.phase # "wait" => answer = NoAnswer /\ NoLiveRequest /\ NoLiveTrapper
        /\ answer # NoAnswer => NoLiveRequest /\ NoLiveTrapper
        /\ \A r \in net : r.live => r = [live |-> TRUE, token |-> token, ids |-> sender.batch \ Inactive]
        /\ \A u \in Trappers : trapper[u].live =>
              /\ NoLiveRequest
              /\ mode = "active" /\ trapper[u].phase # "idle"
              /\ \A v \in Trappers : trapper[v].live => v = u
              /\ sender.batch \subseteq Settled \cup trapper[u].todo \cup trapper[u].ok
        /\ answer.ok => sender.batch \subseteq Settled \cup Confirmed
    BY Zenon DEF IInv, LiveInv
  <1>7. sender'.phase # "wait" => answer' = NoAnswer /\ NoLiveRequest' /\ NoLiveTrapper'
    BY <1>0, <1>3, <1>6, Zenon
  <1>8. answer' # NoAnswer => NoLiveRequest' /\ NoLiveTrapper' BY <1>0, <1>3, <1>6, Zenon
  <1>9. \A r \in net' : r.live => r = [live |-> TRUE, token |-> token', ids |-> sender'.batch \ Inactive]
    BY <1>0, <1>6, Zenon
  <1>10. ASSUME NEW u \in Trappers, trapper'[u].live
         PROVE  /\ NoLiveRequest'
                /\ mode' = "active" /\ trapper'[u].phase # "idle"
                /\ \A v \in Trappers : trapper'[v].live => v = u
                /\ sender'.batch \subseteq Settled' \cup trapper'[u].todo \cup trapper'[u].ok
    <2>1. trapper[u].live BY <1>2, <1>10
    <2>2. /\ NoLiveRequest /\ mode = "active" /\ trapper[u].phase # "idle"
          /\ \A v \in Trappers : trapper[v].live => v = u
          /\ sender.batch \subseteq Settled \cup trapper[u].todo \cup trapper[u].ok
      BY <1>6, <2>1, Zenon
    <2>3. \A v \in Trappers : trapper'[v].live => v = u BY <1>2, <2>2, Zenon
    <2>4. sender.batch \subseteq Settled' \cup trapper'[u].todo \cup trapper'[u].ok BY <1>5, <2>2
    <2> QED BY <1>0, <1>3, <1>4, <1>10, <2>2, <2>3, <2>4, Zenon
  <1>11. answer'.ok => sender'.batch \subseteq Settled' \cup Confirmed' BY <1>0, <1>6
  <1> QED BY <1>7, <1>8, <1>9, <1>10, <1>11, Zenon DEF LiveInv

(* The types of a trapper's step.                                          *)
LEMMA StepType ==
    ASSUME IInv, NEW t \in Trappers, NEW w, TrapperStep(t, w),
           answer' \in Answer \cup {NoAnswer},
           sessions' \in [Tokens -> 0..MaxId \cup {NoSession}], seen' \in [Tokens -> SUBSET Ids],
           taken' \in SUBSET Ids, dropped' \in SUBSET Ids, repeated' \in SUBSET Tokens
    PROVE  TypeInv'
PROOF
  <1>1. TypeOK /\ token <= faults + 1 BY DEF IInv, TypeInv
  <1>2. trapper' \in [Trappers -> Trapper] BY <1>1 DEF TypeOK, TrapperStep
  <1> QED BY <1>1, <1>2 DEF TypeInv, TypeOK, TrapperStep, proxyVars

(* Until it looks at the ids, only the phase of its work changes.          *)
LEMMA PhaseFrame ==
    ASSUME IInv, NEW t \in Trappers, trapper[t].phase \in {"lookup", "create", "reset"},
           NEW p \in {"create", "reset", "check"}, trapper' = [trapper EXCEPT ![t].phase = p],
           UNCHANGED <<mode, proxyVars, net, answer, taken, dropped, shared, repeated, faults, passed>>
    PROVE  /\ \E w \in Trapper : TrapperStep(t, w) /\ w.phase = p /\ w.last = trapper[t].last
           /\ LastInv' /\ ReadInv' /\ BatchInv' /\ RequestInv' /\ LiveInv'
           /\ WorkInv' /\ SoundInv' /\ SharedInv' /\ NoRepetition' /\ Settled' = Settled
PROOF
  <1> DEFINE w == [trapper[t] EXCEPT !.phase = p]
  <1>1. trapper' = [trapper EXCEPT ![t] = w] OBVIOUS
  <1>2. trapper[t] \in Trapper BY TrapperType DEF IInv, TypeInv
  <1>3. /\ w \in Trapper /\ w.token = trapper[t].token /\ w.live = trapper[t].live
        /\ w.todo = trapper[t].todo /\ w.ok = trapper[t].ok /\ w.chunk = trapper[t].chunk /\ w.last = trapper[t].last
        /\ w.phase = p
    BY <1>2 DEF Trapper
  <1> HIDE DEF w
  <1>4. TrapperStep(t, w) BY <1>1, <1>3 DEF TrapperStep
  <1>5. Settled' = Settled BY DEF Settled
  <1>6. Work(trapper[t]) /\ Sound(trapper[t], Settled) BY DEF IInv, ServerInv, WorkInv, SoundInv
  <1>7. Work(w) BY <1>3, <1>6 DEF Work
  <1>8. Sound(w, Settled') BY <1>3, <1>5, <1>6, Zenon DEF Sound
  <1>9. trapper[t].todo \cup trapper[t].ok \subseteq w.todo \cup w.ok \cup Settled' BY <1>3
  <1>10. /\ LastInv' /\ ReadInv' /\ BatchInv' /\ RequestInv' /\ WorkInv' /\ SoundInv' /\ SharedInv'
         /\ Settled \subseteq Settled' /\ Settled \cup Confirmed \subseteq (Settled \cup Confirmed)'
    BY <1>4, <1>7, <1>8, <1>9, TrapperFrame
  <1>11. LiveInv' BY <1>3, <1>4, <1>9, <1>10, LiveFrame
  <1>12. NoRepetition' BY DEF IInv, ServerInv, NoRepetition
  <1> QED BY <1>3, <1>4, <1>5, <1>10, <1>11, <1>12

LEMMA LookupInv == ASSUME IInv, NEW t \in Trappers, Lookup(t) PROVE IInv'
PROOF
  <1> DEFINE k == trapper[t].token
  <1>0. /\ UNCHANGED <<mode, proxyVars, net, answer, sessions, taken, dropped, seen, repeated, shared, faults, passed>>
        /\ trapper[t].phase = "lookup"
    BY DEF Lookup
  <1> DEFINE p == IF sessions[k] = NoSession THEN "create" ELSE "check"
  <1>1. /\ trapper' = [trapper EXCEPT ![t].phase = p]
        /\ p \in {"create", "check"} /\ (p = "create" => sessions[k] = NoSession)
    BY DEF Lookup
  <1> HIDE DEF p
  <1>2. TypeOK /\ trapper[t] \in Trapper /\ k \in Tokens BY TrapperType DEF IInv, TypeInv
  <1>3. PICK w \in Trapper : TrapperStep(t, w) /\ w.phase = p /\ w.last = trapper[t].last
    BY <1>0, <1>1, PhaseFrame
  <1>4. /\ LastInv' /\ ReadInv' /\ BatchInv' /\ RequestInv' /\ LiveInv'
        /\ WorkInv' /\ SoundInv' /\ SharedInv' /\ NoRepetition' /\ Settled' = Settled
    BY <1>0, <1>1, PhaseFrame
  <1>12. SessionInv' /\ SeenInv'
    <2>1. \A j \in Tokens \ {k} : sessions'[j] = sessions[j] /\ seen'[j] = seen[j] BY <1>0
    <2>2. k \notin shared =>
              /\ \A i \in seen'[k] : i <= sessions'[k] \/ (w.phase # "idle" /\ i <= w.last)
              /\ w.phase = "create" => sessions'[k] = NoSession
              /\ w.phase = "reset" => seen'[k] = {}
              /\ w.phase = "process" => \A i \in w.ok : sessions'[k] < i
              /\ w.phase # "reset" => \A i \in Ids : i <= sessions'[k] => i \in Settled'
      BY <1>0, <1>1, <1>2, <1>3, <1>4, Alone
    <2> HIDE DEF k
    <2>3. k = trapper[t].token BY DEF k
    <2> QED BY <1>0, <1>2, <1>3, <2>1, <2>2, <2>3, SessionFrame
  <1>14. TypeInv' BY <1>0, <1>2, <1>3, StepType DEF TypeOK
  <1> QED BY <1>4, <1>12, <1>14 DEF IInv, ServerInv

LEMMA CreateInv == ASSUME IInv, NEW t \in Trappers, Create(t) PROVE IInv'
PROOF
  <1> DEFINE k == trapper[t].token
  <1>0. /\ UNCHANGED <<mode, proxyVars, net, answer, taken, dropped, seen, repeated, shared, faults, passed>>
        /\ trapper[t].phase = "create"
    BY DEF Create
  <1>1. trapper' = [trapper EXCEPT ![t].phase = "reset"] BY DEF Create
  <1>2. TypeOK /\ trapper[t] \in Trapper /\ k \in Tokens /\ sessions[k] \in 0..MaxId \cup {NoSession}
    BY TrapperType DEF IInv, TypeInv
  <1>3. PICK w \in Trapper : TrapperStep(t, w) /\ w.phase = "reset" /\ w.last = trapper[t].last
    BY <1>0, <1>1, PhaseFrame
  <1>4. /\ LastInv' /\ ReadInv' /\ BatchInv' /\ RequestInv' /\ LiveInv'
        /\ WorkInv' /\ SoundInv' /\ SharedInv' /\ NoRepetition' /\ Settled' = Settled
    BY <1>0, <1>1, PhaseFrame
  <1>a. PICK v \in 0..MaxId \cup {NoSession} : sessions' = [sessions EXCEPT ![k] = v]
    BY <1>2 DEF Create
  <1>12. SessionInv' /\ SeenInv'
    <2>1. \A j \in Tokens \ {k} : sessions'[j] = sessions[j] /\ seen'[j] = seen[j]
      BY <1>0, <1>2, <1>a DEF TypeOK
    <2>2. k \notin shared => seen'[k] = {}
      <3> SUFFICES ASSUME k \notin shared PROVE seen[k] = {} BY <1>0
      <3>1. /\ \A i \in seen[k] : i <= sessions[k] \/ i <= trapper[t].last
            /\ sessions[k] = NoSession
        BY <1>0, <1>2, Alone
      <3>2. trapper[t].last = 0 BY <1>0 DEF IInv, ServerInv, WorkInv, Work
      <3>3. seen[k] \in SUBSET Ids BY <1>2, TrapperType
      <3>4. \A i \in seen[k] : i \in Int /\ i >= 1 BY <3>3, ProxyExchangeAssumption DEF Ids
      <3>5. \A i \in seen[k] : FALSE BY <3>1, <3>2, <3>4 DEF NoSession
      <3> QED BY <3>5
    <2>3. k \notin shared =>
              /\ \A i \in seen'[k] : i <= sessions'[k] \/ (w.phase # "idle" /\ i <= w.last)
              /\ w.phase = "create" => sessions'[k] = NoSession
              /\ w.phase = "reset" => seen'[k] = {}
              /\ w.phase = "process" => \A i \in w.ok : sessions'[k] < i
              /\ w.phase # "reset" => \A i \in Ids : i <= sessions'[k] => i \in Settled'
      BY <1>3, <2>2
    <2> HIDE DEF k
    <2>4. k = trapper[t].token BY DEF k
    <2> QED BY <1>0, <1>2, <1>3, <2>1, <2>3, <2>4, SessionFrame
  <1>14. TypeInv'
    <2>1. sessions' \in [Tokens -> 0..MaxId \cup {NoSession}] BY <1>2, <1>a DEF TypeOK
    <2> QED BY <1>0, <1>2, <1>3, <2>1, StepType DEF TypeOK
  <1> QED BY <1>4, <1>12, <1>14 DEF IInv, ServerInv

LEMMA ResetInv == ASSUME IInv, NEW t \in Trappers, Reset(t) PROVE IInv'
PROOF
  <1> DEFINE k == trapper[t].token
  <1>0. /\ UNCHANGED <<mode, proxyVars, net, answer, taken, dropped, seen, repeated, shared, faults, passed>>
        /\ trapper[t].phase = "reset" /\ sessions' = [sessions EXCEPT ![k] = 0]
    BY DEF Reset
  <1>1. trapper' = [trapper EXCEPT ![t].phase = "check"] BY DEF Reset
  <1>2. TypeOK /\ trapper[t] \in Trapper /\ k \in Tokens BY TrapperType DEF IInv, TypeInv
  <1>3. PICK w \in Trapper : TrapperStep(t, w) /\ w.phase = "check" /\ w.last = trapper[t].last
    BY <1>0, <1>1, PhaseFrame
  <1>4. /\ LastInv' /\ ReadInv' /\ BatchInv' /\ RequestInv' /\ LiveInv'
        /\ WorkInv' /\ SoundInv' /\ SharedInv' /\ NoRepetition' /\ Settled' = Settled
    BY <1>0, <1>1, PhaseFrame
  <1>12. SessionInv' /\ SeenInv'
    <2>1. \A j \in Tokens \ {k} : sessions'[j] = sessions[j] /\ seen'[j] = seen[j]
      BY <1>0, <1>2 DEF TypeOK
    <2>2. k \notin shared => seen'[k] = {} BY <1>0, <1>2, Alone
    <2>3. sessions'[k] = 0 BY <1>0, <1>2 DEF TypeOK
    <2>4. \A i \in Ids : ~(i <= 0) BY ProxyExchangeAssumption DEF Ids
    <2>5. k \notin shared =>
              /\ \A i \in seen'[k] : i <= sessions'[k] \/ (w.phase # "idle" /\ i <= w.last)
              /\ w.phase = "create" => sessions'[k] = NoSession
              /\ w.phase = "reset" => seen'[k] = {}
              /\ w.phase = "process" => \A i \in w.ok : sessions'[k] < i
              /\ w.phase # "reset" => \A i \in Ids : i <= sessions'[k] => i \in Settled'
      BY <1>3, <2>2, <2>3, <2>4
    <2> HIDE DEF k
    <2>6. k = trapper[t].token BY DEF k
    <2> QED BY <1>0, <1>2, <1>3, <2>1, <2>5, <2>6, SessionFrame
  <1>14. TypeInv'
    <2>1. sessions' \in [Tokens -> 0..MaxId \cup {NoSession}]
      BY <1>0, <1>2, ProxyExchangeAssumption DEF TypeOK
    <2> QED BY <1>0, <1>2, <1>3, <2>1, StepType DEF TypeOK
  <1> QED BY <1>4, <1>12, <1>14 DEF IInv, ServerInv

LEMMA CheckDuplicatesInv == ASSUME IInv, NEW t \in Trappers, CheckDuplicates(t) PROVE IInv'
PROOF
  <1> DEFINE k == trapper[t].token
             chunk == Least(trapper[t].todo, ValuesMax)
             ok == {i \in chunk : i > sessions[k]}
             w == [trapper[t] EXCEPT !.phase = "process", !.chunk = chunk, !.todo = @ \ chunk, !.ok = ok]
  <1>0. /\ UNCHANGED <<mode, proxyVars, net, answer, sessions, taken, seen, repeated, shared, faults, passed>>
        /\ trapper[t].phase = "check"
        /\ dropped' = IF k \in shared THEN dropped \cup (chunk \ ok) ELSE dropped
    BY DEF CheckDuplicates
  <1>1. trapper' = [trapper EXCEPT ![t] = w] BY DEF CheckDuplicates
  <1>2. /\ TypeOK /\ trapper[t] \in Trapper /\ k \in Tokens /\ sessions[k] \in Int
        /\ trapper[t].todo \in SUBSET Ids /\ Ids \subseteq Int /\ trapper[t].last \in 0..MaxId
    BY TrapperType DEF IInv, TypeInv
  <1>3. Work(trapper[t]) /\ Sound(trapper[t], Settled) BY DEF IInv, ServerInv, WorkInv, SoundInv
  <1>4. /\ chunk \subseteq trapper[t].todo /\ chunk # {}
        /\ \A i \in chunk, j \in trapper[t].todo \ chunk : i < j
    <2>1. trapper[t].todo # {} BY <1>0, <1>3 DEF Work
    <2>2. ValuesMax \in Nat \ {0} BY ProxyExchangeAssumption
    <2> QED BY <1>2, <2>1, <2>2, LeastProperties
  <1> HIDE DEF chunk
  <1>5. ok \subseteq chunk /\ (\A i \in ok : sessions[k] < i) /\ \A i \in chunk : i \notin ok => i <= sessions[k]
    <2>1. \A i \in chunk : i \in Int BY <1>2, <1>4
    <2> QED BY <2>1, <1>2
  <1> HIDE DEF ok
  <1>6. /\ w \in Trapper /\ w.token = k /\ w.live = trapper[t].live
        /\ w.todo = trapper[t].todo \ chunk /\ w.ok = ok /\ w.chunk = chunk /\ w.last = trapper[t].last
        /\ w.phase = "process"
    <2>1. chunk \in SUBSET Ids /\ ok \in SUBSET Ids BY <1>2, <1>4, <1>5
    <2> QED BY <1>2, <2>1 DEF Trapper
  <1> HIDE DEF w
  <1>7. TrapperStep(t, w) BY <1>0, <1>1, <1>6 DEF TrapperStep
  <1>8. Settled \subseteq Settled' BY <1>0 DEF Settled
  <1>9. chunk \subseteq ok \cup Settled'
    <2>1. CASE k \in shared BY <1>0, <2>1 DEF Settled
    <2>2. CASE k \notin shared
      <3>1. \A i \in Ids : i <= sessions[k] => i \in Settled BY <1>0, <1>2, <2>2, Alone
      <3> QED BY <3>1, <1>2, <1>4, <1>5, <1>8
    <2> QED BY <2>1, <2>2
  <1>10. trapper[t].chunk = {} /\ trapper[t].ok = {} BY <1>0, <1>3 DEF Work
  <1>11. trapper[t].todo \cup trapper[t].ok \subseteq w.todo \cup w.ok \cup Settled' BY <1>6, <1>9, <1>10
  <1>12. Work(w)
    <2>1. /\ \A i \in trapper[t].todo : trapper[t].last < i
          /\ \A i \in w.todo \cup w.chunk : i \in trapper[t].todo
      BY <1>3, <1>4, <1>6 DEF Work
    <2> QED BY <2>1, <1>4, <1>5, <1>6 DEF Work
  <1>13. Sound(w, Settled')
    <2> SUFFICES ASSUME NEW b \in w.todo \cup w.chunk \cup {w.last}, NEW i \in Ids, i <= b
                 PROVE  i \in w.todo \cup w.ok \cup Settled'
      BY Zenon DEF Sound
    <2>1. b \in trapper[t].todo \cup trapper[t].chunk \cup {trapper[t].last} BY <1>4, <1>6
    <2>2. i \in trapper[t].todo \cup trapper[t].ok \cup Settled BY <2>1, <1>3, Zenon DEF Sound
    <2> QED BY <2>2, <1>8, <1>11
  <1>14. /\ LastInv' /\ ReadInv' /\ BatchInv' /\ RequestInv' /\ WorkInv' /\ SoundInv' /\ SharedInv'
         /\ Settled \subseteq Settled' /\ Settled \cup Confirmed \subseteq (Settled \cup Confirmed)'
    BY <1>0, <1>7, <1>11, <1>12, <1>13, TrapperFrame
  <1>15. LiveInv' BY <1>0, <1>6, <1>7, <1>11, <1>14, LiveFrame
  <1>16. SessionInv' /\ SeenInv'
    <2>1. \A j \in Tokens \ {k} : sessions'[j] = sessions[j] /\ seen'[j] = seen[j] BY <1>0
    <2>2. k \notin shared =>
            /\ \A i \in seen[k] : i <= sessions[k] \/ i <= trapper[t].last
            /\ \A i \in Ids : i <= sessions[k] => i \in Settled
      BY <1>0, <1>2, Alone
    <2>3. k \notin shared =>
              /\ \A i \in seen'[k] : i <= sessions'[k] \/ (w.phase # "idle" /\ i <= w.last)
              /\ w.phase = "create" => sessions'[k] = NoSession
              /\ w.phase = "reset" => seen'[k] = {}
              /\ w.phase = "process" => \A i \in w.ok : sessions'[k] < i
              /\ w.phase # "reset" => \A i \in Ids : i <= sessions'[k] => i \in Settled'
      BY <1>0, <1>5, <1>6, <1>8, <2>2
    <2> HIDE DEF k
    <2>4. k = trapper[t].token BY DEF k
    <2> QED BY <1>0, <1>2, <1>7, <2>1, <2>3, <2>4, SessionFrame
  <1>17. NoRepetition' BY <1>0 DEF IInv, ServerInv, NoRepetition
  <1>18. TypeInv'
    <2>1. dropped' \in SUBSET Ids BY <1>0, <1>2, <1>4 DEF TypeOK
    <2> QED BY <1>0, <1>2, <1>7, <2>1, StepType DEF TypeOK
  <1> QED BY <1>14, <1>15, <1>16, <1>17, <1>18 DEF IInv, ServerInv

LEMMA ProcessInv == ASSUME IInv, NEW t \in Trappers, Process(t) PROVE IInv'
PROOF
  <1> DEFINE k == trapper[t].token
             ok == trapper[t].ok
             last == Max(trapper[t].chunk)
             phase == IF trapper[t].todo = {} THEN "finish" ELSE "check"
             w == [trapper[t] EXCEPT !.phase = phase, !.ok = {}, !.chunk = {}, !.last = last]
  <1>0. /\ UNCHANGED <<mode, proxyVars, net, answer, sessions, dropped, shared, faults, passed>>
        /\ trapper[t].phase = "process"
        /\ taken' = taken \cup ok
        /\ repeated' = IF ok \cap seen[k] # {} THEN repeated \cup {k} ELSE repeated
        /\ seen' = [seen EXCEPT ![k] = @ \cup ok]
    BY DEF Process
  <1>1. trapper' = [trapper EXCEPT ![t] = w] BY DEF Process
  <1>2. /\ TypeOK /\ trapper[t] \in Trapper /\ k \in Tokens /\ sessions[k] \in Int
        /\ trapper[t].todo \in SUBSET Ids /\ ok \in SUBSET Ids /\ trapper[t].chunk \in SUBSET (0..MaxId)
        /\ Ids \subseteq Int /\ trapper[t].last \in 0..MaxId /\ 0..MaxId \subseteq Int
        /\ seen[k] \in SUBSET Ids
    BY TrapperType DEF IInv, TypeInv
  <1>3. Work(trapper[t]) /\ Sound(trapper[t], Settled) BY DEF IInv, ServerInv, WorkInv, SoundInv
  <1>4. /\ trapper[t].chunk # {} /\ ok \subseteq trapper[t].chunk
        /\ \A i \in trapper[t].todo \cup trapper[t].chunk : trapper[t].last < i
        /\ \A i \in trapper[t].chunk, j \in trapper[t].todo : i < j
    BY <1>0, <1>3 DEF Work
  <1>5. last \in trapper[t].chunk /\ \A i \in trapper[t].chunk : i <= last
    BY <1>2, <1>4, MaxProperties, Zenon
  <1> HIDE DEF last
  <1>6. /\ phase \in {"check", "finish"} /\ (phase = "finish" => trapper[t].todo = {})
        /\ (phase = "check" => trapper[t].todo # {})
    OBVIOUS
  <1> HIDE DEF phase
  <1>7. /\ w \in Trapper /\ w.token = k /\ w.live = trapper[t].live
        /\ w.todo = trapper[t].todo /\ w.ok = {} /\ w.chunk = {} /\ w.last = last /\ w.phase = phase
    <2>1. last \in 0..MaxId BY <1>2, <1>5
    <2> QED BY <1>2, <1>6, <2>1 DEF Trapper
  <1> HIDE DEF w
  <1>8. TrapperStep(t, w) BY <1>0, <1>1, <1>7 DEF TrapperStep
  <1>9. Settled \subseteq Settled' /\ ok \subseteq Settled' BY <1>0 DEF Settled
  <1>10. trapper[t].todo \cup trapper[t].ok \subseteq w.todo \cup w.ok \cup Settled' BY <1>7, <1>9
  <1>11. Work(w)
    <2>1. \A j \in trapper[t].todo : last < j BY <1>4, <1>5
    <2> QED BY <2>1, <1>6, <1>7 DEF Work
  <1>12. Sound(w, Settled')
    <2> SUFFICES ASSUME NEW b \in w.todo \cup w.chunk \cup {w.last}, NEW i \in Ids, i <= b
                 PROVE  i \in w.todo \cup w.ok \cup Settled'
      BY Zenon DEF Sound
    <2>1. b \in trapper[t].todo \cup trapper[t].chunk \cup {trapper[t].last} BY <1>5, <1>7
    <2>2. i \in trapper[t].todo \cup trapper[t].ok \cup Settled BY <2>1, <1>3, Zenon DEF Sound
    <2> QED BY <2>2, <1>9, <1>10
  <1>13. /\ LastInv' /\ ReadInv' /\ BatchInv' /\ RequestInv' /\ WorkInv' /\ SoundInv' /\ SharedInv'
         /\ Settled \subseteq Settled' /\ Settled \cup Confirmed \subseteq (Settled \cup Confirmed)'
    BY <1>0, <1>8, <1>10, <1>11, <1>12, TrapperFrame
  <1>14. LiveInv'
    <2>1. w.phase # "idle" BY <1>6, <1>7
    <2> QED BY <1>0, <1>7, <1>8, <1>10, <1>13, <2>1, LiveFrame
  <1>15. k \notin shared =>
            /\ \A i \in seen[k] : i <= sessions[k] \/ i <= trapper[t].last
            /\ \A i \in ok : sessions[k] < i
            /\ \A i \in Ids : i <= sessions[k] => i \in Settled
    BY <1>0, <1>2, Alone
  <1>16. seen'[k] = seen[k] \cup ok BY <1>0, <1>2 DEF TypeOK
  <1>17. SessionInv' /\ SeenInv'
    <2>1. \A j \in Tokens \ {k} : sessions'[j] = sessions[j] /\ seen'[j] = seen[j]
      BY <1>0, <1>2 DEF TypeOK
    <2>2. k \notin shared => \A i \in seen'[k] : i <= sessions'[k] \/ (w.phase # "idle" /\ i <= w.last)
      <3> SUFFICES ASSUME k \notin shared, NEW i \in seen[k] \cup ok
                   PROVE  i <= sessions[k] \/ i <= last
        BY <1>0, <1>6, <1>7, <1>16
      <3>1. CASE i \in ok BY <3>1, <1>4, <1>5
      <3>2. CASE i \in seen[k]
        <4>1. trapper[t].last < last /\ last \in Int /\ trapper[t].last \in Int /\ i \in Int
          BY <1>2, <1>4, <1>5, <3>2
        <4> QED BY <4>1, <3>2, <1>15
      <3> QED BY <3>1, <3>2
    <2>3. k \notin shared =>
              /\ \A i \in seen'[k] : i <= sessions'[k] \/ (w.phase # "idle" /\ i <= w.last)
              /\ w.phase = "create" => sessions'[k] = NoSession
              /\ w.phase = "reset" => seen'[k] = {}
              /\ w.phase = "process" => \A i \in w.ok : sessions'[k] < i
              /\ w.phase # "reset" => \A i \in Ids : i <= sessions'[k] => i \in Settled'
      BY <1>0, <1>6, <1>7, <1>9, <1>15, <2>2
    <2> HIDE DEF k
    <2>4. k = trapper[t].token BY DEF k
    <2> QED BY <1>0, <1>2, <1>8, <2>1, <2>3, <2>4, SessionFrame
  <1>18. NoRepetition'
    <2>1. repeated \subseteq shared BY DEF IInv, ServerInv, NoRepetition
    <2>2. k \notin shared => ok \cap seen[k] = {}
      <3> SUFFICES ASSUME k \notin shared, NEW i \in ok, i \in seen[k] PROVE FALSE OBVIOUS
      <3>1. i \in Int /\ trapper[t].last \in Int BY <1>2
      <3>2. sessions[k] < i /\ trapper[t].last < i BY <1>4, <1>15
      <3>3. i <= sessions[k] \/ i <= trapper[t].last BY <1>15
      <3> QED BY <3>1, <3>2, <3>3, <1>2
    <2> QED BY <1>0, <2>1, <2>2 DEF NoRepetition
  <1>19. TypeInv'
    <2>1. seen' \in [Tokens -> SUBSET Ids] /\ taken' \in SUBSET Ids /\ repeated' \in SUBSET Tokens
      BY <1>0, <1>2 DEF TypeOK
    <2> QED BY <1>0, <1>2, <1>8, <2>1, StepType DEF TypeOK
  <1> QED BY <1>13, <1>14, <1>17, <1>18, <1>19 DEF IInv, ServerInv

LEMMA FinishInv == ASSUME IInv, NEW t \in Trappers, Finish(t) PROVE IInv'
PROOF
  <1> DEFINE k == trapper[t].token
             last == trapper[t].last
  <1>0. /\ UNCHANGED <<mode, proxyVars, net, taken, dropped, seen, repeated, shared, faults, passed>>
        /\ trapper[t].phase = "finish"
        /\ sessions' = [sessions EXCEPT ![k] = LastValueid(@, last)]
        /\ trapper' = [trapper EXCEPT ![t] = Free]
        /\ answer' = IF trapper[t].live THEN [ok |-> TRUE, upload |-> "enabled"] ELSE answer
    BY DEF Finish, Reply
  <1>1. /\ TypeOK /\ trapper[t] \in Trapper /\ k \in Tokens /\ sessions[k] \in 0..MaxId \cup {NoSession}
        /\ sessions[k] \in Int /\ last \in 0..MaxId /\ Ids \subseteq Int /\ last \in Int /\ MaxId \in Nat
        /\ seen[k] \in SUBSET Ids
    BY TrapperType, ProxyExchangeAssumption DEF IInv, TypeInv
  <1>2. Work(trapper[t]) /\ Sound(trapper[t], Settled) BY DEF IInv, ServerInv, WorkInv, SoundInv
  <1>3. trapper[t].todo = {} /\ trapper[t].ok = {} /\ trapper[t].chunk = {} BY <1>0, <1>2 DEF Work
  <1>4. /\ Free \in Trapper /\ Free.phase = "idle" /\ Free.live = FALSE /\ Free.todo = {} /\ Free.ok = {}
        /\ Free.chunk = {} /\ Free.last = 0
    BY <1>1, ProxyExchangeAssumption DEF Free, Trapper, Tokens
  <1>5. TrapperStep(t, Free) BY <1>0, <1>4 DEF TrapperStep
  <1>6. Settled' = Settled BY <1>0 DEF Settled
  <1>7. Work(Free) BY <1>4 DEF Work
  <1>8. Sound(Free, Settled')
    <2>1. \A i \in Ids : ~(i <= 0) BY ProxyExchangeAssumption DEF Ids
    <2> QED BY <1>4, <2>1 DEF Sound
  <1>9. trapper[t].todo \cup trapper[t].ok \subseteq Free.todo \cup Free.ok \cup Settled' BY <1>3
  <1>10. /\ LastInv' /\ ReadInv' /\ BatchInv' /\ RequestInv' /\ WorkInv' /\ SoundInv' /\ SharedInv'
         /\ Settled \subseteq Settled' /\ Settled \cup Confirmed \subseteq (Settled \cup Confirmed)'
    BY <1>0, <1>5, <1>7, <1>8, <1>9, TrapperFrame
  <1>11. trapper'[t] = Free /\ \A u \in Trappers : u # t => trapper'[u] = trapper[u]
    BY <1>0, <1>1, OtherTrappers
  <1>12. LiveInv'
    <2>0. UNCHANGED <<mode, sender, token, net>> BY <1>0 DEF proxyVars
    <2>1. CASE trapper[t].live
      <3>1. /\ NoLiveRequest /\ \A u \in Trappers : trapper[u].live => u = t
            /\ sender.batch \subseteq Settled
            /\ sender.phase = "wait"
        BY <1>3, <2>1 DEF IInv, LiveInv, NoLiveTrapper
      <3>2. NoLiveRequest' BY <2>0, <3>1 DEF NoLiveRequest
      <3>3. NoLiveTrapper' BY <1>4, <1>11, <3>1 DEF NoLiveTrapper
      <3>4. sender'.phase = "wait" /\ sender'.batch \subseteq Settled' BY <1>6, <2>0, <3>1
      <3> QED BY <3>2, <3>3, <3>4 DEF LiveInv, NoLiveRequest, NoLiveTrapper
    <2>2. CASE ~trapper[t].live
      <3>1. answer' = answer BY <1>0, <2>2
      <3>2. Free.live => trapper[t].live /\ Free.phase # "idle" BY <1>4
      <3> QED BY <1>0, <1>5, <1>9, <1>10, <3>1, <3>2, LiveFrame
    <2> QED BY <2>1, <2>2
  <1>13. /\ sessions'[k] \in {sessions[k], last} /\ sessions[k] <= sessions'[k] /\ last <= sessions'[k]
    <2>1. sessions'[k] = LastValueid(sessions[k], last) BY <1>0, <1>1 DEF TypeOK
    <2> QED BY <1>1, <2>1 DEF LastValueid
  <1>14. SessionInv' /\ SeenInv'
    <2>1. \A j \in Tokens \ {k} : sessions'[j] = sessions[j] /\ seen'[j] = seen[j]
      BY <1>0, <1>1 DEF TypeOK
    <2>2. k \notin shared =>
            /\ \A i \in seen[k] : i <= sessions[k] \/ i <= last
            /\ \A i \in Ids : i <= sessions[k] => i \in Settled
      BY <1>0, <1>1, Alone
    <2>3. \A i \in Ids : i <= last => i \in Settled BY <1>2, <1>3 DEF Sound
    <2>4. k \notin shared => \A i \in seen'[k] : i <= sessions'[k]
      <3> SUFFICES ASSUME k \notin shared, NEW i \in seen[k] PROVE i <= sessions'[k] BY <1>0
      <3>1. i \in Int /\ sessions'[k] \in Int BY <1>1, <1>13
      <3> QED BY <3>1, <2>2, <1>1, <1>13
    <2>5. k \notin shared => \A i \in Ids : i <= sessions'[k] => i \in Settled'
      BY <1>6, <1>13, <2>2, <2>3
    <2>6. k \notin shared =>
              /\ \A i \in seen'[k] : i <= sessions'[k] \/ (Free.phase # "idle" /\ i <= Free.last)
              /\ Free.phase = "create" => sessions'[k] = NoSession
              /\ Free.phase = "reset" => seen'[k] = {}
              /\ Free.phase = "process" => \A i \in Free.ok : sessions'[k] < i
              /\ Free.phase # "reset" => \A i \in Ids : i <= sessions'[k] => i \in Settled'
      BY <1>4, <2>4, <2>5
    <2> HIDE DEF k
    <2>7. k = trapper[t].token BY DEF k
    <2> QED BY <1>0, <1>1, <1>5, <2>1, <2>6, <2>7, SessionFrame
  <1>15. NoRepetition' BY <1>0 DEF IInv, ServerInv, NoRepetition
  <1>16. TypeInv'
    <2>1. sessions' \in [Tokens -> 0..MaxId \cup {NoSession}] BY <1>0, <1>1 DEF TypeOK, LastValueid
    <2>2. answer' \in Answer \cup {NoAnswer}
      <3>1. [ok |-> TRUE, upload |-> "enabled"] \in Answer BY DEF Answer
      <3> QED BY <1>0, <1>1, <3>1 DEF TypeOK
    <2> QED BY <1>0, <1>1, <1>5, <2>1, <2>2, StepType DEF TypeOK
  <1> QED BY <1>10, <1>12, <1>14, <1>15, <1>16 DEF IInv, ServerInv

------------------------------------------------------------------------------
(* Requests reach the server *)

(* The request the proxy waits for is the only live one, and is all there  *)
(* is of the exchange.                                                     *)
LEMMA LiveRequest ==
    ASSUME IInv, NEW r \in net, r.live
    PROVE  /\ sender.phase = "wait" /\ answer = NoAnswer /\ NoLiveTrapper
           /\ r.ids = sender.batch \ Inactive
           /\ \A q \in net \ {r} : ~q.live
PROOF
  <1>1. ~NoLiveRequest BY DEF NoLiveRequest
  <1>2. sender.phase = "wait" /\ answer = NoAnswer /\ NoLiveTrapper
    BY <1>1, Zenon DEF IInv, LiveInv, NoLiveTrapper
  <1>3. \A q \in net : q.live => q = [live |-> TRUE, token |-> token, ids |-> sender.batch \ Inactive]
    BY Zenon DEF IInv, LiveInv
  <1>4. r.ids = sender.batch \ Inactive
    <2>1. r = [live |-> TRUE, token |-> token, ids |-> sender.batch \ Inactive] BY <1>3, Zenon
    <2> QED BY <2>1
  <1>5. \A q \in net \ {r} : ~q.live
    <2> SUFFICES ASSUME NEW q \in net \ {r}, q.live PROVE FALSE OBVIOUS
    <2>1. q \in net /\ q # r OBVIOUS
    <2>2. q = r BY <1>3, <2>1, Zenon
    <2> QED BY <2>1, <2>2
  <1> QED BY <1>2, <1>4, <1>5

(* A trapper takes work.                                                   *)
Starting(r, live) == [phase |-> "lookup", live |-> live, token |-> r.token, todo |-> r.ids, ok |-> {},
                      chunk |-> {}, last |-> 0]

LEMMA BeginEffect ==
    ASSUME NEW t, NEW r, Begin(t, r)
    PROVE  /\ trapper' = [trapper EXCEPT ![t] = Starting(r, r.live)]
           /\ shared' = IF \E u \in Trappers : trapper[u].phase # "idle" /\ trapper[u].token = r.token
                        THEN shared \cup {r.token} ELSE shared
PROOF
  <1>1. PICK w : w = [Free EXCEPT !.phase = "lookup", !.live = r.live, !.token = r.token, !.todo = r.ids]
    OBVIOUS
  <1>2. w = Starting(r, r.live) BY <1>1 DEF Free, Starting
  <1>3. trapper' = [trapper EXCEPT ![t] = w] BY <1>1, Zenon DEF Begin
  <1> QED BY <1>2, <1>3, Zenon DEF Begin

LEMMA BeginFrame ==
    ASSUME IInv, NEW t \in Trappers, trapper[t].phase = "idle", NEW r \in net, r.ids # {},
           NEW live \in BOOLEAN, trapper' = [trapper EXCEPT ![t] = Starting(r, live)],
           shared' = IF \E u \in Trappers : trapper[u].phase # "idle" /\ trapper[u].token = r.token
                     THEN shared \cup {r.token} ELSE shared,
           net' = net \ {r},
           UNCHANGED <<mode, proxyVars, sessions, taken, dropped, seen, repeated, faults, passed>>
    PROVE  /\ trapper' \in [Trappers -> Trapper] /\ shared' \subseteq Tokens
           /\ ServerInv' /\ LastInv' /\ ReadInv' /\ BatchInv' /\ RequestInv'
           /\ Settled' = Settled /\ Confirmed \subseteq Confirmed'
           /\ mode = "passive" => r.ids \subseteq Confirmed'
           /\ trapper'[t] = Starting(r, live) /\ \A u \in Trappers : u # t => trapper'[u] = trapper[u]
PROOF
  <1> DEFINE w == Starting(r, live)
             k == r.token
  <1>0. TypeOK BY DEF IInv, TypeInv
  <1>1. k \in Tokens /\ r.ids \in SUBSET Ids BY <1>0 DEF TypeOK, Request
  <1>2. /\ w \in Trapper /\ w.phase = "lookup" /\ w.token = k /\ w.todo = r.ids /\ w.ok = {} /\ w.chunk = {}
        /\ w.last = 0
    BY <1>1, ProxyExchangeAssumption DEF Starting, Trapper
  <1> HIDE DEF w
  <1>3. trapper'[t] = w /\ \A u \in Trappers : u # t => trapper'[u] = trapper[u]
    BY <1>0, OtherTrappers DEF w
  <1>4. trapper' \in [Trappers -> Trapper]
    <2>1. trapper' = [trapper EXCEPT ![t] = w] BY DEF w
    <2> QED BY <1>0, <1>2, <2>1 DEF TypeOK
  <1>5. shared' \subseteq Tokens /\ shared \subseteq shared'
        /\ \A u \in Trappers : Busy(u, k) => k \in shared'
    BY <1>0, <1>1 DEF TypeOK, Busy
  <1>6. Settled' = Settled BY DEF Settled
  <1>7. Work(trapper[t]) BY DEF IInv, ServerInv, WorkInv
  <1>8. trapper[t].todo = {} /\ trapper[t].ok = {} BY <1>7 DEF Work
  <1>9. mode = "passive" => Confirmed \subseteq Confirmed' /\ r.ids \subseteq Confirmed'
    <2> SUFFICES ASSUME mode = "passive" PROVE Confirmed \subseteq Confirmed' /\ r.ids \subseteq Confirmed'
      OBVIOUS
    <2>1. Confirmed = UNION {trapper[u].todo \cup trapper[u].ok : u \in Trappers} BY Zenon DEF Confirmed
    <2>2. Confirmed' = UNION {trapper'[u].todo \cup trapper'[u].ok : u \in Trappers} BY Zenon DEF Confirmed
    <2>3. \A u \in Trappers : trapper[u].todo \cup trapper[u].ok \subseteq trapper'[u].todo \cup trapper'[u].ok
      BY <1>3, <1>8
    <2>4. r.ids \subseteq trapper'[t].todo \cup trapper'[t].ok BY <1>2, <1>3
    <2>5. Confirmed \subseteq Confirmed'
      <3> SUFFICES ASSUME NEW i \in Confirmed PROVE i \in Confirmed' OBVIOUS
      <3>1. PICK u \in Trappers : i \in trapper[u].todo \cup trapper[u].ok BY <2>1
      <3> QED BY <2>2, <2>3, <3>1
    <2> QED BY <2>2, <2>4, <2>5
  <1>10. Confirmed \subseteq Confirmed'
    <2>1. mode # "passive" => Confirmed = {} BY DEF Confirmed
    <2> QED BY <1>9, <2>1
  <1>11. LastInv' /\ ReadInv' /\ BatchInv' /\ RequestInv'
    BY <1>6, <1>10, ProxyFrame DEF IInv
  <1>12. WorkInv'
    <2>1. \A i \in r.ids : 0 < i BY <1>1, ProxyExchangeAssumption DEF Ids
    <2>2. Work(w) BY <1>2, <2>1 DEF Work
    <2> QED BY <1>3, <2>2 DEF IInv, ServerInv, WorkInv
  <1>13. SoundInv'
    <2>1. Sound(w, Settled)
      <3> SUFFICES ASSUME NEW b \in w.todo \cup w.chunk \cup {w.last}, NEW i \in Ids, i <= b
                   PROVE  i \in w.todo \cup w.ok \cup Settled
        BY Zenon DEF Sound
      <3>1. CASE b \in r.ids BY <3>1, <1>2 DEF IInv, RequestInv
      <3>2. CASE b = 0 BY <3>2, ProxyExchangeAssumption DEF Ids
      <3> QED BY <3>1, <3>2, <1>2
    <2>2. \A u \in Trappers : Sound(trapper'[u], Settled')
      BY <1>3, <1>6, <2>1 DEF IInv, ServerInv, SoundInv
    <2> QED BY <2>2, Zenon DEF SoundInv
  <1>14. \A u \in Trappers, j \in Tokens : Busy(u, j)' => Busy(u, j) \/ (u = t /\ j = k)
    BY <1>2, <1>3 DEF Busy
  <1>15. \A u \in Trappers, j \in Tokens : Busy(u, j) => Busy(u, j)' /\ trapper'[u] = trapper[u] /\ u # t
    BY <1>3 DEF Busy
  <1>16. SharedInv'
    <2> SUFFICES ASSUME NEW j \in Tokens, NEW u \in Trappers, NEW v \in Trappers,
                        Busy(u, j)', Busy(v, j)', u # v
                 PROVE  j \in shared'
      BY Zenon DEF SharedInv
    <2>1. CASE Busy(u, j) /\ Busy(v, j) BY <1>5, <2>1 DEF IInv, ServerInv, SharedInv
    <2>2. CASE Busy(u, j) /\ ~Busy(v, j) BY <1>5, <1>14, <2>2
    <2>3. CASE ~Busy(u, j) BY <1>5, <1>14, <2>3
    <2> QED BY <2>1, <2>2, <2>3
  <1>17. SessionInv'
    <2> SUFFICES ASSUME NEW j \in Tokens \ shared', ~Raw(j)', NEW i \in Ids, i <= sessions[j]
                 PROVE  i \in Settled
      BY <1>6 DEF SessionInv
    <2>1. ~Raw(j)
      <3>1. \A u \in Trappers : trapper[u].phase = "reset" => trapper'[u] = trapper[u] BY <1>3
      <3> QED BY <3>1 DEF Raw
    <2> QED BY <1>5, <2>1 DEF IInv, ServerInv, SessionInv
  <1>18. SeenInv'
    <2> SUFFICES ASSUME NEW j \in Tokens \ shared'
                 PROVE  /\ \A i \in seen[j] : i <= sessions[j]
                                \/ \E u \in Trappers : Busy(u, j)' /\ i <= trapper'[u].last
                        /\ \A u \in Trappers : Busy(u, j)' =>
                              /\ trapper'[u].phase = "create" => sessions[j] = NoSession
                              /\ trapper'[u].phase = "reset" => seen[j] = {}
                              /\ trapper'[u].phase = "process" => \A i \in trapper'[u].ok : sessions[j] < i
      BY Zenon DEF SeenInv
    <2>1. /\ \A i \in seen[j] : i <= sessions[j] \/ \E u \in Trappers : Busy(u, j) /\ i <= trapper[u].last
          /\ \A u \in Trappers : Busy(u, j) =>
                /\ trapper[u].phase = "create" => sessions[j] = NoSession
                /\ trapper[u].phase = "reset" => seen[j] = {}
                /\ trapper[u].phase = "process" => \A i \in trapper[u].ok : sessions[j] < i
      BY <1>5 DEF IInv, ServerInv, SeenInv
    <2>2. \A i \in seen[j] : i <= sessions[j] \/ \E u \in Trappers : Busy(u, j)' /\ i <= trapper'[u].last
      BY <1>15, <2>1, Zenon
    <2>3. ASSUME NEW u \in Trappers, Busy(u, j)'
          PROVE  /\ trapper'[u].phase = "create" => sessions[j] = NoSession
                 /\ trapper'[u].phase = "reset" => seen[j] = {}
                 /\ trapper'[u].phase = "process" => \A i \in trapper'[u].ok : sessions[j] < i
      <3>1. CASE Busy(u, j) BY <1>15, <2>1, <3>1, Zenon
      <3>2. CASE ~Busy(u, j)
        <4>1. trapper'[u].phase = "lookup" BY <1>2, <1>3, <1>14, <2>3, <3>2
        <4> QED BY <4>1
      <3> QED BY <3>1, <3>2
    <2> QED BY <2>2, <2>3
  <1>19. NoRepetition' BY <1>5 DEF IInv, ServerInv, NoRepetition
  <1> QED BY <1>3, <1>4, <1>5, <1>6, <1>9, <1>10, <1>11, <1>12, <1>13, <1>16, <1>17, <1>18, <1>19
      DEF ServerInv, w

(* A request answered without work leaves the trappers alone.              *)
LEMMA AnswerFrame ==
    ASSUME IInv, NEW r \in net, net' = net \ {r}, UNCHANGED <<trapper, shared>>,
           UNCHANGED <<mode, proxyVars, sessions, taken, dropped, seen, repeated, faults, passed>>
    PROVE  /\ trapper' \in [Trappers -> Trapper] /\ shared' \subseteq Tokens
           /\ ServerInv' /\ LastInv' /\ ReadInv' /\ BatchInv' /\ RequestInv'
           /\ Settled' = Settled /\ Confirmed' = Confirmed
PROOF
  <1>1. SameWork BY DEF SameWork
  <1>2. ServerInv' /\ Settled \subseteq Settled' /\ Confirmed' = Confirmed
    BY <1>1, ServerFrame DEF IInv
  <1>3. LastInv' /\ ReadInv' /\ BatchInv' /\ RequestInv' BY <1>2, ProxyFrame DEF IInv
  <1>4. Settled' = Settled BY DEF Settled
  <1>5. trapper' \in [Trappers -> Trapper] /\ shared' \subseteq Tokens BY DEF IInv, TypeInv, TypeOK
  <1> QED BY <1>2, <1>3, <1>4, <1>5

(* After either, the types are right.                                      *)
LEMMA TakenType ==
    ASSUME IInv, NEW r \in net, net' = net \ {r},
           trapper' \in [Trappers -> Trapper], shared' \subseteq Tokens, answer' \in Answer \cup {NoAnswer},
           UNCHANGED <<mode, proxyVars, sessions, taken, dropped, seen, repeated, faults, passed>>
    PROVE  TypeInv'
  BY DEF IInv, TypeInv, TypeOK, proxyVars

(* The exchange moves with the request: a live one is answered or given to *)
(* a trapper, and a late one changes nothing the proxy waits for.          *)
LEMMA TakenLive ==
    ASSUME IInv, NEW t \in Trappers, trapper[t].phase = "idle", NEW r \in net, net' = net \ {r},
           UNCHANGED <<mode, sender, token>>, Settled' = Settled, Confirmed \subseteq Confirmed',
           NEW live \in BOOLEAN, live => r.live,
           \/ UNCHANGED trapper
           \/ trapper'[t] = Starting(r, live) /\ \A u \in Trappers : u # t => trapper'[u] = trapper[u],
           ~r.live => answer' = answer,
           r.live /\ live =>
              answer' = answer /\ mode = "active" /\ trapper'[t] = Starting(r, live),
           r.live /\ ~live => (answer'.ok => r.ids \subseteq Settled \cup Confirmed')
    PROVE  LiveInv'
PROOF
  <1>1. ~trapper[t].live BY Zenon DEF IInv, LiveInv
  <1>2. \A u \in Trappers : trapper'[u].live => trapper[u].live \/ (u = t /\ live)
    BY DEF Starting
  <1>3. CASE r.live
    <2>1. /\ sender.phase = "wait" /\ answer = NoAnswer /\ NoLiveTrapper
          /\ r.ids = sender.batch \ Inactive /\ \A q \in net \ {r} : ~q.live
      BY <1>3, LiveRequest
    <2>2. NoLiveRequest' BY <2>1 DEF NoLiveRequest
    <2>3. \A u \in Trappers : trapper'[u].live => u = t /\ live BY <1>2, <2>1 DEF NoLiveTrapper
    <2>4. CASE live
      <3>1. answer' = NoAnswer /\ mode' = "active" /\ trapper'[t] = Starting(r, live) BY <1>3, <2>1, <2>4
      <3>2. trapper'[t].phase = "lookup" /\ trapper'[t].todo = r.ids BY <3>1 DEF Starting
      <3>3. sender'.batch \subseteq Settled' \cup trapper'[t].todo \cup trapper'[t].ok
        BY <2>1, <3>2 DEF Settled
      <3> QED BY <2>1, <2>2, <2>3, <3>1, <3>2, <3>3 DEF LiveInv, NoLiveRequest, NoAnswer
    <2>5. CASE ~live
      <3>1. NoLiveTrapper' BY <2>3, <2>5 DEF NoLiveTrapper
      <3>2. answer'.ok => sender'.batch \subseteq Settled' \cup Confirmed'
        <4>1. r.ids \subseteq Settled \cup Confirmed' => sender.batch \subseteq Settled \cup Confirmed'
          BY <2>1 DEF Settled
        <4> QED BY <4>1, <1>3, <2>5
      <3>3. sender'.phase = "wait" BY <2>1
      <3> QED BY <2>2, <3>1, <3>2, <3>3 DEF LiveInv, NoLiveRequest, NoLiveTrapper
    <2> QED BY <2>4, <2>5
  <1>4. CASE ~r.live
    <2>1. answer' = answer /\ ~live BY <1>4
    <2>2. \A u \in Trappers : trapper'[u].live => trapper[u].live /\ u # t /\ trapper'[u] = trapper[u]
      BY <1>1, <1>2, <2>1
    <2>3. (NoLiveTrapper => NoLiveTrapper') /\ (NoLiveRequest => NoLiveRequest')
      BY <2>2 DEF NoLiveTrapper, NoLiveRequest
    <2>4. /\ sender.phase # "wait" => answer = NoAnswer /\ NoLiveRequest /\ NoLiveTrapper
          /\ answer # NoAnswer => NoLiveRequest /\ NoLiveTrapper
          /\ \A q \in net : q.live => q = [live |-> TRUE, token |-> token, ids |-> sender.batch \ Inactive]
          /\ \A u \in Trappers : trapper[u].live =>
                /\ NoLiveRequest
                /\ mode = "active" /\ trapper[u].phase # "idle"
                /\ \A v \in Trappers : trapper[v].live => v = u
                /\ sender.batch \subseteq Settled \cup trapper[u].todo \cup trapper[u].ok
          /\ answer.ok => sender.batch \subseteq Settled \cup Confirmed
      BY Zenon DEF IInv, LiveInv
    <2>5. ASSUME NEW u \in Trappers, trapper'[u].live
          PROVE  /\ NoLiveRequest'
                 /\ mode' = "active" /\ trapper'[u].phase # "idle"
                 /\ \A v \in Trappers : trapper'[v].live => v = u
                 /\ sender'.batch \subseteq Settled' \cup trapper'[u].todo \cup trapper'[u].ok
      <3>1. trapper[u].live /\ trapper'[u] = trapper[u] BY <2>2, <2>5
      <3>2. /\ NoLiveRequest /\ mode = "active" /\ trapper[u].phase # "idle"
            /\ \A v \in Trappers : trapper[v].live => v = u
            /\ sender.batch \subseteq Settled \cup trapper[u].todo \cup trapper[u].ok
        BY <2>4, <3>1, Zenon
      <3>3. \A v \in Trappers : trapper'[v].live => v = u BY <2>2, <3>2, Zenon
      <3> QED BY <2>3, <3>1, <3>2, <3>3, Zenon
    <2>6. answer'.ok => sender'.batch \subseteq Settled' \cup Confirmed' BY <2>1, <2>4
    <2>7. /\ sender'.phase # "wait" => answer' = NoAnswer /\ NoLiveRequest' /\ NoLiveTrapper'
          /\ answer' # NoAnswer => NoLiveRequest' /\ NoLiveTrapper'
      BY <2>1, <2>3, <2>4, Zenon
    <2>8. \A q \in net' : q.live => q = [live |-> TRUE, token |-> token', ids |-> sender'.batch \ Inactive]
      <3>1. net' \subseteq net OBVIOUS
      <3> QED BY <2>4, <3>1, Zenon
    <2> QED BY <2>5, <2>6, <2>7, <2>8, Zenon DEF LiveInv
  <1> QED BY <1>3, <1>4

LEMMA AcceptInv ==
    ASSUME IInv, NEW t \in Trappers, NEW r \in net, NEW enabled \in BOOLEAN, Accept(t, r, enabled)
    PROVE  IInv'
PROOF
  <1>0. /\ mode = "active" /\ trapper[t].phase = "idle" /\ net' = net \ {r}
        /\ UNCHANGED <<mode, proxyVars, sessions, taken, dropped, seen, repeated, faults, passed>>
        /\ UNCHANGED <<mode, sender, token>>
    BY DEF Accept, proxyVars
  <1>1. r.live \in BOOLEAN /\ answer \in Answer \cup {NoAnswer} BY DEF IInv, TypeInv, TypeOK, Request
  <1>2. CASE r.ids # {} /\ enabled
    <2>1. Begin(t, r) /\ answer' = answer BY <1>2, Zenon DEF Accept
    <2>2. /\ trapper' = [trapper EXCEPT ![t] = Starting(r, r.live)]
          /\ shared' = IF \E u \in Trappers : trapper[u].phase # "idle" /\ trapper[u].token = r.token
                       THEN shared \cup {r.token} ELSE shared
      BY <2>1, BeginEffect
    <2>3. /\ trapper' \in [Trappers -> Trapper] /\ shared' \subseteq Tokens
          /\ ServerInv' /\ LastInv' /\ ReadInv' /\ BatchInv' /\ RequestInv'
          /\ Settled' = Settled /\ Confirmed \subseteq Confirmed'
          /\ trapper'[t] = Starting(r, r.live) /\ \A u \in Trappers : u # t => trapper'[u] = trapper[u]
      BY <1>0, <1>1, <1>2, <2>2, BeginFrame
    <2>4. TypeInv' BY <1>0, <1>1, <2>1, <2>3, TakenType
    <2>5. LiveInv' BY <1>0, <1>1, <2>1, <2>3, TakenLive
    <2> QED BY <2>3, <2>4, <2>5 DEF IInv
  <1>3. CASE ~(r.ids # {} /\ enabled)
    <2>1. Reply(r, r.ids = {}, IF enabled THEN "enabled" ELSE "disabled") /\ UNCHANGED <<trapper, shared>>
      BY <1>3, Zenon DEF Accept
    <2>2. answer' = IF r.live THEN [ok |-> r.ids = {}, upload |-> IF enabled THEN "enabled" ELSE "disabled"]
                    ELSE answer
      BY <2>1, Zenon DEF Reply
    <2>3. /\ trapper' \in [Trappers -> Trapper] /\ shared' \subseteq Tokens
          /\ ServerInv' /\ LastInv' /\ ReadInv' /\ BatchInv' /\ RequestInv'
          /\ Settled' = Settled /\ Confirmed' = Confirmed
      BY <1>0, <2>1, AnswerFrame
    <2>4. [ok |-> r.ids = {}, upload |-> IF enabled THEN "enabled" ELSE "disabled"] \in Answer
      BY DEF Answer
    <2>5. TypeInv'
      <3>1. answer' \in Answer \cup {NoAnswer} BY <1>1, <2>2, <2>4
      <3> QED BY <1>0, <2>3, <3>1, TakenType
    <2>6. LiveInv'
      <3>1. r.live => (answer'.ok => r.ids \subseteq Settled \cup Confirmed') BY <2>2
      <3>2. ~r.live => answer' = answer BY <2>2
      <3>3. FALSE \in BOOLEAN /\ UNCHANGED trapper BY <2>1
      <3> QED BY <1>0, <2>3, <3>1, <3>2, <3>3, TakenLive
    <2> QED BY <2>3, <2>5, <2>6 DEF IInv
  <1> QED BY <1>2, <1>3

LEMMA AcceptPassiveInv ==
    ASSUME IInv, NEW t \in Trappers, NEW r \in net, AcceptPassive(t, r)
    PROVE  IInv'
PROOF
  <1>0. /\ mode = "passive" /\ trapper[t].phase = "idle" /\ net' = net \ {r}
        /\ UNCHANGED <<mode, proxyVars, sessions, taken, dropped, seen, repeated, faults, passed>>
        /\ UNCHANGED <<mode, sender, token>>
    BY DEF AcceptPassive, proxyVars
  <1>1. answer' = IF r.live THEN [ok |-> TRUE, upload |-> "undefined"] ELSE answer
    BY Zenon DEF AcceptPassive, Reply
  <1>2. answer' \in Answer \cup {NoAnswer}
    <2>1. answer \in Answer \cup {NoAnswer} BY DEF IInv, TypeInv, TypeOK
    <2>2. [ok |-> TRUE, upload |-> "undefined"] \in Answer BY DEF Answer
    <2> QED BY <1>1, <2>1, <2>2
  <1>3. CASE r.ids # {} /\ Begin(t, [r EXCEPT !.live = FALSE])
    <2>0. r \in Request BY DEF IInv, TypeInv, TypeOK
    <2>1. PICK q : q = [r EXCEPT !.live = FALSE] OBVIOUS
    <2>2. q.live = FALSE /\ q.token = r.token /\ q.ids = r.ids BY <2>0, <2>1 DEF Request
    <2>3. Begin(t, q) BY <1>3, <2>1
    <2>4. /\ trapper' = [trapper EXCEPT ![t] = Starting(q, q.live)]
          /\ shared' = IF \E u \in Trappers : trapper[u].phase # "idle" /\ trapper[u].token = q.token
                       THEN shared \cup {q.token} ELSE shared
      BY <2>3, BeginEffect
    <2>5. Starting(q, q.live) = Starting(r, FALSE) BY <2>2 DEF Starting
    <2>6. /\ trapper' = [trapper EXCEPT ![t] = Starting(r, FALSE)]
          /\ shared' = IF \E u \in Trappers : trapper[u].phase # "idle" /\ trapper[u].token = r.token
                       THEN shared \cup {r.token} ELSE shared
          /\ FALSE \in BOOLEAN
      BY <2>2, <2>4, <2>5, Zenon
    <2>7. /\ trapper' \in [Trappers -> Trapper] /\ shared' \subseteq Tokens
          /\ ServerInv' /\ LastInv' /\ ReadInv' /\ BatchInv' /\ RequestInv'
          /\ Settled' = Settled /\ Confirmed \subseteq Confirmed'
          /\ mode = "passive" => r.ids \subseteq Confirmed'
          /\ trapper'[t] = Starting(r, FALSE) /\ \A u \in Trappers : u # t => trapper'[u] = trapper[u]
      BY <1>0, <1>3, <2>6, BeginFrame
    <2>8. TypeInv' BY <1>0, <1>2, <2>7, TakenType
    <2>9. LiveInv'
      <3>1. r.ids \subseteq Settled \cup Confirmed' BY <1>0, <2>7
      <3>2. ~r.live => answer' = answer BY <1>1
      <3> QED BY <1>0, <2>6, <2>7, <3>1, <3>2, TakenLive
    <2> QED BY <2>7, <2>8, <2>9 DEF IInv
  <1>4. CASE (r.ids = {} \/ ~r.live) /\ UNCHANGED <<trapper, shared>>
    <2>1. /\ trapper' \in [Trappers -> Trapper] /\ shared' \subseteq Tokens
          /\ ServerInv' /\ LastInv' /\ ReadInv' /\ BatchInv' /\ RequestInv'
          /\ Settled' = Settled /\ Confirmed' = Confirmed
      BY <1>0, <1>4, AnswerFrame
    <2>2. TypeInv' BY <1>0, <1>2, <2>1, TakenType
    <2>3. LiveInv'
      <3>1. r.live => r.ids \subseteq Settled \cup Confirmed' BY <1>4
      <3>2. ~r.live => answer' = answer BY <1>1
      <3>3. FALSE \in BOOLEAN /\ UNCHANGED trapper BY <1>4
      <3> QED BY <1>0, <2>1, <3>1, <3>2, <3>3, TakenLive
    <2> QED BY <2>1, <2>2, <2>3 DEF IInv
  <1> QED BY <1>3, <1>4 DEF AcceptPassive

LEMMA RestartServerInv == ASSUME IInv, RestartServer PROVE IInv'
PROOF
  <1>0. /\ UNCHANGED <<mode, proxyVars, net, answer, taken, repeated, shared, passed>>
        /\ faults < MaxFaults /\ faults' = faults + 1
        /\ sessions' = [k \in Tokens |-> NoSession] /\ seen' = [k \in Tokens |-> {}]
        /\ trapper' = [u \in Trappers |-> Free] /\ dropped' = dropped \cup Confirmed
    BY DEF RestartServer
  <1>1. TypeOK BY DEF IInv, TypeInv
  <1>2. \A u \in Trappers : trapper'[u] = Free BY <1>0
  <1>3. /\ Free.phase = "idle" /\ Free.live = FALSE /\ Free.todo = {} /\ Free.ok = {}
        /\ Free.chunk = {} /\ Free.last = 0 /\ Free \in Trapper
    BY ProxyExchangeAssumption DEF Free, Trapper, Tokens
  <1>4. Settled \cup Confirmed \subseteq Settled' BY <1>0 DEF Settled
  <1>5. LastInv' /\ ReadInv' /\ BatchInv' /\ RequestInv'
    <2>1. \A u \in Trappers : trapper'[u].phase = "idle" BY <1>2, <1>3
    <2> QED BY <1>0, <1>4, <2>1, ProxyFrame DEF IInv
  <1>6. LiveInv'
    <2>1. UNCHANGED <<mode, sender, token, net, answer>> BY <1>0 DEF proxyVars
    <2>2. NoLiveTrapper' BY <1>2, <1>3 DEF NoLiveTrapper
    <2>3. NoLiveRequest => NoLiveRequest' BY <2>1 DEF NoLiveRequest
    <2>4. /\ sender.phase # "wait" => answer = NoAnswer /\ NoLiveRequest
          /\ answer # NoAnswer => NoLiveRequest
          /\ \A r \in net : r.live => r = [live |-> TRUE, token |-> token, ids |-> sender.batch \ Inactive]
          /\ answer.ok => sender.batch \subseteq Settled \cup Confirmed
      BY Zenon DEF IInv, LiveInv
    <2>5. answer'.ok => sender'.batch \subseteq Settled' BY <1>4, <2>1, <2>4
    <2>6. /\ sender'.phase # "wait" => answer' = NoAnswer /\ NoLiveRequest' /\ NoLiveTrapper'
          /\ answer' # NoAnswer => NoLiveRequest' /\ NoLiveTrapper'
          /\ \A r \in net' : r.live => r = [live |-> TRUE, token |-> token', ids |-> sender'.batch \ Inactive]
      BY <2>1, <2>2, <2>3, <2>4, Zenon
    <2> QED BY <2>2, <2>5, <2>6 DEF LiveInv, NoLiveTrapper
  <1>7. \A i \in Ids : 0 < i /\ i \in Int BY ProxyExchangeAssumption DEF Ids
  <1>8. WorkInv' BY <1>2, <1>3 DEF WorkInv, Work
  <1>9. SoundInv'
    <2>1. \A b \in {0}, i \in Ids : ~(i <= b) BY <1>7
    <2>2. Sound(Free, Settled') BY <1>3, <2>1 DEF Sound
    <2> QED BY <1>2, <2>2 DEF SoundInv
  <1>10. \A u \in Trappers, k \in Tokens : ~Busy(u, k)' BY <1>2, <1>3 DEF Busy
  <1>11. SharedInv' BY <1>10 DEF SharedInv
  <1>12. SessionInv'
    <2>1. \A k \in Tokens : sessions'[k] = NoSession BY <1>0
    <2>2. \A i \in Ids : ~(i <= NoSession) BY <1>7 DEF NoSession
    <2> QED BY <2>1, <2>2 DEF SessionInv
  <1>13. SeenInv'
    <2>1. \A k \in Tokens : seen'[k] = {} BY <1>0
    <2> QED BY <1>10, <2>1 DEF SeenInv
  <1>14. NoRepetition' BY <1>0 DEF IInv, ServerInv, NoRepetition
  <1>15. TypeInv'
    <2>1. Confirmed \subseteq Ids
      <3>1. \A u \in Trappers : trapper[u].todo \subseteq Ids /\ trapper[u].ok \subseteq Ids
        BY <1>1, TrapperType
      <3> QED BY <3>1 DEF Confirmed
    <2>2. faults \in Nat /\ token \in Nat /\ token <= faults + 1 /\ MaxFaults \in Nat
      BY ProxyExchangeAssumption DEF IInv, TypeInv, TypeOK, Tokens
    <2>3. faults' \in 0..MaxFaults BY <1>0, <2>2
    <2>4. token <= faults' + 1
      <3>1. faults' = faults + 1 BY <1>0
      <3> QED BY <2>2, <3>1
    <2>5. trapper' \in [Trappers -> Trapper] BY <1>0, <1>3
    <2>6. sessions' \in [Tokens -> 0..MaxId \cup {NoSession}] /\ seen' \in [Tokens -> SUBSET Ids] BY <1>0
    <2>7. dropped' \subseteq Ids BY <1>0, <1>1, <2>1 DEF TypeOK
    <2> QED BY <1>0, <1>1, <2>3, <2>4, <2>5, <2>6, <2>7 DEF TypeInv, TypeOK, proxyVars
  <1> QED BY <1>5, <1>6, <1>8, <1>9, <1>11, <1>12, <1>13, <1>14, <1>15 DEF IInv, ServerInv

------------------------------------------------------------------------------
(* The theorems *)

LEMMA NextInv == ASSUME IInv, [Next]_vars PROVE IInv'
PROOF
  <1>1. ASSUME NEW i \in Ids, Insert(i) \/ Commit(i) \/ Rollback(i) PROVE IInv'
    BY <1>1, SyncersInv
  <1>2. CASE StartReading BY <1>2, StartReadingInv
  <1>3. CASE Look BY <1>3, LookInv
  <1>4. CASE ReadMore BY <1>4, ReadMoreInv
  <1>5. CASE Send BY <1>5, SendInv
  <1>6. CASE Probe BY <1>6, ProbeInv
  <1>7. CASE ReceiveAnswer BY <1>7, ReceiveAnswerInv
  <1>8. CASE GiveUp BY <1>8, GiveUpInv
  <1>9. CASE RestartProxy BY <1>9, RestartProxyInv
  <1>10. ASSUME NEW t \in Trappers, NEW r \in net, AcceptPassive(t, r) PROVE IInv'
    BY <1>10, AcceptPassiveInv
  <1>11. ASSUME NEW t \in Trappers, NEW r \in net, NEW enabled \in BOOLEAN, Accept(t, r, enabled) PROVE IInv'
    BY <1>11, AcceptInv
  <1>12. ASSUME NEW t \in Trappers, Lookup(t) PROVE IInv' BY <1>12, LookupInv
  <1>13. ASSUME NEW t \in Trappers, Create(t) PROVE IInv' BY <1>13, CreateInv
  <1>14. ASSUME NEW t \in Trappers, Reset(t) PROVE IInv' BY <1>14, ResetInv
  <1>15. ASSUME NEW t \in Trappers, CheckDuplicates(t) PROVE IInv' BY <1>15, CheckDuplicatesInv
  <1>16. ASSUME NEW t \in Trappers, Process(t) PROVE IInv' BY <1>16, ProcessInv
  <1>17. ASSUME NEW t \in Trappers, Finish(t) PROVE IInv' BY <1>17, FinishInv
  <1>18. CASE RestartServer BY <1>18, RestartServerInv
  <1>19. CASE UNCHANGED vars
    <2>1. rows \in [Ids -> {"none", "open", "visible", "gone"}] BY DEF IInv, TypeInv, TypeOK
    <2> QED BY <1>19, <2>1, RowsFrame DEF vars, proxyVars
  <1> QED BY <1>1, <1>2, <1>3, <1>4, <1>5, <1>6, <1>7, <1>8, <1>9, <1>10, <1>11, <1>12, <1>13, <1>14,
             <1>15, <1>16, <1>17, <1>18, <1>19 DEF Next

(* The invariant holds of every number of rows, trappers, faults and       *)
(* tokens, of active and of passive proxies.                               *)
THEOREM ExchangeInvariant == Spec => []IInv
PROOF
  <1>1. Init => IInv BY InitInv
  <1>2. IInv /\ [Next]_vars => IInv' BY NextInv
  <1> QED BY <1>1, <1>2, PTL DEF Spec

(* Every variable of the exchange has its type in every reachable state.   *)
THEOREM ExchangeTypeOK == Spec => []TypeOK
PROOF
  <1>1. IInv => TypeOK BY DEF IInv, TypeInv
  <1> QED BY <1>1, ExchangeInvariant, PTL

(* proxy_get_lastid, proxy_set_lastid: below the last id the proxy stored, *)
(* no visible value of a monitored item is left behind, whatever requests  *)
(* and answers are lost or late and whichever program is restarted.        *)
THEOREM ExchangeNothingSkipped == Spec => []NothingSkipped
PROOF
  <1>1. IInv => NothingSkipped BY DEF IInv, LastInv, NothingSkipped, Settled
  <1> QED BY <1>1, ExchangeInvariant, PTL

(* zbx_dc_get_or_create_data_session: a value is processed once in a       *)
(* session, unless two trappers worked on the session at the same time.    *)
THEOREM ExchangeNoRepetition == Spec => []NoRepetition
PROOF
  <1>1. IInv => NoRepetition BY DEF IInv, ServerInv
  <1> QED BY <1>1, ExchangeInvariant, PTL

=============================================================================
