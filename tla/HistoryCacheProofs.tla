-------------------------- MODULE HistoryCacheProofs --------------------------
(* Proofs about HistoryCache: an item and a trigger have one owner, what a *)
(* syncer copied without the cache mutex stays what it was, and so the     *)
(* values of an item are processed once and in order and its newest        *)
(* metadata is kept.                                                       *)
EXTENDS HistoryCache, FiniteSetTheorems, FunctionTheorems, SequenceTheorems, TLAPS

USE HistoryCacheAssumption

(* The part of TailStable about one syncer. *)
StableTail(s) ==
    \A h \in history[s] :
        /\ h[1] \in history_items[s] /\ status[h[1]] = "NORMAL"
        /\ values[h[1]] # <<>> /\ TailOf(h[1]) = h[2]

(* TailStable, syncer by syncer. *)
LEMMA TailStableParts == TailStable <=> \A s \in Syncers : StableTail(s)
  BY DEF TailStable, StableTail

(* What holds of a syncer goes on to hold when neither it nor the oldest   *)
(* values and states of the items it took change.                          *)
LEMMA SyncerUntouched ==
  ASSUME NEW s \in Syncers,
         InStep(s), StableTail(s), LocksTaken(s),
         history_items'[s] = history_items[s], history'[s] = history[s],
         triggerids'[s] = triggerids[s], syncer'[s] = syncer[s],
         \A i \in history_items[s] : /\ status'[i] = status[i]
                                     /\ values[i] # <<>> => values'[i] # <<>>
                                     /\ Head(values'[i]) = Head(values[i])
  PROVE  InStep(s)' /\ StableTail(s)' /\ LocksTaken(s)'
  <1>1. InStep(s)'
    BY DEF InStep, Resting
  <1>2. StableTail(s)'
    BY DEF StableTail, TailOf
  <1>3. Taken(s)' = Taken(s)
    BY DEF Taken
  <1>4. ASSUME NEW i \in Taken(s) PROVE LockedFor(i)' = LockedFor(i)
    BY DEF Taken, LockedFor, TailOf
  <1>5. LocksTaken(s)'
    BY <1>3, <1>4 DEF LocksTaken
  <1> QED BY <1>1, <1>2, <1>5

(* The invariant holds initially. *)
LEMMA InitIInv == Init => IInv
  <1> SUFFICES ASSUME Init PROVE IInv
    OBVIOUS
  <1> USE DEF Init
  <1>1. TypeOK
    <2>1. values \in [Items -> Seq(Data)] /\ item_values \in [Producers -> Seq(ItemValue)]
      BY EmptySeq
    <2>2. {accepted, processed} \subseteq [Items -> Seq(Nat)]
      BY EmptySeq
    <2>3. syncer \in [Syncers -> {"main", "pop", "lock", "busy", "get", "write", "timers",
                                  "unlock", "push", "idle", "gone"}]
      OBVIOUS
    <2>4. producer \in [Producers -> {"idle", "flush", "next", "clone", "wait", "dead"}]
          /\ cache_lock \in Producers \cup {None} /\ found \in [Producers -> BOOLEAN]
          /\ values_num \in [Producers -> Nat]
      OBVIOUS
    <2>5. status \in [Items -> {"NORMAL", "BUSY"}] /\ queued \in [Items -> Nat]
          /\ {lastmeta, storedmeta} \subseteq [Items -> Nat] /\ failed \subseteq Items
      OBVIOUS
    <2>6. history_items \in [Syncers -> SUBSET Items]
          /\ history \in [Syncers -> SUBSET (Items \X Data)]
          /\ triggerids \in [Syncers -> SUBSET Triggers]
      OBVIOUS
    <2>7. history_num \in Int /\ given \in Nat /\ ticks \in Nat
      OBVIOUS
    <2>8. locked \subseteq Triggers /\ timer_queue \subseteq Timers /\ due \subseteq Timers
          /\ stopping \in BOOLEAN
      OBVIOUS
    <2> HIDE DEF Init
    <2> QED BY <2>1, <2>2, <2>3, <2>4, <2>5, <2>6, <2>7, <2>8 DEF TypeOK
  <1>2. ItemOwnedOnce /\ BusyHeld /\ TailStable /\ TriggerExclusive
    BY DEF ItemOwnedOnce, BusyHeld, TailStable, TriggerExclusive
  <1>3. ProducersInStep
    BY DEF ProducersInStep
  <1>4. ASSUME NEW s \in Syncers PROVE InStep(s) /\ LocksTaken(s)
    BY FS_EmptySet DEF InStep, LocksTaken, Resting
  <1> QED BY <1>1, <1>2, <1>3, <1>4 DEF IInv, SyncersInStep, TriggersTaken

-------------------------------------------------------------------------------
(* Steps of producers that leave the cache alone. *)

(* The invariant without its parts on types and producers. *)
CacheInv ==
    /\ ItemOwnedOnce /\ SyncersInStep /\ BusyHeld /\ TailStable
    /\ TriggerExclusive /\ TriggersTaken

(* The invariant on the cache is about these variables only. *)
LEMMA CacheUntouched ==
  ASSUME CacheInv, UNCHANGED <<values, status, queued, svars, locked>>
  PROVE  CacheInv'
  <1> USE DEF svars
  <1>1. ItemOwnedOnce' /\ BusyHeld' /\ TriggerExclusive'
    BY DEF CacheInv, ItemOwnedOnce, BusyHeld, TriggerExclusive
  <1>2. ASSUME NEW s \in Syncers PROVE InStep(s)' /\ StableTail(s)' /\ LocksTaken(s)'
    BY SyncerUntouched, TailStableParts DEF CacheInv, SyncersInStep, TriggersTaken
  <1> QED BY <1>1, <1>2, TailStableParts DEF CacheInv, SyncersInStep, TriggersTaken, TailStable, StableTail

(* The three parts of the invariant. *)
LEMMA IInvParts == IInv <=> TypeOK /\ ProducersInStep /\ CacheInv
  BY DEF IInv, CacheInv

(* Values are buffered. *)
LEMMA AddHistoryIInv ==
  ASSUME IInv, NEW p \in Producers, NEW batch \in LocalBatches, dc_add_history(p, batch)
  PROVE  IInv'
  <1> USE DEF dc_add_history, cvars, svars, tvars, hvars, At, GoTo
  <1>0. batch \in Seq(ItemValue) /\ Len(batch) \in Nat
    BY DEF LocalBatches
  <1>1. TypeOK'
    <2>1. item_values' \in [Producers -> Seq(ItemValue)]
      BY <1>0 DEF IInv, TypeOK
    <2>2. values_num' \in [Producers -> Nat] /\ given' \in Nat
      BY <1>0 DEF IInv, TypeOK
    <2> QED BY <2>1, <2>2 DEF IInv, TypeOK
  <1>2. ProducersInStep'
    BY DEF IInv, TypeOK, ProducersInStep, NextItem
  <1>3. CacheInv'
    BY CacheUntouched, IInvParts
  <1> QED BY <1>1, <1>2, <1>3, IInvParts DEF IInv, CacheInv

(* The mutex is taken. *)
LEMMA FlushBeginIInv ==
  ASSUME IInv, NEW p \in Producers, flush_begin(p) PROVE IInv'
  <1> USE DEF flush_begin, cvars, svars, tvars, hvars, At, GoTo
  <1>1. TypeOK'
    BY DEF IInv, TypeOK
  <1>2. ProducersInStep'
    BY DEF IInv, TypeOK, ProducersInStep, NextItem
  <1>3. CacheInv'
    BY CacheUntouched, IInvParts
  <1> QED BY <1>1, <1>2, <1>3, IInvParts DEF IInv, CacheInv

(* The mutex is released. *)
LEMMA FlushEndIInv ==
  ASSUME IInv, NEW p \in Producers, flush_end(p) PROVE IInv'
  <1> USE DEF flush_end, cvars, svars, tvars, hvars, At, GoTo
  <1>1. TypeOK'
    BY DEF IInv, TypeOK
  <1>2. ProducersInStep'
    BY DEF IInv, TypeOK, ProducersInStep, NextItem
  <1>3. CacheInv'
    BY CacheUntouched, IInvParts
  <1> QED BY <1>1, <1>2, <1>3, IInvParts DEF IInv, CacheInv

(* The item is looked up: found is right while the mutex is held. *)
LEMMA GetItemIInv ==
  ASSUME IInv, NEW p \in Producers, hc_get_item(p) PROVE IInv'
  <1> USE DEF hc_get_item, cvars, svars, tvars, hvars, At, GoTo
  <1>1. TypeOK'
    BY DEF IInv, TypeOK
  <1>2. ProducersInStep'
    <2>0. found \in [Producers -> BOOLEAN] /\ DOMAIN producer = Producers
      BY DEF IInv, TypeOK
    <2>1. found'[p] = (values[NextItem(p)] # <<>>)
      BY <2>0, Zenon
    <2>2. cache_lock = p
      BY DEF IInv, ProducersInStep
    <2>3. ASSUME NEW q \in Producers, q # p
          PROVE  found'[q] = found[q] /\ producer'[q] = producer[q]
      BY <2>0, <2>3, Zenon
    <2>4. producer'[p] = "clone"
      BY DEF IInv, TypeOK
    <2> QED BY <2>1, <2>2, <2>3, <2>4 DEF IInv, ProducersInStep, NextItem
  <1>3. CacheInv'
    BY CacheUntouched, IInvParts
  <1> QED BY <1>1, <1>2, <1>3, IInvParts DEF IInv, CacheInv

(* The producer waits, and found is not used again. *)
LEMMA CacheFullIInv ==
  ASSUME IInv, NEW p \in Producers, cache_full(p) PROVE IInv'
  <1> USE DEF cache_full, cvars, svars, tvars, hvars, At, GoTo
  <1>1. TypeOK'
    BY DEF IInv, TypeOK
  <1>2. ProducersInStep'
    BY DEF IInv, TypeOK, ProducersInStep, NextItem
  <1>3. CacheInv'
    BY CacheUntouched, IInvParts
  <1> QED BY <1>1, <1>2, <1>3, IInvParts DEF IInv, CacheInv

(* The item is looked up again under the mutex. *)
LEMMA WaitEndIInv ==
  ASSUME IInv, NEW p \in Producers, wait_end(p) PROVE IInv'
  <1> USE DEF wait_end, cvars, svars, tvars, hvars, At, GoTo
  <1>1. TypeOK'
    BY DEF IInv, TypeOK
  <1>2. ProducersInStep'
    BY DEF IInv, TypeOK, ProducersInStep, NextItem
  <1>3. CacheInv'
    BY CacheUntouched, IInvParts
  <1> QED BY <1>1, <1>2, <1>3, IInvParts DEF IInv, CacheInv

-------------------------------------------------------------------------------
(* Steps of producers that change the list of an item. *)

(* A list that gets longer, or changes behind its oldest value. *)
Extends(new, old) == old # <<>> => new # <<>> /\ Head(new) = Head(old)

(* What syncers rely on survives an extension of lists. *)
LEMMA SyncersWhileExtending ==
  ASSUME IInv, UNCHANGED <<status, svars, locked>>,
         \A i \in Items : Extends(values'[i], values[i])
  PROVE  SyncersInStep' /\ BusyHeld' /\ TailStable' /\ TriggerExclusive' /\ TriggersTaken'
  <1> USE DEF svars
  <1>1. BusyHeld' /\ TriggerExclusive'
    BY DEF IInv, BusyHeld, TriggerExclusive
  <1>2. ASSUME NEW s \in Syncers PROVE InStep(s)' /\ StableTail(s)' /\ LocksTaken(s)'
    <2>1. history_items[s] \subseteq Items
      BY DEF IInv, TypeOK
    <2>2. \A i \in history_items[s] : values[i] # <<>>
      BY <2>1 DEF IInv, ItemOwnedOnce
    <2>3. \A i \in history_items[s] : values'[i] # <<>> /\ Head(values'[i]) = Head(values[i])
      BY <2>1, <2>2 DEF Extends
    <2>4. InStep(s) /\ StableTail(s) /\ LocksTaken(s)
      BY TailStableParts DEF IInv, SyncersInStep, TriggersTaken
    <2> QED BY <2>3, <2>4, SyncerUntouched
  <1> QED BY <1>1, <1>2 DEF SyncersInStep, TriggersTaken, TailStable, StableTail

(* The next value of a buffer is well typed. *)
LEMMA NextValueType ==
  ASSUME TypeOK, NEW p \in Producers, item_values[p] # <<>>
  PROVE  Head(item_values[p]) \in ItemValue /\ Tail(item_values[p]) \in Seq(ItemValue)
  <1>1. item_values[p] \in Seq(ItemValue)
    BY DEF TypeOK
  <1> QED BY <1>1

(* Metadata goes into the last of two or more values, never the oldest. *)
LEMMA MergeMetadataIInv ==
  ASSUME IInv, NEW p \in Producers, merge_metadata(p) PROVE IInv'
  <1> DEFINE i == NextItem(p)
             L == Len(values[i])
  <1>0. UNCHANGED <<status, queued, history_num, cache_lock, values_num, found, producer,
                    svars, tvars, given, accepted, processed, storedmeta, failed>>
    BY DEF merge_metadata
  <1>1. At(p, "next") /\ item_values[p] # <<>> /\ L > 1
    BY DEF merge_metadata, Merges
  <1>2. i \in Items /\ values[i] \in Seq(Data) /\ lastmeta \in [Items -> Nat]
    <2>1. Head(item_values[p]) \in ItemValue
      BY <1>1, NextValueType DEF IInv
    <2>2. i \in Items
      BY <2>1 DEF NextItem, ItemValue
    <2> QED BY <2>2 DEF IInv, TypeOK
  <1>3. Number(i) \in Nat
    BY <1>2 DEF Number
  <1>4. /\ values' = [values EXCEPT ![i] = [values[i] EXCEPT ![L].meta = Number(i)]]
        /\ lastmeta' = [lastmeta EXCEPT ![i] = Number(i)]
        /\ item_values' = [item_values EXCEPT ![p] = Tail(item_values[p])]
    BY DEF merge_metadata
  <1> DEFINE new == [values[i] EXCEPT ![L].meta = Number(i)]
  <1>5. new \in Seq(Data) /\ Len(new) = L /\ Head(new) = Head(values[i])
    <2>0. L \in Nat /\ L \in DOMAIN values[i] /\ values[i][L] \in Data
      BY <1>1, <1>2
    <2>1. [values[i][L] EXCEPT !.meta = Number(i)] \in Data
      BY <2>0, <1>3 DEF Data
    <2>2. new = [values[i] EXCEPT ![L] = [values[i][L] EXCEPT !.meta = Number(i)]]
      OBVIOUS
    <2> HIDE DEF i, L, new
    <2>3. new \in Seq(Data) /\ Len(new) = Len(values[i]) /\ new[1] = values[i][1]
      BY <2>0, <2>1, <2>2, <1>1, <1>2, SMT DEF L
    <2> QED BY <2>3, <1>1, <1>2 DEF L
  <1> HIDE DEF i, L, new
  <1>6. values \in [Items -> Seq(Data)]
    BY DEF IInv, TypeOK
  <1>7. values' \in [Items -> Seq(Data)] /\ values'[i] = new
        /\ \A j \in Items \ {i} : values'[j] = values[j]
    BY <1>2, <1>4, <1>5, <1>6 DEF new
  <1>8. new # <<>> /\ values[i] # <<>>
    BY <1>1, <1>2, <1>5 DEF L
  <1>9. \A j \in Items : Extends(values'[j], values[j]) /\ (values'[j] = <<>> <=> values[j] = <<>>)
    BY <1>5, <1>7, <1>8 DEF Extends
  <1>10. TypeOK'
    <2>1. lastmeta' \in [Items -> Nat]
      BY <1>2, <1>3, <1>4
    <2>2. item_values' \in [Producers -> Seq(ItemValue)]
      <3>1. item_values \in [Producers -> Seq(ItemValue)]
        BY DEF IInv, TypeOK
      <3>2. Tail(item_values[p]) \in Seq(ItemValue)
        BY <3>1, <1>1
      <3> QED BY <3>1, <3>2, <1>4
    <2> QED BY <2>1, <2>2, <1>0, <1>7 DEF IInv, TypeOK, svars, tvars
  <1>11. ItemOwnedOnce'
    BY <1>0, <1>9 DEF IInv, ItemOwnedOnce, svars
  <1>12. ProducersInStep'
    <2>1. cache_lock = p
      BY <1>1 DEF IInv, ProducersInStep, At
    <2>2. \A q \in Producers \ {p} : item_values'[q] = item_values[q] /\ producer[q] # "clone"
      BY <1>4, <2>1 DEF IInv, TypeOK, ProducersInStep
    <2> QED BY <1>0, <1>1, <2>2 DEF IInv, ProducersInStep, At
  <1>13. UNCHANGED <<status, svars, locked>>
    BY <1>0 DEF tvars
  <1> QED BY <1>13, <1>9, <1>10, <1>11, <1>12, SyncersWhileExtending DEF IInv

(* A value is appended; a new item is queued once. *)
LEMMA AddItemValueIInv ==
  ASSUME IInv, NEW p \in Producers, hc_add_item_value(p) PROVE IInv'
  <1> DEFINE i == NextItem(p)
             data == NewData(p)
             new == IF found[p] THEN Append(values[i], data) ELSE <<data>>
  <1>0. UNCHANGED <<status, history_num, cache_lock, values_num, found, svars, tvars,
                    given, processed, storedmeta, failed>>
    BY DEF hc_add_item_value
  <1>1. producer[p] = "clone" /\ item_values[p] # <<>> /\ cache_lock = p
        /\ (found[p] <=> values[i] # <<>>)
    BY DEF hc_add_item_value, At, IInv, ProducersInStep
  <1>2. /\ values' = [values EXCEPT ![i] = new]
        /\ queued' = [queued EXCEPT ![i] = IF found[p] THEN @ ELSE @ + 1]
        /\ accepted' = [accepted EXCEPT ![i] = Append(@, data.n)]
        /\ lastmeta' = [lastmeta EXCEPT ![i] = IF data.meta = 0 THEN @ ELSE data.meta]
        /\ item_values' = [item_values EXCEPT ![p] = Tail(@)]
        /\ producer' = [producer EXCEPT ![p] = "next"]
    BY DEF hc_add_item_value, GoTo
  <1>3. Head(item_values[p]) \in ItemValue /\ Tail(item_values[p]) \in Seq(ItemValue)
    BY <1>1, NextValueType DEF IInv
  <1>4. i \in Items
    BY <1>3 DEF NextItem, ItemValue
  <1>t. /\ values \in [Items -> Seq(Data)] /\ queued \in [Items -> Nat]
        /\ accepted \in [Items -> Seq(Nat)] /\ lastmeta \in [Items -> Nat]
        /\ item_values \in [Producers -> Seq(ItemValue)]
        /\ DOMAIN producer = Producers
    BY DEF IInv, TypeOK
  <1>5. data \in Data
    <2>1. NextNumber(i) \in Nat /\ Number(i) \in Nat
      BY <1>4, <1>t DEF NextNumber, Number
    <2>2. data = [n |-> NextNumber(i), ts |-> Head(item_values[p]).ts,
                  novalue |-> Head(item_values[p]).kind = "meta",
                  meta |-> IF Head(item_values[p]).kind = "value" THEN 0 ELSE Number(i)]
      BY DEF NewData, NextItem
    <2>3. Head(item_values[p]).ts \in Timestamps
      BY <1>3 DEF ItemValue
    <2> HIDE DEF i, data
    <2> QED BY <2>1, <2>2, <2>3 DEF Data
  <1> HIDE DEF i, data
  <1>6. new \in Seq(Data) /\ new # <<>>
    <2>1. values[i] \in Seq(Data)
      BY <1>4, <1>t
    <2>2. Append(values[i], data) \in Seq(Data) /\ Append(values[i], data) # <<>>
      BY <2>1, <1>5, AppendProperties
    <2>3. <<data>> \in Seq(Data) /\ <<data>> # <<>>
      BY <1>5
    <2> QED BY <2>2, <2>3
  <1>7. values[i] # <<>> => Head(new) = Head(values[i])
    BY <1>1, <1>4, <1>5, <1>t
  <1> HIDE DEF new
  <1>8. values' \in [Items -> Seq(Data)] /\ values'[i] = new
        /\ \A j \in Items \ {i} : values'[j] = values[j]
    BY <1>2, <1>4, <1>6, <1>t
  <1>9. queued' \in [Items -> Nat] /\ queued'[i] = (IF found[p] THEN queued[i] ELSE queued[i] + 1)
        /\ \A j \in Items \ {i} : queued'[j] = queued[j]
    BY <1>2, <1>4, <1>t
  <1>10. \A j \in Items : Extends(values'[j], values[j])
    BY <1>6, <1>7, <1>8 DEF Extends
  <1>11. TypeOK'
    <2>1. accepted' \in [Items -> Seq(Nat)]
      <3>1. data.n \in Nat
        BY <1>5 DEF Data
      <3> QED BY <3>1, <1>2, <1>4, <1>t
    <2>2. lastmeta' \in [Items -> Nat]
      <3>1. data.meta \in Nat
        BY <1>5 DEF Data
      <3> QED BY <3>1, <1>2, <1>4, <1>t
    <2>3. item_values' \in [Producers -> Seq(ItemValue)]
      BY <1>2, <1>3, <1>t
    <2>4. producer' \in [Producers -> {"idle", "flush", "next", "clone", "wait", "dead"}]
      BY <1>2 DEF IInv, TypeOK
    <2> QED BY <2>1, <2>2, <2>3, <2>4, <1>0, <1>8, <1>9 DEF IInv, TypeOK, svars, tvars
  <1>12. ItemOwnedOnce'
    <2>1. history_items' = history_items
      BY <1>0 DEF svars
    <2>2. ASSUME NEW j \in Items, j # i, NEW s \in Syncers, j \in history_items[s]
          PROVE  values'[j] # <<>> /\ \A r \in Syncers \ {s} : j \notin history_items[r]
      BY <2>2, <1>8 DEF IInv, ItemOwnedOnce
    <2>3. ASSUME NEW j \in Items, j # i
          PROVE  queued'[j] = IF values'[j] # <<>> /\ (\A s \in Syncers : j \notin history_items[s])
                              THEN 1 ELSE 0
      BY <2>3, <1>8, <1>9 DEF IInv, ItemOwnedOnce
    <2>4. queued'[i] = IF values'[i] # <<>> /\ (\A s \in Syncers : i \notin history_items[s])
                       THEN 1 ELSE 0
      <3>1. CASE values[i] # <<>>
        BY <3>1, <1>1, <1>4, <1>6, <1>8, <1>9 DEF IInv, ItemOwnedOnce
      <3>2. CASE values[i] = <<>>
        <4>1. queued[i] = 0 /\ \A s \in Syncers : i \notin history_items[s]
          BY <3>2, <1>4 DEF IInv, ItemOwnedOnce
        <4> QED BY <4>1, <3>2, <1>1, <1>6, <1>8, <1>9
      <3> QED BY <3>1, <3>2
    <2>5. ASSUME NEW s \in Syncers, i \in history_items[s]
          PROVE  values'[i] # <<>> /\ \A r \in Syncers \ {s} : i \notin history_items[r]
      BY <2>5, <1>4, <1>6, <1>8 DEF IInv, ItemOwnedOnce
    <2> QED BY <2>1, <2>2, <2>3, <2>4, <2>5 DEF ItemOwnedOnce
  <1>13. ProducersInStep'
    <2>1. \A q \in Producers \ {p} : /\ item_values'[q] = item_values[q]
                                      /\ producer'[q] = producer[q] /\ producer[q] # "clone"
      BY <1>1, <1>2, <1>t DEF IInv, ProducersInStep
    <2>2. producer'[p] = "next"
      BY <1>2, <1>t
    <2> QED BY <1>0, <1>1, <2>1, <2>2 DEF IInv, ProducersInStep
  <1>14. UNCHANGED <<status, svars, locked>>
    BY <1>0 DEF tvars
  <1> QED BY <1>14, <1>10, <1>11, <1>12, <1>13, SyncersWhileExtending DEF IInv

(* Time passes, the server is stopped. *)
LEMMA EnvironmentIInv ==
  ASSUME IInv, stop \/ \E t \in Timers : timer_due(t) PROVE IInv'
  <1> USE DEF cvars, pvars, svars, hvars
  <1>1. UNCHANGED <<cvars, pvars, svars, hvars, locked, timer_queue>>
    BY DEF stop, timer_due
  <1>2. due' \subseteq Timers /\ ticks' \in Nat /\ stopping' \in BOOLEAN
    <2>1. due \subseteq Timers /\ ticks \in Nat /\ stopping \in BOOLEAN
      BY DEF IInv, TypeOK
    <2>2. CASE stop
      BY <2>1, <2>2 DEF stop
    <2>3. ASSUME NEW t \in Timers, timer_due(t)
          PROVE  due' \subseteq Timers /\ ticks' \in Nat /\ stopping' \in BOOLEAN
      <3>1. due' = due \cup {t} /\ ticks' = ticks + 1 /\ stopping' = stopping
        BY <2>3 DEF timer_due
      <3> QED BY <2>1, <3>1
    <2> QED BY <2>2, <2>3
  <1>3. TypeOK'
    BY <1>1, <1>2 DEF IInv, TypeOK
  <1>4. ProducersInStep'
    BY <1>1 DEF IInv, ProducersInStep, NextItem
  <1>5. CacheInv'
    BY <1>1, CacheUntouched, IInvParts
  <1> QED BY <1>3, <1>4, <1>5 DEF IInv, CacheInv

-------------------------------------------------------------------------------
(* Steps of syncers. *)

(* After a round a syncer holds nothing. *)
LEMMA RoundEndResting ==
  ASSUME NEW s, NEW left, NEW more, NEW place \in RoundEnd(s, left, more)
  PROVE  place \in Resting
  BY DEF RoundEnd, Resting

(* A step of one syncer preserves the invariant if it leaves the producers *)
(* and other syncers alone and changes only items the syncer has taken.    *)
OthersAlone(s) ==
    /\ UNCHANGED pvars
    /\ values' = values \/ cache_lock = None
    /\ \A r \in Syncers \ {s} :
          /\ history_items'[r] = history_items[r] /\ history'[r] = history[r]
          /\ triggerids'[r] = triggerids[r] /\ syncer'[r] = syncer[r]
    /\ \A i \in Items : i \in history_items[s] \/ (status'[i] = status[i] /\ values'[i] = values[i])

(* The step preserves the invariant if it does so for this syncer. *)
LEMMA SyncerStep ==
  ASSUME IInv, NEW s \in Syncers, OthersAlone(s), TypeOK',
         ItemOwnedOnce', BusyHeld', TriggerExclusive',
         InStep(s)', StableTail(s)', LocksTaken(s)'
  PROVE  IInv'
  <1>1. ASSUME NEW r \in Syncers, r # s PROVE InStep(r)' /\ StableTail(r)' /\ LocksTaken(r)'
    <2>1. history_items[r] \subseteq Items
      BY DEF IInv, TypeOK
    <2>2. \A i \in history_items[r] : i \notin history_items[s]
      BY <1>1, <2>1 DEF IInv, ItemOwnedOnce
    <2>3. \A i \in history_items[r] : status'[i] = status[i] /\ values'[i] = values[i]
      BY <2>1, <2>2 DEF OthersAlone
    <2>4. InStep(r) /\ StableTail(r) /\ LocksTaken(r)
      BY TailStableParts DEF IInv, SyncersInStep, TriggersTaken
    <2>5. /\ history_items'[r] = history_items[r] /\ history'[r] = history[r]
          /\ triggerids'[r] = triggerids[r] /\ syncer'[r] = syncer[r]
      BY <1>1 DEF OthersAlone
    <2> QED BY <2>3, <2>4, <2>5, SyncerUntouched
  <1>2. ProducersInStep'
    <2>1. UNCHANGED <<cache_lock, item_values, found, producer>>
      BY DEF OthersAlone, pvars
    <2>2. ASSUME NEW p \in Producers, producer[p] = "clone" PROVE values' = values
      BY <2>2 DEF OthersAlone, IInv, ProducersInStep
    <2> QED BY <2>1, <2>2 DEF IInv, ProducersInStep, NextItem
  <1>3. SyncersInStep' /\ TriggersTaken' /\ TailStable'
    BY <1>1 DEF SyncersInStep, TriggersTaken, TailStable, StableTail
  <1> QED BY <1>2, <1>3 DEF IInv

(* A new call begins. *)
LEMMA NewCallIInv ==
  ASSUME IInv, NEW s \in Syncers, zbx_sync_history_cache(s) PROVE IInv'
  <1> USE DEF cvars, pvars, hvars
  <1>1. UNCHANGED <<cvars, pvars, history_items, history, triggerids, locked, ticks, stopping, hvars>>
        /\ syncer[s] = "idle" /\ syncer' = [syncer EXCEPT ![s] = "pop"]
    BY DEF zbx_sync_history_cache, In, Proceed
  <1>2. TypeOK'
    <2>1. timer_queue' \subseteq Timers /\ due' \subseteq Timers
      BY DEF IInv, TypeOK, zbx_sync_history_cache
    <2> QED BY <1>1, <2>1 DEF IInv, TypeOK
  <1>3. syncer'[s] = "pop" /\ \A r \in Syncers \ {s} : syncer'[r] = syncer[r]
    BY <1>1 DEF IInv, TypeOK
  <1>4. OthersAlone(s)
    BY <1>1, <1>3 DEF OthersAlone
  <1>5. ItemOwnedOnce' /\ BusyHeld' /\ TriggerExclusive'
    BY <1>1 DEF IInv, ItemOwnedOnce, BusyHeld, TriggerExclusive
  <1>6. InStep(s)
    BY DEF IInv, SyncersInStep
  <1>7. InStep(s)' /\ StableTail(s)' /\ LocksTaken(s)'
    BY <1>1, <1>3, <1>6 DEF InStep, StableTail, LocksTaken, Resting
  <1> QED BY <1>2, <1>4, <1>5, <1>7, SyncerStep

(* Values are written or given up. *)
LEMMA WriteIInv ==
  ASSUME IInv, NEW s \in Syncers, write_history(s) \/ write_failed(s) PROVE IInv'
  <1> USE DEF cvars, pvars, tvars
  <1>0. PICK place \in {"timers", "push", "unlock"} :
          /\ UNCHANGED <<cvars, pvars, history_items, history, triggerids, tvars, given,
                         accepted, lastmeta>>
          /\ syncer[s] = "write" /\ syncer' = [syncer EXCEPT ![s] = place]
          /\ place = "push" <=> ~Server
    BY DEF write_history, write_failed, In, Proceed
  <1>1. TypeOK'
    <2>1. ASSUME NEW i \in SyncedItems(s) PROVE i \in Items /\ SyncedData(s, i) \in Data
      <3>1. history[s] \subseteq Items \X Data
        BY DEF IInv, TypeOK
      <3>2. \E h \in history[s] : h[1] = i
        BY <2>1 DEF SyncedItems
      <3>3. (CHOOSE h \in history[s] : h[1] = i) \in history[s]
        BY <3>2
      <3> QED BY <3>1, <3>2, <3>3 DEF SyncedData
    <2>2. Processed(s) \in [Items -> Seq(Nat)]
      <3>1. ASSUME NEW i \in SyncedItems(s) PROVE SyncedData(s, i).n \in Nat
        BY <2>1 DEF Data
      <3>2. processed \in [Items -> Seq(Nat)]
        BY DEF IInv, TypeOK
      <3> QED BY <3>1, <3>2, AppendProperties DEF Processed
    <2>3. processed' = Processed(s)
      BY DEF write_history, write_failed
    <2>4. storedmeta' \in [Items -> Nat]
      <3>1. storedmeta \in [Items -> Nat]
        BY DEF IInv, TypeOK
      <3>2. CASE write_failed(s)
        BY <3>1, <3>2 DEF write_failed
      <3>3. CASE write_history(s)
        <4>1. ASSUME NEW i \in SyncedItems(s) PROVE SyncedData(s, i).meta \in Nat
          BY <2>1 DEF Data
        <4> QED BY <3>1, <3>3, <4>1 DEF write_history
      <3> QED BY <3>2, <3>3
    <2>5. failed' \subseteq Items
      <3>1. failed \subseteq Items /\ SyncedItems(s) \subseteq Items
        BY <2>1 DEF IInv, TypeOK
      <3> QED BY <3>1 DEF write_history, write_failed
    <2>6. syncer' \in [Syncers -> {"main", "pop", "lock", "busy", "get", "write", "timers",
                                   "unlock", "push", "idle", "gone"}]
      BY <1>0 DEF IInv, TypeOK
    <2> QED BY <1>0, <2>2, <2>3, <2>4, <2>5, <2>6 DEF IInv, TypeOK
  <1>2. syncer'[s] = place /\ \A r \in Syncers \ {s} : syncer'[r] = syncer[r]
    BY <1>0 DEF IInv, TypeOK
  <1>3. OthersAlone(s)
    BY <1>0, <1>2 DEF OthersAlone
  <1>4. ItemOwnedOnce' /\ BusyHeld' /\ TriggerExclusive'
    BY <1>0 DEF IInv, ItemOwnedOnce, BusyHeld, TriggerExclusive
  <1>5. InStep(s) /\ StableTail(s) /\ LocksTaken(s)
    BY TailStableParts DEF IInv, SyncersInStep, TriggersTaken
  <1>6. InStep(s)'
    BY <1>0, <1>2, <1>5 DEF InStep, Resting
  <1>7. StableTail(s)'
    BY <1>0, <1>5 DEF StableTail, TailOf
  <1>8. LocksTaken(s)'
    BY <1>0, <1>2, <1>5 DEF LocksTaken, Taken, LockedFor, TailOf
  <1> QED BY <1>1, <1>3, <1>4, <1>6, <1>7, <1>8, SyncerStep

(* The oldest values are copied. *)
LEMMA GetItemValuesIInv ==
  ASSUME IInv, NEW s \in Syncers, hc_get_item_values(s) PROVE IInv'
  <1> USE DEF cvars, pvars, tvars, hvars
  <1> DEFINE copied == {<<i, TailOf(i)>> : i \in Taken(s)}
  <1>0. /\ UNCHANGED <<cvars, pvars, history_items, triggerids, tvars, hvars>>
        /\ syncer[s] = "get" /\ syncer' = [syncer EXCEPT ![s] = "write"]
        /\ history' = [history EXCEPT ![s] = copied]
    BY DEF hc_get_item_values, In, Proceed, Taken
  <1>1. Taken(s) \subseteq history_items[s] /\ history_items[s] \subseteq Items
    BY DEF IInv, TypeOK, Taken
  <1>2. ASSUME NEW i \in Taken(s) PROVE values[i] # <<>> /\ TailOf(i) \in Data
    <2>1. values[i] \in Seq(Data) /\ values[i] # <<>>
      BY <1>1 DEF IInv, TypeOK, ItemOwnedOnce
    <2> QED BY <2>1 DEF TailOf
  <1>3. copied \subseteq Items \X Data
    BY <1>1, <1>2
  <1>4. IsFiniteSet(copied)
    <2> DEFINE f == [i \in Taken(s) |-> <<i, TailOf(i)>>]
    <2>1. f \in Surjection(Taken(s), copied)
      BY DEF Surjection
    <2>2. IsFiniteSet(Taken(s))
      BY <1>1, FS_Subset
    <2> QED BY <2>1, <2>2, FS_Surjection
  <1>5. copied # {}
    <2>1. \E i \in history_items[s] : status[i] = "NORMAL"
      BY <1>0 DEF IInv, SyncersInStep, InStep
    <2> QED BY <2>1 DEF Taken
  <1>6. \A h \in copied : h[1] \in Taken(s) /\ h[2] = TailOf(h[1])
    OBVIOUS
  <1> HIDE DEF copied
  <1>7. TypeOK'
    <2>1. history' \in [Syncers -> SUBSET (Items \X Data)]
      BY <1>0, <1>3 DEF IInv, TypeOK
    <2>2. syncer' \in [Syncers -> {"main", "pop", "lock", "busy", "get", "write", "timers",
                                   "unlock", "push", "idle", "gone"}]
      BY <1>0 DEF IInv, TypeOK
    <2> QED BY <1>0, <2>1, <2>2 DEF IInv, TypeOK
  <1>8. /\ syncer'[s] = "write" /\ history'[s] = copied
        /\ \A r \in Syncers \ {s} : syncer'[r] = syncer[r] /\ history'[r] = history[r]
    BY <1>0 DEF IInv, TypeOK
  <1>9. OthersAlone(s)
    BY <1>0, <1>8 DEF OthersAlone
  <1>10. ItemOwnedOnce' /\ BusyHeld' /\ TriggerExclusive'
    BY <1>0 DEF IInv, ItemOwnedOnce, BusyHeld, TriggerExclusive
  <1>11. InStep(s) /\ LocksTaken(s)
    BY DEF IInv, SyncersInStep, TriggersTaken
  <1>12. InStep(s)'
    BY <1>0, <1>4, <1>5, <1>8, <1>11 DEF InStep, Resting
  <1>13. StableTail(s)'
    <2>1. ASSUME NEW h \in copied
          PROVE  /\ h[1] \in history_items[s] /\ status[h[1]] = "NORMAL"
                 /\ values[h[1]] # <<>> /\ TailOf(h[1]) = h[2]
      BY <1>2, <1>6 DEF Taken
    <2> QED BY <1>0, <1>8, <2>1 DEF StableTail, TailOf
  <1>14. LocksTaken(s)'
    BY <1>0, <1>8, <1>11 DEF LocksTaken, Taken, LockedFor, TailOf
  <1> QED BY <1>7, <1>9, <1>10, <1>12, <1>13, <1>14, SyncerStep

(* Due timer triggers that nobody has locked are locked. *)
LEMMA TimersIInv ==
  ASSUME IInv, NEW s \in Syncers, zbx_dc_get_timer_triggerids(s) PROVE IInv'
  <1> USE DEF cvars, pvars, hvars
  <1>0. /\ UNCHANGED <<cvars, pvars, history_items, history, timer_queue, ticks, stopping, hvars>>
        /\ syncer[s] = "timers" /\ syncer' = [syncer EXCEPT ![s] = "unlock"]
        /\ triggerids' = [triggerids EXCEPT ![s] = @ \cup (due \ locked)]
        /\ locked' = locked \cup due /\ due' = {}
    BY DEF zbx_dc_get_timer_triggerids, In, Proceed
  <1>1. /\ syncer'[s] = "unlock" /\ triggerids'[s] = triggerids[s] \cup (due \ locked)
        /\ \A r \in Syncers \ {s} : syncer'[r] = syncer[r] /\ triggerids'[r] = triggerids[r]
    BY <1>0 DEF IInv, TypeOK
  <1>2. TypeOK'
    <2>0. due \subseteq Triggers /\ locked \subseteq Triggers
      BY DEF IInv, TypeOK
    <2>1. triggerids' \in [Syncers -> SUBSET Triggers]
      BY <1>0, <2>0 DEF IInv, TypeOK
    <2>2. syncer' \in [Syncers -> {"main", "pop", "lock", "busy", "get", "write", "timers",
                                   "unlock", "push", "idle", "gone"}]
      BY <1>0 DEF IInv, TypeOK
    <2> QED BY <1>0, <2>0, <2>1, <2>2 DEF IInv, TypeOK
  <1>3. OthersAlone(s)
    BY <1>0, <1>1 DEF OthersAlone
  <1>4. ItemOwnedOnce' /\ BusyHeld'
    BY <1>0 DEF IInv, ItemOwnedOnce, BusyHeld
  <1>5. TriggerExclusive'
    <2>1. locked = UNION {triggerids[r] : r \in Syncers}
          /\ \A q, r \in Syncers : q # r => triggerids[q] \cap triggerids[r] = {}
      BY DEF IInv, TriggerExclusive
    <2>2. \A r \in Syncers : triggerids[r] \subseteq locked
      BY <2>1
    <2>3. locked' = UNION {triggerids'[r] : r \in Syncers}
      <3>1. ASSUME NEW t \in locked' PROVE \E r \in Syncers : t \in triggerids'[r]
        BY <1>0, <1>1, <2>1
      <3>2. ASSUME NEW r \in Syncers PROVE triggerids'[r] \subseteq locked'
        BY <1>0, <1>1, <2>2
      <3> QED BY <3>1, <3>2
    <2>4. \A q, r \in Syncers : q # r => triggerids'[q] \cap triggerids'[r] = {}
      BY <1>1, <2>1, <2>2
    <2> QED BY <2>3, <2>4 DEF TriggerExclusive
  <1>6. InStep(s) /\ StableTail(s) /\ LocksTaken(s)
    BY TailStableParts DEF IInv, SyncersInStep, TriggersTaken
  <1>7. InStep(s)'
    BY <1>0, <1>1, <1>6 DEF InStep, Resting
  <1>8. StableTail(s)'
    BY <1>0, <1>6 DEF StableTail, TailOf
  <1>9. LocksTaken(s)'
    BY <1>0, <1>1, <1>6 DEF LocksTaken, Taken, LockedFor, TailOf
  <1> QED BY <1>2, <1>3, <1>4, <1>5, <1>7, <1>8, <1>9, SyncerStep

(* A syncer unlocks its own triggers and no others. *)
LEMMA UnlockIInv ==
  ASSUME IInv, NEW s \in Syncers, DCconfig_unlock_triggers(s) PROVE IInv'
  <1> USE DEF cvars, pvars, hvars
  <1>0. /\ UNCHANGED <<cvars, pvars, history_items, history, timer_queue, due, ticks, stopping,
                       hvars>>
        /\ syncer[s] = "unlock"
        /\ triggerids' = [triggerids EXCEPT ![s] = {}]
        /\ locked' = locked \ triggerids[s]
    BY DEF DCconfig_unlock_triggers, In
  <1>1. PICK place \in Resting \cup {"push"} :
          syncer' = [syncer EXCEPT ![s] = place] /\ (place \in Resting => history[s] = {})
    BY RoundEndResting DEF DCconfig_unlock_triggers, Proceed, Resting
  <1>2. /\ syncer'[s] = place /\ triggerids'[s] = {}
        /\ \A r \in Syncers \ {s} : syncer'[r] = syncer[r] /\ triggerids'[r] = triggerids[r]
    BY <1>0, <1>1 DEF IInv, TypeOK
  <1>3. TypeOK'
    <2>1. triggerids' \in [Syncers -> SUBSET Triggers] /\ locked' \subseteq Triggers
      BY <1>0 DEF IInv, TypeOK
    <2>2. syncer' \in [Syncers -> {"main", "pop", "lock", "busy", "get", "write", "timers",
                                   "unlock", "push", "idle", "gone"}]
      BY <1>1 DEF IInv, TypeOK, Resting
    <2> QED BY <1>0, <2>1, <2>2 DEF IInv, TypeOK
  <1>4. OthersAlone(s)
    BY <1>0, <1>2 DEF OthersAlone
  <1>5. ItemOwnedOnce' /\ BusyHeld'
    BY <1>0 DEF IInv, ItemOwnedOnce, BusyHeld
  <1>6. TriggerExclusive'
    <2>1. locked = UNION {triggerids[r] : r \in Syncers}
          /\ \A q, r \in Syncers : q # r => triggerids[q] \cap triggerids[r] = {}
      BY DEF IInv, TriggerExclusive
    <2>2. locked' = UNION {triggerids'[r] : r \in Syncers}
      <3>1. ASSUME NEW t \in locked' PROVE \E r \in Syncers : t \in triggerids'[r]
        BY <1>0, <1>2, <2>1
      <3>2. ASSUME NEW r \in Syncers PROVE triggerids'[r] \subseteq locked'
        BY <1>0, <1>2, <2>1
      <3> QED BY <3>1, <3>2
    <2>3. \A q, r \in Syncers : q # r => triggerids'[q] \cap triggerids'[r] = {}
      BY <1>2, <2>1
    <2> QED BY <2>2, <2>3 DEF TriggerExclusive
  <1>7. InStep(s) /\ StableTail(s)
    BY TailStableParts DEF IInv, SyncersInStep
  <1>8. InStep(s)'
    BY <1>0, <1>1, <1>2, <1>7 DEF InStep, Resting
  <1>9. StableTail(s)'
    BY <1>0, <1>7 DEF StableTail, TailOf
  <1>10. LocksTaken(s)'
    BY <1>2 DEF LocksTaken, Resting
  <1> QED BY <1>3, <1>4, <1>5, <1>6, <1>8, <1>9, <1>10, SyncerStep

(* Items move from the queue to the syncer. *)
LEMMA PopItemsIInv ==
  ASSUME IInv, NEW s \in Syncers, hc_pop_items(s) PROVE IInv'
  <1> USE DEF pvars, tvars, hvars
  <1>0. /\ UNCHANGED <<values, status, history_num, pvars, history, triggerids, tvars, hvars>>
        /\ syncer[s] = "pop" /\ cache_lock = None
    BY DEF hc_pop_items, In
  <1>1. PICK S \in Batches :
          /\ history_items' = [history_items EXCEPT ![s] = S]
          /\ queued' = [i \in Items |-> IF i \in S THEN queued[i] - 1 ELSE queued[i]]
          /\ \E place \in IF S # {} THEN {IF Server THEN "lock" ELSE "get"}
                          ELSE IF Server THEN {"timers"} ELSE RoundEnd(s, FALSE, FALSE) :
                Proceed(s, place)
    BY DEF hc_pop_items
  <1>2. PICK place \in Resting \cup {"lock", "get", "timers"} :
          /\ syncer' = [syncer EXCEPT ![s] = place]
          /\ place \in Resting \cup {"timers"} => S = {}
          /\ place \in {"lock", "timers"} => Server
          /\ place = "get" => S # {} /\ ~Server
    BY <1>1, RoundEndResting DEF Proceed, Resting
  <1>3. S \subseteq Items /\ \A i \in S : queued[i] > 0
    BY DEF Batches, InQueue
  <1>4. InStep(s)
    BY DEF IInv, SyncersInStep
  <1>5. history_items[s] = {} /\ history[s] = {} /\ triggerids[s] = {}
    BY <1>0, <1>4 DEF InStep, Resting
  <1>6. /\ syncer'[s] = place /\ history_items'[s] = S
        /\ \A r \in Syncers \ {s} : syncer'[r] = syncer[r] /\ history_items'[r] = history_items[r]
    BY <1>1, <1>2 DEF IInv, TypeOK
  <1>7. ASSUME NEW i \in S
        PROVE  /\ queued[i] = 1 /\ values[i] # <<>> /\ status[i] = "NORMAL"
               /\ \A r \in Syncers : i \notin history_items[r]
    <2>1. queued[i] = 1 /\ values[i] # <<>> /\ \A r \in Syncers : i \notin history_items[r]
      BY <1>3 DEF IInv, ItemOwnedOnce
    <2>2. status[i] \in {"NORMAL", "BUSY"}
      BY <1>3 DEF IInv, TypeOK
    <2> QED BY <2>1, <2>2, <1>3 DEF IInv, BusyHeld
  <1>8. TypeOK'
    <2>1. queued' \in [Items -> Nat]
      <3>1. queued \in [Items -> Nat]
        BY DEF IInv, TypeOK
      <3> QED BY <3>1, <1>1, <1>7
    <2>2. history_items' \in [Syncers -> SUBSET Items]
      BY <1>1, <1>3 DEF IInv, TypeOK
    <2>3. syncer' \in [Syncers -> {"main", "pop", "lock", "busy", "get", "write", "timers",
                                   "unlock", "push", "idle", "gone"}]
      BY <1>2 DEF IInv, TypeOK, Resting
    <2> QED BY <1>0, <2>1, <2>2, <2>3 DEF IInv, TypeOK
  <1>9. OthersAlone(s)
    BY <1>0, <1>6 DEF OthersAlone
  <1>10. ItemOwnedOnce'
    <2>1. ASSUME NEW i \in S
          PROVE  queued'[i] = 0 /\ i \in history_items'[s] /\ values'[i] # <<>>
                 /\ \A r \in Syncers \ {s} : i \notin history_items'[r]
      BY <1>0, <1>1, <1>3, <1>6, <1>7
    <2>2. ASSUME NEW i \in Items \ S
          PROVE  /\ queued'[i] = queued[i] /\ values'[i] = values[i]
                 /\ \A r \in Syncers : i \in history_items'[r] <=> i \in history_items[r]
      BY <1>0, <1>1, <1>5, <1>6
    <2>3. ASSUME NEW i \in Items \ S
          PROVE  queued'[i] = IF values'[i] # <<>> /\ (\A r \in Syncers : i \notin history_items'[r])
                              THEN 1 ELSE 0
      BY <2>2 DEF IInv, ItemOwnedOnce
    <2>4. ASSUME NEW i \in Items \ S, NEW r \in Syncers, i \in history_items'[r]
          PROVE  values'[i] # <<>> /\ \A q \in Syncers \ {r} : i \notin history_items'[q]
      BY <2>2, <2>4 DEF IInv, ItemOwnedOnce
    <2> QED BY <2>1, <2>3, <2>4, <1>3 DEF ItemOwnedOnce
  <1>11. BusyHeld'
    BY <1>0, <1>5, <1>6 DEF IInv, BusyHeld
  <1>12. TriggerExclusive'
    BY <1>0 DEF IInv, TriggerExclusive
  <1>13. InStep(s)'
    BY <1>0, <1>2, <1>4, <1>5, <1>6, <1>7 DEF InStep, Resting
  <1>14. StableTail(s)'
    BY <1>0, <1>5 DEF StableTail
  <1>15. LocksTaken(s)'
    BY <1>2, <1>6 DEF LocksTaken, Taken, Resting
  <1> QED BY <1>8, <1>9, <1>10, <1>11, <1>12, <1>13, <1>14, <1>15, SyncerStep

(* Triggers of available items are locked, the other items are busy. *)
LEMMA LockTriggersIInv ==
  ASSUME IInv, NEW s \in Syncers, DCconfig_lock_triggers_by_history_items(s) PROVE IInv'
  <1> USE DEF pvars, hvars
  <1>0. /\ UNCHANGED <<values, queued, history_num, pvars, history_items, history,
                       timer_queue, due, ticks, stopping, hvars>>
        /\ syncer[s] = "lock"
    BY DEF DCconfig_lock_triggers_by_history_items, In
  <1>1. PICK A \in SUBSET history_items[s] :
          /\ Available(s, A)
          /\ status' = [i \in Items |-> IF i \in history_items[s] \ A THEN "BUSY" ELSE status[i]]
          /\ triggerids' = [triggerids EXCEPT ![s] = UNION {LockedFor(i) : i \in A}]
          /\ locked' = locked \cup triggerids'[s]
          /\ Proceed(s, IF A = {} THEN "busy" ELSE "get")
    BY DEF DCconfig_lock_triggers_by_history_items
  <1> DEFINE T == UNION {LockedFor(i) : i \in A}
             place == IF A = {} THEN "busy" ELSE "get"
  <1>2. InStep(s)
    BY DEF IInv, SyncersInStep
  <1>3. /\ history[s] = {} /\ triggerids[s] = {} /\ Server
        /\ \A i \in history_items[s] : status[i] = "NORMAL"
    BY <1>0, <1>2 DEF InStep
  <1>4. /\ triggerids'[s] = T /\ syncer'[s] = place
        /\ \A r \in Syncers \ {s} : syncer'[r] = syncer[r] /\ triggerids'[r] = triggerids[r]
    BY <1>1 DEF IInv, TypeOK, Proceed
  <1>5. history_items[s] \subseteq Items /\ A \subseteq Items
    BY <1>1 DEF IInv, TypeOK
  <1>6. T \subseteq Triggers /\ T \cap locked = {}
    <2>1. ASSUME NEW i \in A PROVE LockedFor(i) \subseteq Triggers /\ LockedFor(i) \cap locked = {}
      BY <1>1, <1>5 DEF LockedFor, Available
    <2> QED BY <2>1
  <1>7. \A i \in A : LockedFor(i) \subseteq T
    OBVIOUS
  <1>8. \A i \in A : status'[i] = "NORMAL"
    BY <1>1, <1>3, <1>5
  <1>9. \A i \in history_items[s] \ A : status'[i] = "BUSY"
    BY <1>1, <1>5
  <1> HIDE DEF T
  <1>10. TypeOK'
    <2>1. status' \in [Items -> {"NORMAL", "BUSY"}]
      BY <1>1 DEF IInv, TypeOK
    <2>2. triggerids' \in [Syncers -> SUBSET Triggers]
      BY <1>1, <1>6 DEF IInv, TypeOK, T
    <2>3. locked' \subseteq Triggers
      BY <1>1, <1>4, <1>6 DEF IInv, TypeOK
    <2>4. syncer' \in [Syncers -> {"main", "pop", "lock", "busy", "get", "write", "timers",
                                   "unlock", "push", "idle", "gone"}]
      BY <1>1 DEF IInv, TypeOK, Proceed
    <2> QED BY <1>0, <2>1, <2>2, <2>3, <2>4 DEF IInv, TypeOK
  <1>11. OthersAlone(s)
    <2>1. \A i \in Items : i \in history_items[s] \/ status'[i] = status[i]
      BY <1>1
    <2> QED BY <1>0, <1>4, <2>1 DEF OthersAlone
  <1>12. ItemOwnedOnce'
    BY <1>0 DEF IInv, ItemOwnedOnce
  <1>13. BusyHeld'
    <2>1. ASSUME NEW i \in Items, status'[i] = "BUSY" PROVE \E r \in Syncers : i \in history_items[r]
      <3>1. CASE i \in history_items[s]
        BY <3>1
      <3>2. CASE i \notin history_items[s]
        <4>1. status'[i] = status[i]
          BY <1>1, <3>2
        <4> QED BY <4>1, <2>1 DEF IInv, BusyHeld
      <3> QED BY <3>1, <3>2
    <2> QED BY <1>0, <2>1 DEF BusyHeld
  <1>14. TriggerExclusive'
    <2>1. locked = UNION {triggerids[r] : r \in Syncers}
          /\ \A q, r \in Syncers : q # r => triggerids[q] \cap triggerids[r] = {}
      BY DEF IInv, TriggerExclusive
    <2>0. locked' = locked \cup T
      BY <1>1, <1>4
    <2>2. \A r \in Syncers : triggerids[r] \subseteq locked
      BY <2>1
    <2>3. locked' = UNION {triggerids'[r] : r \in Syncers}
      <3>1. ASSUME NEW t \in locked' PROVE \E r \in Syncers : t \in triggerids'[r]
        <4>1. CASE t \in T
          BY <4>1, <1>4
        <4>2. CASE t \notin T
          <5>1. PICK r \in Syncers : t \in triggerids[r]
            BY <4>2, <2>0, <2>1
          <5>2. r # s
            BY <5>1, <1>3
          <5> QED BY <5>1, <5>2, <1>4
        <4> QED BY <4>1, <4>2
      <3>2. ASSUME NEW r \in Syncers PROVE triggerids'[r] \subseteq locked'
        BY <1>4, <2>0, <2>2
      <3> QED BY <3>1, <3>2
    <2>4. \A q, r \in Syncers : q # r => triggerids'[q] \cap triggerids'[r] = {}
      BY <1>4, <1>6, <2>1, <2>2
    <2> QED BY <2>3, <2>4 DEF TriggerExclusive
  <1>15. InStep(s)'
    <2>1. A = {} => T = {}
      BY DEF T
    <2> QED BY <1>0, <1>2, <1>3, <1>4, <1>8, <2>1 DEF InStep, Resting
  <1>16. StableTail(s)'
    BY <1>0, <1>3 DEF StableTail
  <1>17. LocksTaken(s)'
    <2>1. Taken(s)' \subseteq A
      BY <1>0, <1>9 DEF Taken
    <2>2. \A i \in A : LockedFor(i)' = LockedFor(i)
      BY <1>0 DEF LockedFor, TailOf
    <2>3. \A i, j \in A : i # j => LockedFor(i) \cap LockedFor(j) = {}
      BY <1>1 DEF Available
    <2> QED BY <1>4, <1>7, <2>1, <2>2, <2>3 DEF LocksTaken
  <1> QED BY <1>10, <1>11, <1>12, <1>13, <1>14, <1>15, <1>16, <1>17, SyncerStep

(* What hc_push_items does to the items, whoever calls it. *)
LEMMA PushItemsEffect ==
  ASSUME IInv, NEW s \in Syncers, hc_push_items(s)
  PROVE  /\ values' \in [Items -> Seq(Data)] /\ queued' \in [Items -> Nat]
         /\ status' \in [Items -> {"NORMAL", "BUSY"}]
         /\ history_items' \in [Syncers -> SUBSET Items]
         /\ history_items'[s] = {} /\ \A r \in Syncers \ {s} : history_items'[r] = history_items[r]
         /\ \A i \in Items : i \in history_items[s]
                              \/ (status'[i] = status[i] /\ values'[i] = values[i])
         /\ ItemOwnedOnce' /\ BusyHeld' /\ cache_lock = None
  <1>0. /\ values' = PushedValues(s) /\ queued' = PushedQueue(s) /\ cache_lock = None
        /\ status' = [i \in Items |-> IF i \in history_items[s] THEN "NORMAL" ELSE status[i]]
        /\ history_items' = [history_items EXCEPT ![s] = {}]
    BY DEF hc_push_items
  <1>1. /\ values \in [Items -> Seq(Data)] /\ queued \in [Items -> Nat]
        /\ status \in [Items -> {"NORMAL", "BUSY"}]
        /\ history_items \in [Syncers -> SUBSET Items]
    BY DEF IInv, TypeOK
  <1>2. history_items'[s] = {} /\ \A r \in Syncers \ {s} : history_items'[r] = history_items[r]
    BY <1>0, <1>1
  <1>3. ASSUME NEW i \in history_items[s]
        PROVE  i \in Items /\ queued[i] = 0 /\ values[i] # <<>>
               /\ \A r \in Syncers \ {s} : i \notin history_items[r]
    BY <1>1 DEF IInv, ItemOwnedOnce
  <1>4. ASSUME NEW i \in Items, i \notin history_items[s]
        PROVE  values'[i] = values[i] /\ queued'[i] = queued[i] /\ status'[i] = status[i]
    BY <1>0, <1>4 DEF PushedValues, PushedQueue
  <1>5. ASSUME NEW i \in history_items[s]
        PROVE  /\ values'[i] \in Seq(Data)
               /\ queued'[i] = IF values'[i] # <<>> THEN 1 ELSE 0
    <2>1. i \in Items /\ values[i] \in Seq(Data) /\ values[i] # <<>> /\ queued[i] = 0
      BY <1>1, <1>3
    <2>2. Tail(values[i]) \in Seq(Data) /\ (Tail(values[i]) # <<>> <=> Len(values[i]) > 1)
      <3> DEFINE v == values[i]
      <3>1. v \in Seq(Data) /\ v # <<>> /\ Len(v) \in Nat
        BY <2>1
      <3> HIDE DEF v
      <3>2. Tail(v) \in Seq(Data) /\ Len(Tail(v)) = Len(v) - 1
        BY <3>1, HeadTailProperties
      <3>3. Tail(v) # <<>> <=> Len(Tail(v)) # 0
        BY <3>2, EmptySeq
      <3>4. Len(v) # 0
        BY <3>1, EmptySeq
      <3>5. Tail(v) # <<>> <=> Len(v) > 1
        BY <3>1, <3>2, <3>3, <3>4
      <3> QED BY <3>2, <3>5 DEF v
    <2>3. values'[i] = IF status[i] = "NORMAL" THEN Tail(values[i]) ELSE values[i]
      BY <1>0, <2>1 DEF PushedValues
    <2>4. queued'[i] = IF status[i] = "BUSY" \/ Len(values[i]) > 1 THEN 1 ELSE 0
      BY <1>0, <2>1 DEF PushedQueue
    <2>5. CASE status[i] = "BUSY"
      BY <2>1, <2>3, <2>4, <2>5
    <2>6. CASE status[i] = "NORMAL"
      BY <2>2, <2>3, <2>4, <2>6
    <2> QED BY <2>1, <2>5, <2>6, <1>1
  <1>6. values' \in [Items -> Seq(Data)]
    <2>1. DOMAIN values' = Items /\ values' = [i \in Items |-> values'[i]]
      BY <1>0 DEF PushedValues
    <2>2. \A i \in Items : values'[i] \in Seq(Data)
      BY <1>1, <1>4, <1>5
    <2> QED BY <2>1, <2>2
  <1>7. queued' \in [Items -> Nat]
    <2>1. queued' = [i \in Items |-> queued'[i]]
      BY <1>0 DEF PushedQueue
    <2>2. \A i \in Items : queued'[i] \in Nat
      BY <1>1, <1>4, <1>5
    <2> QED BY <2>1, <2>2
  <1>8. status' \in [Items -> {"NORMAL", "BUSY"}] /\ history_items' \in [Syncers -> SUBSET Items]
    BY <1>0, <1>1
  <1>9. ItemOwnedOnce'
    <2>1. ASSUME NEW i \in history_items[s]
          PROVE  /\ \A r \in Syncers : i \notin history_items'[r]
                 /\ queued'[i] = IF values'[i] # <<>> THEN 1 ELSE 0
      BY <1>2, <1>3, <1>5
    <2>2. ASSUME NEW i \in Items, i \notin history_items[s]
          PROVE  /\ queued'[i] = queued[i] /\ values'[i] = values[i]
                 /\ \A r \in Syncers : i \in history_items'[r] <=> i \in history_items[r]
      BY <1>2, <1>4, <2>2
    <2>3. ASSUME NEW i \in Items, i \notin history_items[s]
          PROVE  queued'[i] = IF values'[i] # <<>> /\ (\A r \in Syncers : i \notin history_items'[r])
                              THEN 1 ELSE 0
      BY <2>2, <2>3 DEF IInv, ItemOwnedOnce
    <2>4. ASSUME NEW i \in Items, NEW r \in Syncers, i \in history_items'[r]
          PROVE  values'[i] # <<>> /\ \A q \in Syncers \ {r} : i \notin history_items'[q]
      <3>1. i \notin history_items[s]
        BY <2>1, <2>4
      <3> QED BY <2>2, <2>4, <3>1 DEF IInv, ItemOwnedOnce
    <2> QED BY <2>1, <2>3, <2>4 DEF ItemOwnedOnce
  <1>10. BusyHeld'
    <2>1. ASSUME NEW i \in Items, status'[i] = "BUSY" PROVE \E r \in Syncers : i \in history_items'[r]
      <3>1. i \notin history_items[s] /\ status[i] = "BUSY"
        BY <1>0, <2>1
      <3>2. PICK r \in Syncers : i \in history_items[r]
        BY <3>1 DEF IInv, BusyHeld
      <3> QED BY <1>2, <3>1, <3>2
    <2> QED BY <2>1 DEF BusyHeld
  <1> QED BY <1>0, <1>2, <1>4, <1>6, <1>7, <1>8, <1>9, <1>10

(* Items are pushed back. *)
LEMMA PushIInv ==
  ASSUME IInv, NEW s \in Syncers, push_busy(s) \/ push_items(s) PROVE IInv'
  <1> USE DEF pvars, tvars, hvars
  <1>0. /\ UNCHANGED <<pvars, triggerids, tvars, hvars>> /\ hc_push_items(s)
        /\ syncer[s] \in {"busy", "push"}
    BY DEF push_busy, push_items, In
  <1>1. InStep(s)
    BY DEF IInv, SyncersInStep
  <1>2. history \in [Syncers -> SUBSET (Items \X Data)] /\ history_num \in Int
    BY DEF IInv, TypeOK
  <1>3. /\ history' \in [Syncers -> SUBSET (Items \X Data)] /\ history'[s] = {}
        /\ \A r \in Syncers \ {s} : history'[r] = history[r]
        /\ history_num' \in Int
    <2>1. CASE push_busy(s)
      BY <2>1, <1>1, <1>2 DEF push_busy, InStep, In
    <2>2. CASE push_items(s)
      <3>1. Cardinality(history[s]) \in Int
        BY <1>1, FS_CardinalityType DEF InStep
      <3>2. history_num' = history_num - Cardinality(history[s])
            /\ history' = [history EXCEPT ![s] = {}]
        BY <2>2 DEF push_items
      <3> QED BY <1>2, <3>1, <3>2
    <2> QED BY <1>0, <2>1, <2>2
  <1>4. PICK place \in Resting \cup {"timers"} :
          syncer' = [syncer EXCEPT ![s] = place] /\ (place = "timers" => syncer[s] = "busy")
    BY RoundEndResting DEF push_busy, push_items, Proceed, Resting, In
  <1>5. syncer'[s] = place /\ \A r \in Syncers \ {s} : syncer'[r] = syncer[r]
    BY <1>4 DEF IInv, TypeOK
  <1>6. TypeOK'
    <2>1. syncer' \in [Syncers -> {"main", "pop", "lock", "busy", "get", "write", "timers",
                                   "unlock", "push", "idle", "gone"}]
      BY <1>4 DEF IInv, TypeOK, Resting
    <2>2. /\ values' \in [Items -> Seq(Data)] /\ queued' \in [Items -> Nat]
          /\ status' \in [Items -> {"NORMAL", "BUSY"}]
          /\ history_items' \in [Syncers -> SUBSET Items]
      BY <1>0, PushItemsEffect
    <2> QED BY <1>0, <1>3, <2>1, <2>2 DEF IInv, TypeOK
  <1>7. OthersAlone(s)
    BY <1>0, <1>3, <1>5, PushItemsEffect DEF OthersAlone
  <1>8. ItemOwnedOnce' /\ BusyHeld' /\ history_items'[s] = {}
    BY <1>0, PushItemsEffect
  <1>9. TriggerExclusive'
    BY <1>0 DEF IInv, TriggerExclusive
  <1>10. InStep(s)'
    <2>1. triggerids'[s] = {}
      BY <1>0, <1>1 DEF InStep
    <2>2. Server \/ syncer[s] # "busy"
      BY <1>1 DEF InStep
    <2> QED BY <1>3, <1>4, <1>5, <1>8, <2>1, <2>2, FS_EmptySet DEF InStep, Resting
  <1>11. StableTail(s)' /\ LocksTaken(s)'
    BY <1>3, <1>8 DEF StableTail, LocksTaken, Taken
  <1> QED BY <1>6, <1>7, <1>8, <1>9, <1>10, <1>11, SyncerStep

(* The full sync starts when nobody else holds anything. *)
LEMMA FullSyncIInv ==
  ASSUME IInv, sync_history_cache_full PROVE IInv'
  <1> USE DEF hvars
  <1>0. /\ syncer[Main] = "main"
        /\ \A s \in Syncers \ {Main} : syncer[s] = "gone"
        /\ producer' = [p \in Producers |-> "dead"] /\ cache_lock' = None
        /\ locked' = {} /\ timer_queue' = {} /\ due' = {}
        /\ status' = [i \in Items |-> "NORMAL"]
        /\ queued' = [i \in Items |-> IF values[i] # <<>> THEN 1 ELSE 0]
        /\ UNCHANGED <<values, history_num, item_values, values_num, found,
                       history_items, history, triggerids, ticks, stopping, hvars>>
    BY DEF sync_history_cache_full, In
  <1>1. PICK place \in {"pop", "gone"} : syncer' = [syncer EXCEPT ![Main] = place]
    BY DEF sync_history_cache_full, Proceed
  <1>2. \A s \in Syncers : syncer'[s] \in Resting
    BY <1>0, <1>1 DEF IInv, TypeOK, Resting
  <1>3. ASSUME NEW s \in Syncers
        PROVE  history_items[s] = {} /\ history[s] = {} /\ triggerids[s] = {}
    <2>1. InStep(s) /\ syncer[s] \in Resting
      BY <1>0 DEF IInv, SyncersInStep, Resting
    <2> QED BY <2>1 DEF InStep
  <1>4. TypeOK'
    <2>1. syncer' \in [Syncers -> {"main", "pop", "lock", "busy", "get", "write", "timers",
                                   "unlock", "push", "idle", "gone"}]
      BY <1>1 DEF IInv, TypeOK
    <2>2. producer' \in [Producers -> {"idle", "flush", "next", "clone", "wait", "dead"}]
          /\ status' \in [Items -> {"NORMAL", "BUSY"}] /\ queued' \in [Items -> Nat]
      BY <1>0
    <2> QED BY <1>0, <2>1, <2>2 DEF IInv, TypeOK
  <1>5. ProducersInStep'
    BY <1>0 DEF ProducersInStep
  <1>6. ItemOwnedOnce'
    BY <1>0, <1>3 DEF ItemOwnedOnce
  <1>7. BusyHeld'
    BY <1>0 DEF BusyHeld
  <1>8. TriggerExclusive'
    BY <1>0, <1>3 DEF TriggerExclusive
  <1>9. ASSUME NEW s \in Syncers PROVE InStep(s)' /\ StableTail(s)' /\ LocksTaken(s)'
    BY <1>0, <1>2, <1>3, FS_EmptySet DEF InStep, StableTail, LocksTaken, Taken, Resting
  <1> QED BY <1>4, <1>5, <1>6, <1>7, <1>8, <1>9
          DEF IInv, SyncersInStep, TriggersTaken, TailStable, StableTail

-------------------------------------------------------------------------------
(* The invariant is inductive. *)
LEMMA NextIInv == IInv /\ [Next]_vars => IInv'
  <1> SUFFICES ASSUME IInv, [Next]_vars PROVE IInv'
    OBVIOUS
  <1>1. ASSUME NEW p \in Producers, Flush(p) PROVE IInv'
    BY <1>1, FlushBeginIInv, FlushEndIInv, MergeMetadataIInv, GetItemIInv, AddItemValueIInv,
       CacheFullIInv, WaitEndIInv DEF Flush
  <1>2. ASSUME NEW p \in Producers, NEW batch \in LocalBatches, dc_add_history(p, batch)
        PROVE  IInv'
    BY <1>2, AddHistoryIInv
  <1>3. ASSUME NEW s \in Syncers, Sync(s) PROVE IInv'
    BY <1>3, PopItemsIInv, LockTriggersIInv, PushIInv, GetItemValuesIInv, WriteIInv,
       TimersIInv, UnlockIInv, NewCallIInv DEF Sync
  <1>4. CASE stop \/ \E t \in Timers : timer_due(t)
    BY <1>4, EnvironmentIInv
  <1>5. CASE sync_history_cache_full
    BY <1>5, FullSyncIInv
  <1>6. CASE UNCHANGED vars
    <2> USE <1>6 DEF vars, cvars, pvars, svars, tvars, hvars
    <2>1. TypeOK'
      BY DEF IInv, TypeOK
    <2>2. ProducersInStep'
      BY DEF IInv, ProducersInStep, NextItem
    <2>3. CacheInv'
      BY CacheUntouched, IInvParts
    <2> QED BY <2>1, <2>2, <2>3 DEF IInv, CacheInv
  <1> QED BY <1>1, <1>2, <1>3, <1>4, <1>5, <1>6 DEF Next

(* The inductive invariant holds in every reachable state, for any number  *)
(* of producers, syncers, items, triggers and values.                      *)
THEOREM HistoryInvariant == Spec => []IInv
  BY InitIInv, NextIInv, PTL DEF Spec

(* The variables keep their types, in every reachable state. *)
THEOREM HistoryTypeOK == Spec => []TypeOK
  <1>1. IInv => TypeOK
    BY DEF IInv
  <1> QED BY <1>1, HistoryInvariant, PTL

(* An item with values is in the history queue once or held by one syncer. *)
THEOREM HistoryItemOwnedOnce == Spec => []ItemOwnedOnce
  <1>1. IInv => ItemOwnedOnce
    BY DEF IInv
  <1> QED BY <1>1, HistoryInvariant, PTL

(* What a syncer copied without the cache mutex is the oldest value of the *)
(* item until the syncer removes it.                                       *)
THEOREM HistoryTailStable == Spec => []TailStable
  <1>1. IInv => TailStable
    BY DEF IInv
  <1> QED BY <1>1, HistoryInvariant, PTL

(* A trigger is locked exactly while one process has it. *)
THEOREM HistoryTriggerExclusive == Spec => []TriggerExclusive
  <1>1. IInv => TriggerExclusive
    BY DEF IInv
  <1> QED BY <1>1, HistoryInvariant, PTL

(* Values of items with a trigger in common are worked on one after the    *)
(* other: the locks a syncer took cover the triggers of all its values,    *)
(* and no two syncers hold one lock.                                       *)
THEOREM HistoryTriggersSerial == Spec => []TriggersSerial
  <1>1. IInv => TriggersSerial
    <2> SUFFICES ASSUME IInv, Server, NEW r \in Syncers, NEW s \in Syncers, Working(r), Working(s),
                        NEW g \in history[r], NEW h \in history[s],
                        ~(<<r, g>> = <<s, h>>), ~g[2].novalue, ~h[2].novalue
                 PROVE  TriggersOf[g[1]] \cap TriggersOf[h[1]] = {}
      BY DEF TriggersSerial
    <2>1. LocksTaken(r) /\ LocksTaken(s) /\ StableTail(r) /\ StableTail(s)
      BY TailStableParts DEF IInv, TriggersTaken
    <2>2. g[1] \in Taken(r) /\ h[1] \in Taken(s)
      BY <2>1 DEF StableTail, Taken
    <2>3. LockedFor(g[1]) = TriggersOf[g[1]] /\ LockedFor(h[1]) = TriggersOf[h[1]]
      BY <2>1 DEF StableTail, LockedFor
    <2>4. syncer[r] \in {"write", "timers", "unlock"} /\ syncer[s] \in {"write", "timers", "unlock"}
      BY DEF Working
    <2>5. TriggersOf[g[1]] \subseteq triggerids[r] /\ TriggersOf[h[1]] \subseteq triggerids[s]
      BY <2>1, <2>2, <2>3, <2>4 DEF LocksTaken
    <2>6. CASE r # s
      BY <2>5, <2>6 DEF IInv, TriggerExclusive
    <2>7. CASE r = s
      <3>1. g[1] # h[1]
        <4>1. g \in Items \X Data /\ h \in Items \X Data
          BY DEF IInv, TypeOK
        <4>2. g[2] = TailOf(g[1]) /\ h[2] = TailOf(h[1])
          BY <2>1 DEF StableTail
        <4> QED BY <2>7, <4>1, <4>2
      <3> QED BY <2>1, <2>2, <2>3, <2>4, <2>7, <3>1 DEF LocksTaken
    <2> QED BY <2>6, <2>7
  <1> QED BY <1>1, HistoryInvariant, PTL

-------------------------------------------------------------------------------
(* The end of the program. *)

(* The main process leaves the loop only when the queue is empty. *)
LEMMA MainGoneQueueEmpty ==
  ASSUME IInv, Sync(Main), syncer[Main] # "idle", syncer'[Main] \in {"gone", "idle"}
  PROVE  syncer'[Main] = "gone" /\ \A i \in Items : ~(queued'[i] > 0)
  <1>t. DOMAIN syncer = Syncers /\ Main \in Syncers
    BY DEF IInv, TypeOK
  <1>1. ASSUME NEW left \in BOOLEAN, NEW more, NEW place \in RoundEnd(Main, left, more)
        PROVE  place = IF left THEN "pop" ELSE "gone"
    BY DEF RoundEnd
  <1>2. CASE hc_pop_items(Main)
    <2>1. PICK S \in Batches :
            /\ queued' = [i \in Items |-> IF i \in S THEN queued[i] - 1 ELSE queued[i]]
            /\ \E place \in IF S # {} THEN {IF Server THEN "lock" ELSE "get"}
                            ELSE IF Server THEN {"timers"} ELSE RoundEnd(Main, FALSE, FALSE) :
                  Proceed(Main, place)
      BY <1>2 DEF hc_pop_items
    <2>2. S = {} /\ syncer'[Main] = "gone"
      BY <2>1, <1>1, <1>t DEF Proceed
    <2>3. InQueue \subseteq Items /\ IsFiniteSet(InQueue)
      BY FS_Subset DEF InQueue
    <2>4. Cardinality(InQueue) \in Nat
      BY <2>3, FS_CardinalityType
    <2>5. Cardinality(S) = IF Cardinality(InQueue) < SyncMax THEN Cardinality(InQueue) ELSE SyncMax
      BY DEF Batches
    <2>6. Cardinality(S) = 0
      BY <2>2, FS_EmptySet
    <2>7. Cardinality(InQueue) = 0
      BY <2>4, <2>5, <2>6
    <2>8. InQueue = {}
      BY <2>3, <2>7, FS_EmptySet
    <2> QED BY <2>1, <2>2, <2>8 DEF InQueue
  <1>3. CASE DCconfig_unlock_triggers(Main)
    <2>1. queued' = queued
          /\ \E place \in IF history[Main] = {} THEN RoundEnd(Main, InQueue # {}, FALSE) ELSE {"push"} :
                Proceed(Main, place)
      BY <1>3 DEF DCconfig_unlock_triggers, cvars
    <2>2. PICK place : /\ place \in RoundEnd(Main, InQueue # {}, FALSE) \/ place = "push"
                       /\ Proceed(Main, place)
      BY <2>1
    <2>3. syncer'[Main] = place
      BY <2>2, <1>t DEF Proceed
    <2>4. InQueue = {} /\ place = "gone"
      BY <2>2, <2>3, <1>1
    <2> QED BY <2>1, <2>3, <2>4 DEF InQueue
  <1>4. CASE push_items(Main)
    <2>1. PICK left \in BOOLEAN, more \in BOOLEAN :
            /\ left = (\E i \in Items : PushedQueue(Main)[i] > 0)
            /\ \E place \in RoundEnd(Main, left, more) : Proceed(Main, place)
      BY <1>4 DEF push_items
    <2>2. PICK place : place \in RoundEnd(Main, left, more) /\ Proceed(Main, place)
      BY <2>1
    <2>3. syncer'[Main] = place
      BY <2>2, <1>t DEF Proceed
    <2>4. ~left /\ place = "gone"
      BY <2>2, <2>3, <1>1
    <2>5. queued' = PushedQueue(Main)
      BY <1>4 DEF push_items, hc_push_items
    <2> QED BY <2>1, <2>3, <2>4, <2>5
  <1>5. CASE DCconfig_lock_triggers_by_history_items(Main)
    BY <1>5, <1>t DEF DCconfig_lock_triggers_by_history_items, Proceed
  <1>6. CASE push_busy(Main) \/ hc_get_item_values(Main) \/ write_history(Main)
             \/ write_failed(Main) \/ zbx_dc_get_timer_triggerids(Main)
    BY <1>6, <1>t DEF push_busy, hc_get_item_values, write_history, write_failed,
                      zbx_dc_get_timer_triggerids, Proceed
  <1>7. CASE zbx_sync_history_cache(Main)
    BY <1>7 DEF zbx_sync_history_cache, In
  <1> QED BY <1>2, <1>3, <1>4, <1>5, <1>6, <1>7 DEF Sync

(* What the steps of a producer and of a syncer leave alone. *)
LEMMA ProducerFrame ==
  ASSUME NEW p \in Producers,
         Flush(p) \/ \E batch \in LocalBatches : dc_add_history(p, batch)
  PROVE  syncer' = syncer /\ producer[p] # "dead"
  BY DEF Flush, dc_add_history, flush_begin, flush_end, merge_metadata, hc_get_item,
         hc_add_item_value, cache_full, wait_end, svars, At

(* What a step of a syncer leaves alone. *)
LEMMA SyncerFrame ==
  ASSUME TypeOK, NEW s \in Syncers, Sync(s)
  PROVE  /\ producer' = producer /\ syncer[s] \notin {"gone", "main"}
         /\ \A r \in Syncers \ {s} : syncer'[r] = syncer[r]
         /\ syncer'[s] # "main"
  <1> USE DEF In, Proceed, pvars
  <1>0. DOMAIN syncer = Syncers
    BY DEF TypeOK
  <1>1. CASE hc_pop_items(s)
    BY <1>0, <1>1, RoundEndResting DEF hc_pop_items, RoundEnd
  <1>2. CASE DCconfig_unlock_triggers(s)
    BY <1>0, <1>2 DEF DCconfig_unlock_triggers, RoundEnd
  <1>3. CASE push_items(s)
    BY <1>0, <1>3 DEF push_items, RoundEnd
  <1>4. CASE DCconfig_lock_triggers_by_history_items(s)
    BY <1>0, <1>4 DEF DCconfig_lock_triggers_by_history_items
  <1>5. CASE push_busy(s) \/ hc_get_item_values(s) \/ zbx_dc_get_timer_triggerids(s)
             \/ zbx_sync_history_cache(s)
    BY <1>0, <1>5 DEF push_busy, hc_get_item_values, zbx_dc_get_timer_triggerids,
                      zbx_sync_history_cache
  <1>6. CASE write_history(s) \/ write_failed(s)
    BY <1>0, <1>6 DEF write_history, write_failed
  <1> QED BY <1>1, <1>2, <1>3, <1>4, <1>5, <1>6 DEF Sync

(* MainAlone is inductive relative to the invariant. *)
LEMMA NextMainAlone == IInv /\ IInv' /\ MainAlone /\ [Next]_vars => MainAlone'
  <1> SUFFICES ASSUME IInv, IInv', MainAlone, [Next]_vars PROVE MainAlone'
    OBVIOUS
  <1>1. ASSUME NEW p \in Producers, Flush(p) \/ \E batch \in LocalBatches : dc_add_history(p, batch)
        PROVE  MainAlone'
    <2>1. syncer' = syncer /\ syncer[Main] = "main"
      BY <1>1, ProducerFrame DEF MainAlone
    <2> QED BY <2>1 DEF MainAlone, NothingLeft, In
  <1>2. ASSUME NEW s \in Syncers, Sync(s) PROVE MainAlone'
    <2>0. /\ producer' = producer /\ syncer[s] \notin {"gone", "main"}
          /\ \A r \in Syncers \ {s} : syncer'[r] = syncer[r]
          /\ syncer'[s] # "main"
      BY <1>2, SyncerFrame DEF IInv
    <2>1. CASE s # Main
      <3>1. syncer[Main] = "main" /\ syncer'[Main] = "main"
        BY <2>0, <2>1 DEF MainAlone
      <3> QED BY <3>1 DEF MainAlone, NothingLeft, In
    <2>2. CASE s = Main
      <3>1. /\ \A p \in Producers : producer'[p] = "dead"
            /\ \A r \in Syncers \ {Main} : syncer'[r] = "gone"
        BY <2>0, <2>2 DEF MainAlone
      <3>2. syncer'[Main] \in {"gone", "idle"}
               => syncer'[Main] = "gone" /\ \A i \in Items : ~(queued'[i] > 0)
        BY <1>2, <2>2, MainGoneQueueEmpty DEF MainAlone
      <3>3. ASSUME syncer'[Main] = "gone" PROVE \A i \in Items : values'[i] = <<>>
        <4>1. \A r \in Syncers : syncer'[r] \in Resting
          BY <3>1, <3>3 DEF Resting
        <4>2. /\ \A r \in Syncers : history_items'[r] = {}
              /\ \A i \in Items : ~(queued'[i] > 0)
          BY <3>2, <3>3, <4>1 DEF IInv, SyncersInStep, InStep
        <4> QED BY <4>2 DEF IInv, ItemOwnedOnce
      <3> QED BY <3>1, <3>2, <3>3 DEF MainAlone, NothingLeft, In
    <2> QED BY <2>1, <2>2
  <1>3. CASE stop \/ \E t \in Timers : timer_due(t)
    BY <1>3 DEF stop, timer_due, cvars, pvars, svars, MainAlone, NothingLeft, In
  <1>4. CASE sync_history_cache_full
    <2>1. /\ syncer[Main] = "main" /\ \A s \in Syncers \ {Main} : syncer[s] = "gone"
          /\ producer' = [p \in Producers |-> "dead"]
          /\ queued' = [i \in Items |-> IF values[i] # <<>> THEN 1 ELSE 0]
          /\ values' = values
          /\ syncer' = [syncer EXCEPT ![Main] = IF \E i \in Items : queued'[i] > 0 THEN "pop" ELSE "gone"]
      BY <1>4 DEF sync_history_cache_full, In, Proceed
    <2>2. /\ syncer'[Main] = IF \E i \in Items : queued'[i] > 0 THEN "pop" ELSE "gone"
          /\ \A s \in Syncers \ {Main} : syncer'[s] = "gone"
      BY <2>1 DEF IInv, TypeOK
    <2>3. syncer'[Main] = "gone" => \A i \in Items : values'[i] = <<>>
      BY <2>1, <2>2
    <2> QED BY <2>1, <2>2, <2>3 DEF MainAlone, NothingLeft, In
  <1>5. CASE UNCHANGED vars
    BY <1>5 DEF vars, cvars, pvars, svars, MainAlone, NothingLeft, In
  <1> QED BY <1>1, <1>2, <1>3, <1>4, <1>5 DEF Next

(* The program ends with an empty cache: when the main process is done, no *)
(* other process can add or hold a value, and nothing was left in the      *)
(* queue.                                                                  *)
THEOREM HistoryNothingLeft == Spec => []NothingLeft
  <1>1. Init => MainAlone
    BY DEF Init, MainAlone, NothingLeft, In
  <1>2. MainAlone => NothingLeft
    BY DEF MainAlone
  <1> QED BY <1>1, <1>2, NextMainAlone, HistoryInvariant, PTL DEF Spec

-------------------------------------------------------------------------------
(* Lists of values and their metadata. *)

(* A value appended to the list. *)
LEMMA AddedConsistent ==
  ASSUME NEW a \in Seq(Nat), NEW p \in Seq(Nat), NEW r \in Seq(Data), NEW s \in Nat, NEW l \in Nat,
         NEW kept \in BOOLEAN, NEW d \in Data, d.meta \in {0, l + 1}, d.n \in Nat,
         Consistent(a, p, r, s, l, kept)
  PROVE  Consistent(Append(a, d.n), p, Append(r, d), s, IF d.meta = 0 THEN l ELSE d.meta, kept)
  <1> DEFINE aa == Append(a, d.n)
             rr == Append(r, d)
             ll == IF d.meta = 0 THEN l ELSE d.meta
  <1>1. /\ Len(a) \in Nat /\ Len(p) \in Nat /\ Len(r) \in Nat
        /\ Len(aa) = Len(a) + 1 /\ Len(rr) = Len(r) + 1
        /\ aa[Len(a) + 1] = d.n /\ rr[Len(r) + 1] = d
        /\ \A k \in 1..Len(a) : aa[k] = a[k]
        /\ \A k \in 1..Len(r) : rr[k] = r[k]
    OBVIOUS
  <1>2. \A k \in 1..Len(r) : r[k].meta \in Nat
    <2>1. \A k \in 1..Len(r) : r[k] \in Data
      OBVIOUS
    <2> QED BY <2>1 DEF Data
  <1>3. ll \in Nat /\ l <= ll
    OBVIOUS
  <1>4. Follows(a, p, r) /\ MetadataOrdered(r, s, l) /\ (kept => MetadataHeld(r, s, l))
    BY DEF Consistent
  <1> HIDE DEF aa, rr
  <1>8. \A k \in 1..Len(rr) : k # Len(r) + 1 => k \in 1..Len(r)
    <2>1. Len(r) \in Nat /\ Len(rr) = Len(r) + 1
      BY <1>1
    <2> QED BY <2>1
  <1>5. Follows(aa, p, rr)
    <2>1. Len(aa) = Len(p) + Len(rr)
      BY <1>1, <1>4 DEF Follows
    <2>2. \A k \in 1..Len(p) : aa[k] = p[k]
      BY <1>1, <1>4 DEF Follows
    <2>3. ASSUME NEW k \in 1..Len(rr) PROVE aa[Len(p) + k] = rr[k].n
      <3>1. CASE k = Len(r) + 1
        <4>1. Len(p) + k = Len(a) + 1
          BY <1>1, <1>4, <3>1 DEF Follows
        <4> QED BY <1>1, <3>1, <4>1
      <3>2. CASE k # Len(r) + 1
        <4>1. k \in 1..Len(r)
          BY <1>8, <3>2
        <4>2. Len(a) = Len(p) + Len(r) /\ a[Len(p) + k] = r[k].n
          BY <1>4, <4>1 DEF Follows
        <4>3. Len(p) + k \in 1..Len(a)
          BY <1>1, <4>1, <4>2
        <4> QED BY <1>1, <4>1, <4>2, <4>3
      <3> QED BY <3>1, <3>2
    <2> QED BY <2>1, <2>2, <2>3 DEF Follows
  <1>6. MetadataOrdered(rr, s, ll)
    <2>1. s <= ll
      BY <1>3, <1>4 DEF MetadataOrdered
    <2>2. ASSUME NEW k \in 1..Len(rr), rr[k].meta # 0 PROVE s < rr[k].meta /\ rr[k].meta <= ll
      <3>1. CASE k = Len(r) + 1
        BY <1>1, <1>4, <2>2, <3>1 DEF MetadataOrdered
      <3>2. CASE k # Len(r) + 1
        <4>1. k \in 1..Len(r) /\ rr[k] = r[k]
          BY <1>1, <1>8, <3>2
        <4>2. s < r[k].meta /\ r[k].meta <= l /\ r[k].meta \in Nat
          BY <1>2, <1>4, <2>2, <4>1 DEF MetadataOrdered
        <4> QED BY <1>3, <4>1, <4>2
      <3> QED BY <3>1, <3>2
    <2>3. ASSUME NEW j \in 1..Len(rr), NEW k \in 1..Len(rr), j < k, rr[j].meta # 0, rr[k].meta # 0
          PROVE  rr[j].meta < rr[k].meta
      <3>1. j \in 1..Len(r) /\ rr[j] = r[j]
        BY <1>1, <2>3
      <3>2. CASE k = Len(r) + 1
        <4>1. r[j].meta <= l /\ r[j].meta \in Nat
          BY <1>2, <1>4, <2>3, <3>1 DEF MetadataOrdered
        <4>2. rr[k].meta = l + 1
          BY <1>1, <2>3, <3>2
        <4> QED BY <3>1, <4>1, <4>2
      <3>3. CASE k # Len(r) + 1
        <4>1. k \in 1..Len(r)
          BY <1>8, <3>3
        <4>2. rr[k] = r[k]
          BY <1>1, <4>1
        <4> QED BY <1>4, <2>3, <3>1, <4>1, <4>2 DEF MetadataOrdered
      <3> QED BY <3>2, <3>3
    <2> QED BY <2>1, <2>2, <2>3 DEF MetadataOrdered
  <1>7. ASSUME kept PROVE MetadataHeld(rr, s, ll)
    <2>1. CASE d.meta = 0
      BY <1>1, <1>4, <1>7, <2>1 DEF MetadataHeld
    <2>2. CASE d.meta # 0
      <3>1. Len(r) + 1 \in 1..Len(rr) /\ rr[Len(r) + 1].meta = ll
        BY <1>1, <2>2
      <3> QED BY <3>1 DEF MetadataHeld
    <2> QED BY <2>1, <2>2
  <1> QED BY <1>5, <1>6, <1>7 DEF Consistent, aa, rr

(* Newer metadata merged into the last value of the list. *)
LEMMA MergedConsistent ==
  ASSUME NEW a \in Seq(Nat), NEW p \in Seq(Nat), NEW r \in Seq(Data), NEW s \in Nat, NEW l \in Nat,
         NEW kept \in BOOLEAN, NEW rr, Len(rr) = Len(r), Len(r) > 0,
         \A k \in 1..Len(r) : k # Len(r) => rr[k] = r[k],
         rr[Len(r)].n = r[Len(r)].n, rr[Len(r)].meta = l + 1,
         Consistent(a, p, r, s, l, kept)
  PROVE  Consistent(a, p, rr, s, l + 1, kept)
  <1>1. \A k \in 1..Len(r) : r[k].meta \in Nat
    <2>1. \A k \in 1..Len(r) : r[k] \in Data
      OBVIOUS
    <2> QED BY <2>1 DEF Data
  <1>2. Follows(a, p, r) /\ MetadataOrdered(r, s, l) /\ Len(r) \in Nat
    BY DEF Consistent
  <1>3. Follows(a, p, rr)
    <2>1. \A k \in 1..Len(r) : rr[k].n = r[k].n
      OBVIOUS
    <2> QED BY <1>2, <2>1 DEF Follows
  <1>4. MetadataOrdered(rr, s, l + 1)
    <2>1. s <= l + 1
      BY <1>2 DEF MetadataOrdered
    <2>2. ASSUME NEW k \in 1..Len(r), rr[k].meta # 0 PROVE s < rr[k].meta /\ rr[k].meta <= l + 1
      <3>1. CASE k = Len(r)
        BY <1>2, <3>1 DEF MetadataOrdered
      <3>2. CASE k # Len(r)
        <4>1. s < r[k].meta /\ r[k].meta <= l /\ r[k].meta \in Nat /\ rr[k] = r[k]
          BY <1>1, <1>2, <2>2, <3>2 DEF MetadataOrdered
        <4> QED BY <4>1
      <3> QED BY <3>1, <3>2
    <2>3. ASSUME NEW j \in 1..Len(r), NEW k \in 1..Len(r), j < k, rr[j].meta # 0, rr[k].meta # 0
          PROVE  rr[j].meta < rr[k].meta
      <3>1. rr[j] = r[j] /\ j # Len(r)
        BY <1>2, <2>3
      <3>2. CASE k = Len(r)
        <4>1. r[j].meta <= l /\ r[j].meta \in Nat
          BY <1>1, <1>2, <2>3, <3>1 DEF MetadataOrdered
        <4> QED BY <3>1, <3>2, <4>1
      <3>3. CASE k # Len(r)
        BY <1>2, <2>3, <3>1, <3>3 DEF MetadataOrdered
      <3> QED BY <3>2, <3>3
    <2> QED BY <2>1, <2>2, <2>3 DEF MetadataOrdered
  <1>5. MetadataHeld(rr, s, l + 1)
    BY <1>2 DEF MetadataHeld
  <1> QED BY <1>3, <1>4, <1>5 DEF Consistent

(* The oldest value of the list is processed, and its metadata stored. *)
LEMMA ProcessedConsistent ==
  ASSUME NEW a \in Seq(Nat), NEW p \in Seq(Nat), NEW r \in Seq(Data), NEW s \in Nat, NEW l \in Nat,
         NEW kept \in BOOLEAN, r # <<>>, Consistent(a, p, r, s, l, kept),
         NEW stored \in Nat, NEW still \in BOOLEAN, still => kept,
         \/ stored = IF Head(r).meta # 0 THEN Head(r).meta ELSE s
         \/ stored = s /\ ~still
  PROVE  Consistent(a, Append(p, Head(r).n), Tail(r), stored, l, still)
  <1> DEFINE pp == Append(p, Head(r).n)
             rr == Tail(r)
  <1>1. /\ Len(a) \in Nat /\ Len(p) \in Nat /\ Len(r) \in Nat /\ Len(r) > 0
        /\ rr \in Seq(Data) /\ Len(rr) = Len(r) - 1
        /\ Head(r) = r[1] /\ \A k \in 1..Len(rr) : rr[k] = r[k + 1]
    <2>1. Len(r) > 0
      BY EmptySeq
    <2> QED BY <2>1
  <1>2. Head(r) \in Data /\ Head(r).n \in Nat
    <2>1. Head(r) \in Data
      BY <1>1
    <2> QED BY <2>1 DEF Data
  <1>3. /\ Len(pp) = Len(p) + 1 /\ pp[Len(p) + 1] = Head(r).n
        /\ \A k \in 1..Len(p) : pp[k] = p[k]
    BY <1>2
  <1>4. \A k \in 1..Len(r) : r[k].meta \in Nat
    <2>1. \A k \in 1..Len(r) : r[k] \in Data
      OBVIOUS
    <2> QED BY <2>1 DEF Data
  <1>5. Follows(a, p, r) /\ MetadataOrdered(r, s, l) /\ (kept => MetadataHeld(r, s, l))
    BY DEF Consistent
  <1> HIDE DEF pp, rr
  <1>6. Follows(a, pp, rr)
    <2>1. Len(a) = Len(pp) + Len(rr)
      BY <1>1, <1>3, <1>5 DEF Follows
    <2>2. ASSUME NEW k \in 1..Len(pp) PROVE a[k] = pp[k]
      <3>1. CASE k = Len(p) + 1
        <4>1. 1 \in 1..Len(r) /\ k = Len(p) + 1
          BY <1>1, <3>1
        <4>2. a[Len(p) + 1] = r[1].n
          BY <1>5, <4>1 DEF Follows
        <4> QED BY <1>1, <1>3, <3>1, <4>2
      <3>2. CASE k # Len(p) + 1
        <4>1. k \in 1..Len(p)
          BY <1>1, <1>3, <3>2
        <4> QED BY <1>3, <1>5, <4>1 DEF Follows
      <3> QED BY <3>1, <3>2
    <2>3. ASSUME NEW k \in 1..Len(rr) PROVE a[Len(pp) + k] = rr[k].n
      <3>1. k + 1 \in 1..Len(r) /\ Len(pp) + k = Len(p) + (k + 1)
        BY <1>1, <1>3
      <3> QED BY <1>1, <1>5, <3>1 DEF Follows
    <2> QED BY <2>1, <2>2, <2>3 DEF Follows
  <1>7. 1 \in 1..Len(r) /\ \A k \in 1..Len(rr) : k + 1 \in 1..Len(r)
    BY <1>1
  <1>8. \A k \in 1..Len(rr) : rr[k].meta # 0 => stored < rr[k].meta
    <2>1. ASSUME NEW k \in 1..Len(rr), rr[k].meta # 0 PROVE stored < rr[k].meta
      <3>1. rr[k] = r[k + 1] /\ k + 1 \in 1..Len(r) /\ 1 < k + 1
        BY <1>1, <1>7
      <3>2. s < r[k + 1].meta
        BY <1>5, <2>1, <3>1 DEF MetadataOrdered
      <3>3. Head(r).meta # 0 => Head(r).meta < r[k + 1].meta
        BY <1>1, <1>5, <1>7, <2>1, <3>1 DEF MetadataOrdered
      <3> QED BY <3>1, <3>2, <3>3
    <2> QED BY <2>1
  <1>9. MetadataOrdered(rr, stored, l)
    <2>1. stored <= l
      BY <1>1, <1>5, <1>7 DEF MetadataOrdered
    <2>2. \A k \in 1..Len(rr) : rr[k].meta # 0 => rr[k].meta <= l
      BY <1>1, <1>5, <1>7 DEF MetadataOrdered
    <2>3. ASSUME NEW j \in 1..Len(rr), NEW k \in 1..Len(rr), j < k, rr[j].meta # 0, rr[k].meta # 0
          PROVE  rr[j].meta < rr[k].meta
      <3>1. rr[j] = r[j + 1] /\ rr[k] = r[k + 1] /\ j + 1 \in 1..Len(r) /\ k + 1 \in 1..Len(r)
        BY <1>1, <1>7, <2>3, Zenon
      <3>2. j + 1 < k + 1
        BY <1>1, <2>3
      <3> QED BY <1>5, <2>3, <3>1, <3>2 DEF MetadataOrdered
    <2> QED BY <1>8, <2>1, <2>2, <2>3 DEF MetadataOrdered
  <1>10. ASSUME still PROVE MetadataHeld(rr, stored, l)
    <2>1. stored = (IF Head(r).meta # 0 THEN Head(r).meta ELSE s) /\ MetadataHeld(r, s, l)
      BY <1>5, <1>10
    <2>2. CASE s = l
      <3>1. stored = l
        BY <1>1, <1>4, <1>5, <1>7, <2>1, <2>2 DEF MetadataOrdered
      <3> QED BY <3>1 DEF MetadataHeld
    <2>3. CASE s # l
      <3>1. PICK k \in 1..Len(r) : r[k].meta = l
        BY <2>1, <2>3 DEF MetadataHeld
      <3>2. CASE k = 1
        <4>1. Head(r).meta = l /\ l # 0
          BY <1>1, <1>5, <2>3, <3>1, <3>2 DEF MetadataOrdered
        <4> QED BY <2>1, <4>1 DEF MetadataHeld
      <3>3. CASE k # 1
        <4>1. k - 1 \in 1..Len(rr) /\ rr[k - 1] = r[k]
          BY <1>1, <3>1, <3>3
        <4> QED BY <3>1, <4>1 DEF MetadataHeld
      <3> QED BY <3>2, <3>3
    <2> QED BY <2>2, <2>3
  <1> QED BY <1>6, <1>9, <1>10 DEF Consistent, pp, rr

-------------------------------------------------------------------------------
(* The values of an item are processed once and in order, and its newest   *)
(* metadata is kept.                                                       *)

(* The oldest value of item i was processed and is still in the cache. *)
Done(i) == \E s \in Syncers : In(s, "write") = FALSE /\ i \in SyncedItems(s)

(* The part of DataInv about item i. *)
ItemData(i) ==
    Consistent(accepted[i], processed[i], Unprocessed(i), storedmeta[i], lastmeta[i],
               i \notin failed)

(* DataInv, item by item. *)
LEMMA DataInvParts == DataInv <=> \A i \in Items : ItemData(i)
  BY DEF DataInv, ItemData

(* What the data of an item are. *)
LEMMA ItemTypes ==
  ASSUME TypeOK, NEW i \in Items
  PROVE  /\ values[i] \in Seq(Data) /\ accepted[i] \in Seq(Nat) /\ processed[i] \in Seq(Nat)
         /\ storedmeta[i] \in Nat /\ lastmeta[i] \in Nat
         /\ values[i] # <<>> => /\ Head(values[i]) \in Data /\ Tail(values[i]) \in Seq(Data)
                                /\ Len(values[i]) \in Nat /\ Len(values[i]) > 0
                                /\ Len(Tail(values[i])) = Len(values[i]) - 1
                                /\ \A k \in 1..Len(Tail(values[i])) : Tail(values[i])[k] = values[i][k + 1]
  <1>1. values[i] \in Seq(Data) /\ accepted[i] \in Seq(Nat) /\ processed[i] \in Seq(Nat)
        /\ storedmeta[i] \in Nat /\ lastmeta[i] \in Nat
    BY DEF TypeOK
  <1>2. ASSUME NEW v \in Seq(Data), v # <<>>
        PROVE  /\ Head(v) \in Data /\ Tail(v) \in Seq(Data) /\ Len(v) \in Nat /\ Len(v) > 0
               /\ Len(Tail(v)) = Len(v) - 1 /\ \A k \in 1..Len(Tail(v)) : Tail(v)[k] = v[k + 1]
    <2>1. Len(v) \in Nat /\ Len(v) > 0
      BY <1>2, EmptySeq
    <2> QED BY <1>2, <2>1
  <1> QED BY <1>1, <1>2

(* An item whose value a syncer copied is held by this syncer alone. *)
LEMMA SyncedHeld ==
  ASSUME IInv, NEW i \in Items, NEW s \in Syncers, i \in SyncedItems(s)
  PROVE  /\ i \in history_items[s] /\ status[i] = "NORMAL" /\ values[i] # <<>>
         /\ SyncedData(s, i) = Head(values[i])
         /\ \A r \in Syncers \ {s} : i \notin SyncedItems(r)
  <1>0. \A r \in Syncers : StableTail(r)
    BY TailStableParts DEF IInv
  <1>1. ASSUME NEW r \in Syncers, i \in SyncedItems(r)
        PROVE  i \in history_items[r] /\ status[i] = "NORMAL" /\ values[i] # <<>>
    BY <1>0, <1>1 DEF SyncedItems, StableTail
  <1>2. SyncedData(s, i) = Head(values[i])
    <2>1. \E h \in history[s] : h[1] = i
      BY DEF SyncedItems
    <2>2. PICK h \in history[s] : h[1] = i /\ SyncedData(s, i) = h[2]
      BY <2>1 DEF SyncedData
    <2> QED BY <1>0, <2>2 DEF StableTail, TailOf
  <1> QED BY <1>1, <1>2 DEF IInv, ItemOwnedOnce

(* The values that are not processed yet are values of the cache. *)
LEMMA UnprocessedType ==
  ASSUME IInv, NEW i \in Items
  PROVE  /\ Unprocessed(i) = IF Done(i) THEN Tail(values[i]) ELSE values[i]
         /\ Unprocessed(i) \in Seq(Data)
         /\ Done(i) => values[i] # <<>>
  <1>1. Unprocessed(i) = IF Done(i) THEN Tail(values[i]) ELSE values[i]
    BY DEF Unprocessed, Done
  <1>2. Done(i) => values[i] # <<>>
    BY SyncedHeld DEF Done
  <1>3. values[i] \in Seq(Data) /\ (values[i] # <<>> => Tail(values[i]) \in Seq(Data))
    BY ItemTypes DEF IInv
  <1> QED BY <1>1, <1>2, <1>3

(* An item whose values stay what they were. *)
LEMMA ItemUntouched ==
  ASSUME NEW i \in Items, ItemData(i), values'[i] = values[i], Done(i)' <=> Done(i),
         accepted'[i] = accepted[i], processed'[i] = processed[i],
         storedmeta'[i] = storedmeta[i], lastmeta'[i] = lastmeta[i],
         i \in failed' <=> i \in failed
  PROVE  ItemData(i)'
  <1>1. Unprocessed(i)' = Unprocessed(i)
    BY DEF Unprocessed, Done
  <1>2. (i \notin failed)' = (i \notin failed)
    OBVIOUS
  <1> QED BY <1>1, <1>2 DEF ItemData

(* A step of one syncer that does not write leaves processed what was. *)
LEMMA DoneUntouched ==
  ASSUME NEW s \in Syncers, NEW i \in Items,
         \A r \in Syncers \ {s} : history'[r] = history[r] /\ syncer'[r] = syncer[r],
         i \in SyncedItems(s)' /\ ~In(s, "write")' <=> i \in SyncedItems(s) /\ ~In(s, "write")
  PROVE  Done(i)' <=> Done(i)
  <1>1. \A r \in Syncers \ {s} : SyncedItems(r)' = SyncedItems(r) /\ (In(r, "write")' <=> In(r, "write"))
    BY DEF SyncedItems, In
  <1>2. Done(i) <=> \E r \in Syncers : i \in SyncedItems(r) /\ ~In(r, "write")
    BY DEF Done, In
  <1>3. Done(i)' <=> \E r \in Syncers : i \in SyncedItems(r)' /\ ~In(r, "write")'
    BY DEF Done, In
  <1> QED BY <1>1, <1>2, <1>3

-------------------------------------------------------------------------------
(* The items a syncer pushes back without their oldest values. *)

(* What the steps of a syncer leave alone. *)
LEMMA SyncLeavesOthers ==
  ASSUME IInv, NEW s \in Syncers, Sync(s)
  PROVE  /\ \A r \in Syncers \ {s} : /\ history_items'[r] = history_items[r]
                                     /\ history'[r] = history[r] /\ syncer'[r] = syncer[r]
         /\ \A i \in Items : i \in history_items[s] \/ (status'[i] = status[i] /\ values'[i] = values[i])
         /\ UNCHANGED <<given, accepted, lastmeta>>
  <1>t. /\ DOMAIN syncer = Syncers /\ DOMAIN history = Syncers /\ DOMAIN history_items = Syncers
        /\ DOMAIN status = Items
    BY DEF IInv, TypeOK
  <1>1. ASSUME hc_push_items(s)
        PROVE  /\ \A r \in Syncers \ {s} : history_items'[r] = history_items[r]
               /\ \A i \in Items : i \in history_items[s]
                                    \/ (status'[i] = status[i] /\ values'[i] = values[i])
    BY <1>1, PushItemsEffect
  <1> USE DEF cvars, pvars, tvars, hvars, Proceed
  <1>2. CASE hc_pop_items(s)
    BY <1>t, <1>2 DEF hc_pop_items
  <1>3. CASE DCconfig_lock_triggers_by_history_items(s)
    BY <1>t, <1>3 DEF DCconfig_lock_triggers_by_history_items
  <1>4. CASE push_busy(s)
    BY <1>t, <1>1, <1>4 DEF push_busy
  <1>5. CASE push_items(s)
    <2>1. hc_push_items(s) /\ UNCHANGED <<given, accepted, lastmeta>>
          /\ history' = [history EXCEPT ![s] = {}]
          /\ \E place : syncer' = [syncer EXCEPT ![s] = place]
      BY <1>5 DEF push_items
    <2> QED BY <1>t, <1>1, <2>1
  <1>6. CASE hc_get_item_values(s)
    BY <1>t, <1>6 DEF hc_get_item_values
  <1>7. CASE write_history(s) \/ write_failed(s)
    BY <1>t, <1>7 DEF write_history, write_failed
  <1>8. CASE zbx_dc_get_timer_triggerids(s) \/ zbx_sync_history_cache(s)
    BY <1>t, <1>8 DEF zbx_dc_get_timer_triggerids, zbx_sync_history_cache
  <1>9. CASE DCconfig_unlock_triggers(s)
    BY <1>t, <1>9 DEF DCconfig_unlock_triggers
  <1> QED BY <1>2, <1>3, <1>4, <1>5, <1>6, <1>7, <1>8, <1>9 DEF Sync

(* Nobody's copies change while items and states do not. *)
LEMMA CopiedUntouched ==
  ASSUME NEW s \in Syncers, CopiedAll(s), history_items'[s] = history_items[s],
         history'[s] = history[s], syncer'[s] = syncer[s],
         \A i \in history_items[s] : status'[i] = status[i]
  PROVE  CopiedAll(s)'
  <1>1. Taken(s)' = Taken(s) /\ SyncedItems(s)' = SyncedItems(s)
    BY DEF Taken, SyncedItems
  <1> QED BY <1>1 DEF CopiedAll

(* A syncer copies the values of all items it does not return as busy. *)
LEMMA SyncAllCopied ==
  ASSUME IInv, IInv', AllCopied, NEW s \in Syncers, Sync(s)
  PROVE  AllCopied'
  <1>t. /\ DOMAIN syncer = Syncers /\ DOMAIN history = Syncers /\ DOMAIN history_items = Syncers
        /\ DOMAIN status = Items
    BY DEF IInv, TypeOK
  <1>1. ASSUME NEW r \in Syncers \ {s} PROVE CopiedAll(r)'
    <2>1. history_items[r] \subseteq Items /\ history_items[r] \cap history_items[s] = {}
      BY DEF IInv, TypeOK, ItemOwnedOnce
    <2>2. \A i \in history_items[r] : status'[i] = status[i]
      BY <2>1, SyncLeavesOthers
    <2>3. history_items'[r] = history_items[r] /\ history'[r] = history[r] /\ syncer'[r] = syncer[r]
      BY SyncLeavesOthers
    <2> QED BY <2>2, <2>3, CopiedUntouched DEF AllCopied
  <1>2. CopiedAll(s)'
    <2> USE DEF cvars, pvars, tvars, hvars, Proceed, In
    <2>0. CopiedAll(s) /\ InStep(s)
      BY DEF AllCopied, IInv, SyncersInStep
    <2>h. history_items[s] \subseteq Items
      BY DEF IInv, TypeOK
    <2>1. ASSUME history_items'[s] = {} PROVE CopiedAll(s)'
      BY <2>1 DEF CopiedAll, Taken
    <2>2. ASSUME syncer'[s] \notin {"busy", "write", "timers", "unlock", "push"} PROVE CopiedAll(s)'
      BY <2>2 DEF CopiedAll
    <2>3. CASE hc_pop_items(s)
      <3>1. PICK S \in Batches : history_items' = [history_items EXCEPT ![s] = S]
                     /\ \E place \in IF S # {} THEN {IF Server THEN "lock" ELSE "get"}
                        ELSE IF Server THEN {"timers"} ELSE RoundEnd(s, FALSE, FALSE) :
                           syncer' = [syncer EXCEPT ![s] = place]
        BY <2>3 DEF hc_pop_items
      <3>2. CASE S = {}
        BY <3>1, <3>2, <2>1, <1>t
      <3>3. CASE S # {}
        <4>1. syncer'[s] \in {"lock", "get"}
          BY <3>1, <3>3, <1>t
        <4> QED BY <4>1, <2>2
      <3> QED BY <3>2, <3>3
    <2>4. CASE DCconfig_lock_triggers_by_history_items(s)
      <3>1. PICK A \in SUBSET history_items[s] :
              /\ status' = [i \in Items |-> IF i \in history_items[s] \ A THEN "BUSY" ELSE status[i]]
              /\ syncer' = [syncer EXCEPT ![s] = IF A = {} THEN "busy" ELSE "get"]
              /\ history_items' = history_items
        BY <2>4 DEF DCconfig_lock_triggers_by_history_items
      <3>2. CASE A = {}
        <4>1. \A i \in history_items'[s] : status'[i] = "BUSY"
          BY <3>1, <3>2, <2>h
        <4> QED BY <4>1 DEF CopiedAll, Taken
      <3>3. CASE A # {}
        BY <3>1, <3>3, <2>2, <1>t
      <3> QED BY <3>2, <3>3
    <2>5. CASE push_busy(s) \/ push_items(s)
      <3>1. hc_push_items(s)
        BY <2>5 DEF push_busy, push_items
      <3> QED BY <3>1, <2>1, PushItemsEffect
    <2>6. CASE hc_get_item_values(s)
      <3>1. history'[s] = {<<i, TailOf(i)>> : i \in Taken(s)} /\ Taken(s)' = Taken(s)
        BY <2>6, <1>t DEF hc_get_item_values, Taken
      <3>2. ASSUME NEW i \in Taken(s) PROVE i \in SyncedItems(s)'
        <4>1. <<i, TailOf(i)>> \in history'[s] /\ <<i, TailOf(i)>>[1] = i
          BY <3>1
        <4> QED BY <4>1, Zenon DEF SyncedItems
      <3> QED BY <3>1, <3>2 DEF CopiedAll
    <2>7. CASE zbx_dc_get_timer_triggerids(s) \/ DCconfig_unlock_triggers(s)
               \/ write_history(s) \/ write_failed(s)
      <3>1. syncer[s] \in {"write", "timers", "unlock"} /\ UNCHANGED <<history_items, history, status>>
        BY <2>7 DEF zbx_dc_get_timer_triggerids, DCconfig_unlock_triggers, write_history, write_failed
      <3>2. Taken(s)' = Taken(s) /\ SyncedItems(s)' = SyncedItems(s)
        BY <3>1 DEF Taken, SyncedItems
      <3> QED BY <2>0, <3>1, <3>2 DEF CopiedAll
    <2>8. CASE zbx_sync_history_cache(s)
      <3>1. syncer'[s] = "pop"
        BY <2>8, <1>t DEF zbx_sync_history_cache
      <3> QED BY <3>1, <2>2
    <2> QED BY <2>3, <2>4, <2>5, <2>6, <2>7, <2>8 DEF Sync
  <1> QED BY <1>1, <1>2 DEF AllCopied

(* Other processes do not take items. *)
LEMMA NextAllCopied ==
  ASSUME IInv, IInv', AllCopied, [Next]_vars
  PROVE  AllCopied'
  <1>1. ASSUME UNCHANGED <<status, history_items, history, syncer>> PROVE AllCopied'
    BY <1>1, CopiedUntouched DEF AllCopied
  <1>2. CASE \E p \in Producers : Flush(p) \/ \E batch \in LocalBatches : dc_add_history(p, batch)
    <2>1. UNCHANGED <<status, history_items, history, syncer>>
      BY <1>2 DEF Flush, dc_add_history, flush_begin, flush_end, merge_metadata, hc_get_item,
                  hc_add_item_value, cache_full, wait_end, svars, cvars
    <2> QED BY <1>1, <2>1
  <1>3. CASE \E s \in Syncers : Sync(s)
    BY <1>3, SyncAllCopied
  <1>4. CASE stop \/ (\E t \in Timers : timer_due(t)) \/ UNCHANGED vars
    BY <1>1, <1>4 DEF stop, timer_due, vars, svars, cvars
  <1>5. CASE sync_history_cache_full
    <2>1. syncer[Main] = "main" /\ (\A s \in Syncers \ {Main} : syncer[s] = "gone")
          /\ history_items' = history_items
      BY <1>5 DEF sync_history_cache_full, In
    <2>2. \A s \in Syncers : history_items'[s] = {}
      BY <2>1 DEF IInv, SyncersInStep, InStep, Resting
    <2> QED BY <2>2 DEF AllCopied, CopiedAll, Taken
  <1> QED BY <1>2, <1>3, <1>4, <1>5 DEF Next

-------------------------------------------------------------------------------
(* Each step keeps the data of the items. *)

(* A producer that leaves the cache alone. *)
LEMMA DataUntouched ==
  ASSUME DataInv, UNCHANGED <<values, history, syncer, accepted, processed, storedmeta, lastmeta, failed>>
  PROVE  DataInv'
  <1>1. ASSUME NEW i \in Items PROVE ItemData(i)'
    <2>1. Done(i)' <=> Done(i)
      BY DEF Done, In, SyncedItems
    <2> QED BY <2>1, ItemUntouched, DataInvParts
  <1> QED BY <1>1 DEF DataInv, ItemData

(* The last value of an item changes, and is not the one that is done. *)
LEMMA MergedItem ==
  ASSUME IInv, IInv', NEW i \in Items, ItemData(i),
         Len(values[i]) > 1, Len(values'[i]) = Len(values[i]),
         \A k \in 1..Len(values[i]) : k # Len(values[i]) => values'[i][k] = values[i][k],
         values'[i][Len(values[i])].n = values[i][Len(values[i])].n,
         values'[i][Len(values[i])].meta = lastmeta[i] + 1,
         lastmeta'[i] = lastmeta[i] + 1, Done(i)' <=> Done(i),
         UNCHANGED <<accepted, processed, storedmeta, failed>>
  PROVE  ItemData(i)'
  <1> DEFINE L == Len(values[i])
             r == Unprocessed(i)
             rr == Unprocessed(i)'
  <1>1. r = (IF Done(i) THEN Tail(values[i]) ELSE values[i]) /\ r \in Seq(Data)
    BY UnprocessedType
  <1>2. rr = IF Done(i) THEN Tail(values'[i]) ELSE values'[i]
    BY DEF Unprocessed, Done
  <1>3. values[i] \in Seq(Data) /\ values'[i] \in Seq(Data) /\ L \in Nat /\ L > 1
    BY DEF IInv, TypeOK
  <1>4. /\ Len(Tail(values[i])) = L - 1
        /\ \A k \in 1..(L - 1) : Tail(values[i])[k] = values[i][k + 1]
    BY <1>3
  <1>5. /\ Len(Tail(values'[i])) = L - 1
        /\ \A k \in 1..(L - 1) : Tail(values'[i])[k] = values'[i][k + 1]
    BY <1>3
  <1>6. /\ Len(values'[i]) = L /\ \A k \in 1..L : k # L => values'[i][k] = values[i][k]
        /\ values'[i][L].n = values[i][L].n /\ values'[i][L].meta = lastmeta[i] + 1
    OBVIOUS
  <1> HIDE DEF r, rr, L
  <1>7. /\ Len(rr) = Len(r) /\ Len(r) > 0
        /\ \A k \in 1..Len(r) : k # Len(r) => rr[k] = r[k]
        /\ rr[Len(r)].n = r[Len(r)].n /\ rr[Len(r)].meta = lastmeta[i] + 1
    <2>1. CASE Done(i)
      <3>1. r = Tail(values[i]) /\ rr = Tail(values'[i])
        BY <1>1, <1>2, <2>1
      <3>2. Len(r) = L - 1 /\ Len(rr) = L - 1
        BY <1>4, <1>5, <3>1
      <3>3. \A k \in 1..(L - 1) : r[k] = values[i][k + 1] /\ rr[k] = values'[i][k + 1]
        BY <1>4, <1>5, <3>1
      <3>4. L \in Nat /\ L > 1
        BY <1>3
      <3>5. \A k \in 1..(L - 1) : k # L - 1 => k + 1 \in 1..L /\ k + 1 # L
        BY <3>4
      <3>6. L - 1 \in 1..(L - 1) /\ (L - 1) + 1 = L /\ L - 1 > 0
        BY <3>4
      <3>7. r[L - 1] = values[i][L] /\ rr[L - 1] = values'[i][L]
        BY <3>3, <3>6
      <3>8. \A k \in 1..(L - 1) : k # L - 1 => rr[k] = r[k]
        BY <1>6, <3>3, <3>5
      <3> QED BY <1>6, <3>2, <3>6, <3>7, <3>8
    <2>2. CASE ~Done(i)
      <3>1. r = values[i] /\ rr = values'[i] /\ Len(r) = L
        BY <1>1, <1>2, <2>2 DEF L
      <3> QED BY <1>3, <1>6, <3>1
    <2> QED BY <2>1, <2>2
  <1>8. Consistent(accepted[i], processed[i], r, storedmeta[i], lastmeta[i], i \notin failed)
    BY DEF ItemData, r
  <1>9. accepted[i] \in Seq(Nat) /\ processed[i] \in Seq(Nat)
        /\ storedmeta[i] \in Nat /\ lastmeta[i] \in Nat /\ (i \notin failed) \in BOOLEAN
    BY ItemTypes DEF IInv
  <1>10. Consistent(accepted[i], processed[i], rr, storedmeta[i], lastmeta[i] + 1, i \notin failed)
    BY <1>1, <1>7, <1>8, <1>9, MergedConsistent
  <1> QED BY <1>10 DEF ItemData, rr

(* Metadata merged into the last of two values goes with it. *)
LEMMA MergeMetadataData ==
  ASSUME IInv, IInv', DataInv, NEW p \in Producers, merge_metadata(p)
  PROVE  DataInv'
  <1>1. item_values[p] # <<>>
    BY DEF merge_metadata
  <1>2. PICK i \in Items : i = NextItem(p)
    <2>1. Head(item_values[p]) \in ItemValue
      BY <1>1, NextValueType DEF IInv
    <2> QED BY <2>1 DEF NextItem, ItemValue
  <1> DEFINE L == Len(values[i])
             new == [values[i] EXCEPT ![L].meta = Number(i)]
  <1>3. /\ L > 1 /\ values' = [values EXCEPT ![i] = new]
        /\ lastmeta' = [lastmeta EXCEPT ![i] = Number(i)]
        /\ UNCHANGED <<history, syncer, accepted, processed, storedmeta, failed>>
    BY <1>2 DEF merge_metadata, Merges, svars
  <1>4. values'[i] = new /\ lastmeta'[i] = lastmeta[i] + 1
        /\ \A j \in Items \ {i} : values'[j] = values[j] /\ lastmeta'[j] = lastmeta[j]
    BY <1>3 DEF IInv, TypeOK, Number
  <1>5. /\ Len(new) = L
        /\ \A k \in 1..L : k # L => new[k] = values[i][k]
        /\ new[L].n = values[i][L].n /\ new[L].meta = lastmeta[i] + 1
    <2>1. values[i] \in Seq(Data)
      BY ItemTypes DEF IInv
    <2>2. L \in Nat /\ L \in 1..L /\ values[i][L] \in Data
      BY <1>3, <2>1
    <2>3. PICK d : d = [values[i][L] EXCEPT !.meta = Number(i)]
      OBVIOUS
    <2>4. new = [values[i] EXCEPT ![L] = d]
      BY <2>3
    <2>5. d.n = values[i][L].n /\ d.meta = lastmeta[i] + 1
      BY <2>2, <2>3 DEF Data, Number
    <2>6. PICK v : v = values[i]
      OBVIOUS
    <2>7. v \in Seq(Data) /\ L = Len(v)
      BY <2>1, <2>6
    <2>8. /\ Len([v EXCEPT ![L] = d]) = L /\ [v EXCEPT ![L] = d][L] = d
          /\ \A k \in 1..L : k # L => [v EXCEPT ![L] = d][k] = v[k]
      <3> HIDE DEF L, new
      <3> QED BY <2>2, <2>7
    <2>9. new = [v EXCEPT ![L] = d]
      BY <2>4, <2>6
    <2> HIDE DEF new, L
    <2> QED BY <2>5, <2>6, <2>8, <2>9
  <1> HIDE DEF new, L
  <1>6. \A j \in Items : Done(j)' <=> Done(j)
    BY <1>3 DEF Done, In, SyncedItems
  <1>7. ASSUME NEW j \in Items, j # i PROVE ItemData(j)'
    BY <1>3, <1>4, <1>6, <1>7, ItemUntouched, DataInvParts
  <1>8. ItemData(i)'
    BY <1>3, <1>4, <1>5, <1>6, MergedItem, DataInvParts DEF L
  <1> QED BY <1>7, <1>8 DEF DataInv, ItemData

(* A value is appended behind the values of its item. *)
LEMMA AddItemValueData ==
  ASSUME IInv, IInv', DataInv, NEW p \in Producers, hc_add_item_value(p)
  PROVE  DataInv'
  <1>1. producer[p] = "clone" /\ item_values[p] # <<>> /\ (found[p] <=> values[NextItem(p)] # <<>>)
    BY DEF hc_add_item_value, At, IInv, ProducersInStep
  <1>2. PICK i \in Items : i = NextItem(p)
    <2>1. Head(item_values[p]) \in ItemValue
      BY <1>1, NextValueType DEF IInv
    <2> QED BY <2>1 DEF NextItem, ItemValue
  <1>3. PICK d : d = NewData(p)
    OBVIOUS
  <1>4. /\ values' = [values EXCEPT ![i] = IF found[p] THEN Append(values[i], d) ELSE <<d>>]
        /\ accepted' = [accepted EXCEPT ![i] = Append(accepted[i], d.n)]
        /\ lastmeta' = [lastmeta EXCEPT ![i] = IF d.meta = 0 THEN lastmeta[i] ELSE d.meta]
        /\ UNCHANGED <<history, syncer, processed, storedmeta, failed>>
    BY <1>2, <1>3 DEF hc_add_item_value, svars
  <1>5. d \in Data /\ d.n \in Nat /\ d.meta \in {0, lastmeta[i] + 1}
    <2>1. Head(item_values[p]) \in ItemValue
      BY <1>1, NextValueType DEF IInv
    <2>2. d = [n |-> NextNumber(i), ts |-> Head(item_values[p]).ts,
               novalue |-> Head(item_values[p]).kind = "meta",
               meta |-> IF Head(item_values[p]).kind = "value" THEN 0 ELSE lastmeta[i] + 1]
      BY <1>2, <1>3 DEF NewData, NextItem, Number
    <2>3. NextNumber(i) \in Nat /\ lastmeta[i] + 1 \in Nat
      BY ItemTypes DEF IInv, NextNumber
    <2>4. Head(item_values[p]).ts \in Timestamps
      BY <2>1 DEF ItemValue
    <2> QED BY <2>2, <2>3, <2>4 DEF Data
  <1>6. /\ accepted'[i] = Append(accepted[i], d.n)
        /\ lastmeta'[i] = IF d.meta = 0 THEN lastmeta[i] ELSE d.meta
        /\ values'[i] = IF found[p] THEN Append(values[i], d) ELSE <<d>>
        /\ \A j \in Items \ {i} : values'[j] = values[j] /\ accepted'[j] = accepted[j]
                                    /\ lastmeta'[j] = lastmeta[j]
    BY <1>4 DEF IInv, TypeOK
  <1>7. values[i] \in Seq(Data)
    BY ItemTypes DEF IInv
  <1>8. values'[i] = Append(values[i], d)
    <2>1. CASE found[p]
      BY <1>6, <2>1
    <2>2. CASE ~found[p]
      <3>1. values[i] = <<>>
        BY <1>1, <1>2, <2>2
      <3>2. Append(<<>>, d) = <<d>>
        OBVIOUS
      <3> QED BY <1>6, <2>2, <3>1, <3>2
    <2> QED BY <2>1, <2>2
  <1>9. \A j \in Items : Done(j)' <=> Done(j)
    BY <1>4 DEF Done, In, SyncedItems
  <1>10. ASSUME NEW j \in Items, j # i PROVE ItemData(j)'
    BY <1>4, <1>6, <1>9, <1>10, ItemUntouched, DataInvParts
  <1>11. ItemData(i)'
    <2> DEFINE r == Unprocessed(i)
               rr == Unprocessed(i)'
    <2>1. /\ r = (IF Done(i) THEN Tail(values[i]) ELSE values[i])
          /\ r \in Seq(Data) /\ (Done(i) => values[i] # <<>>)
      BY UnprocessedType
    <2>2. rr = IF Done(i) THEN Tail(values'[i]) ELSE values'[i]
      BY <1>9 DEF Unprocessed, Done
    <2> HIDE DEF r, rr
    <2>3. rr = Append(r, d)
      <3>1. ASSUME NEW v \in Seq(Data), v # <<>> PROVE Tail(Append(v, d)) = Append(Tail(v), d)
        BY <1>5, <3>1
      <3> QED BY <1>7, <1>8, <2>1, <2>2, <3>1
    <2>4. Consistent(accepted[i], processed[i], r, storedmeta[i], lastmeta[i], i \notin failed)
      BY DataInvParts DEF ItemData, r
    <2>5. accepted[i] \in Seq(Nat) /\ processed[i] \in Seq(Nat)
          /\ storedmeta[i] \in Nat /\ lastmeta[i] \in Nat /\ (i \notin failed) \in BOOLEAN
      BY ItemTypes DEF IInv
    <2>6. Consistent(Append(accepted[i], d.n), processed[i], Append(r, d), storedmeta[i],
                     IF d.meta = 0 THEN lastmeta[i] ELSE d.meta, i \notin failed)
      BY <1>5, <2>1, <2>4, <2>5, AddedConsistent
    <2> QED BY <1>4, <1>6, <2>3, <2>6 DEF ItemData, rr
  <1> QED BY <1>10, <1>11 DEF DataInv, ItemData

(* The oldest values are written, and their metadata stored, or given up. *)
LEMMA WriteData ==
  ASSUME IInv, IInv', DataInv, NEW s \in Syncers, write_history(s) \/ write_failed(s)
  PROVE  DataInv'
  <1>1. /\ In(s, "write") /\ ~In(s, "write")' /\ processed' = Processed(s)
        /\ \A r \in Syncers \ {s} : syncer'[r] = syncer[r]
        /\ UNCHANGED <<values, history, accepted, lastmeta>>
    <2>1. /\ syncer[s] = "write" /\ processed' = Processed(s)
          /\ \E place \in {"timers", "push", "unlock"} : syncer' = [syncer EXCEPT ![s] = place]
          /\ UNCHANGED <<values, history, accepted, lastmeta>>
      BY DEF write_history, write_failed, cvars, In, Proceed
    <2>2. DOMAIN syncer = Syncers
      BY DEF IInv, TypeOK
    <2> QED BY <2>1, <2>2 DEF In
  <1>2. ASSUME NEW i \in Items
        PROVE  \/ storedmeta'[i] = (IF i \in SyncedItems(s) /\ SyncedData(s, i).meta # 0
                                    THEN SyncedData(s, i).meta ELSE storedmeta[i])
                  /\ failed' = failed
               \/ storedmeta'[i] = storedmeta[i] /\ failed' = failed \cup SyncedItems(s)
    BY DEF write_history, write_failed
  <1>3. \A r \in Syncers : SyncedItems(r)' = SyncedItems(r)
    BY <1>1 DEF SyncedItems
  <1>4. ASSUME NEW i \in Items, i \notin SyncedItems(s) PROVE ItemData(i)'
    <2>1. Done(i)' <=> Done(i)
      BY <1>1, <1>3, <1>4, DoneUntouched
    <2>2. processed'[i] = processed[i] /\ storedmeta'[i] = storedmeta[i]
          /\ (i \in failed' <=> i \in failed)
      BY <1>1, <1>2, <1>4 DEF Processed
    <2> QED BY <1>1, <2>1, <2>2, ItemUntouched, DataInvParts
  <1>5. ASSUME NEW i \in Items, i \in SyncedItems(s) PROVE ItemData(i)'
    <2> DEFINE r == values[i]
    <2>1. /\ r # <<>> /\ SyncedData(s, i) = Head(r)
          /\ \A q \in Syncers \ {s} : i \notin SyncedItems(q)
      BY <1>5, SyncedHeld
    <2>2. ~Done(i)
      BY <1>1, <2>1 DEF Done, In
    <2>3. Done(i)'
      BY <1>1, <1>3, <1>5 DEF Done, In
    <2>4. Unprocessed(i) = r
      BY <2>2 DEF Unprocessed, Done
    <2>5. Unprocessed(i)' = Tail(r)
      BY <1>1, <2>3 DEF Unprocessed, Done
    <2>6. processed'[i] = Append(processed[i], Head(r).n)
      BY <1>1, <1>5, <2>1 DEF Processed
    <2>7. Consistent(accepted[i], processed[i], r, storedmeta[i], lastmeta[i], i \notin failed)
      BY <2>4, DataInvParts DEF ItemData
    <2>8. /\ accepted[i] \in Seq(Nat) /\ processed[i] \in Seq(Nat) /\ r \in Seq(Data)
          /\ storedmeta[i] \in Nat /\ lastmeta[i] \in Nat /\ (i \notin failed) \in BOOLEAN
      BY ItemTypes DEF IInv
    <2>9. /\ storedmeta'[i] \in Nat /\ (i \notin failed') \in BOOLEAN
          /\ (i \notin failed') => (i \notin failed)
          /\ \/ storedmeta'[i] = IF Head(r).meta # 0 THEN Head(r).meta ELSE storedmeta[i]
             \/ storedmeta'[i] = storedmeta[i] /\ ~(i \notin failed')
      <3>1. storedmeta'[i] \in Nat
        BY DEF IInv, TypeOK
      <3> QED BY <1>2, <1>5, <2>1, <3>1
    <2>10. Consistent(accepted[i], Append(processed[i], Head(r).n), Tail(r), storedmeta'[i],
                      lastmeta[i], i \notin failed')
      <3> HIDE DEF r
      <3> QED BY <2>1, <2>7, <2>8, <2>9, ProcessedConsistent
    <2> QED BY <1>1, <2>5, <2>6, <2>10 DEF ItemData
  <1> QED BY <1>4, <1>5 DEF DataInv, ItemData

(* A push takes the oldest values of the items away that were processed. *)
LEMMA PushData ==
  ASSUME IInv, AllCopied, DataInv, NEW s \in Syncers, push_busy(s) \/ push_items(s)
  PROVE  DataInv'
  <1>1. /\ hc_push_items(s) /\ ~In(s, "write")
        /\ UNCHANGED <<accepted, processed, lastmeta, storedmeta, failed>>
    BY DEF push_busy, push_items, In, hvars
  <1>2. history'[s] = {} /\ \A r \in Syncers \ {s} : history'[r] = history[r] /\ syncer'[r] = syncer[r]
    <2>1. CASE push_busy(s)
      <3>1. history[s] = {}
        BY <2>1 DEF push_busy, In, IInv, SyncersInStep, InStep
      <3> QED BY <2>1, <3>1 DEF push_busy, Proceed, IInv, TypeOK
    <2>2. CASE push_items(s)
      <3>1. history' = [history EXCEPT ![s] = {}] /\ \E place : syncer' = [syncer EXCEPT ![s] = place]
        BY <2>2 DEF push_items, Proceed
      <3> QED BY <3>1 DEF IInv, TypeOK
    <2> QED BY <2>1, <2>2
  <1>3. SyncedItems(s)' = {} /\ \A r \in Syncers \ {s} : SyncedItems(r)' = SyncedItems(r)
    BY <1>2 DEF SyncedItems
  <1>4. ASSUME NEW i \in Items, i \notin SyncedItems(s) PROVE ItemData(i)'
    <2>1. values'[i] = values[i]
      <3>1. i \notin Taken(s)
        BY <1>4 DEF AllCopied, CopiedAll, push_busy, push_items, In
      <3> QED BY <1>1, <3>1 DEF hc_push_items, PushedValues, Taken
    <2>2. Done(i)' <=> Done(i)
      BY <1>2, <1>3, <1>4, DoneUntouched
    <2> QED BY <1>1, <2>1, <2>2, ItemUntouched, DataInvParts
  <1>5. ASSUME NEW i \in Items, i \in SyncedItems(s) PROVE ItemData(i)'
    <2>1. /\ i \in history_items[s] /\ status[i] = "NORMAL"
          /\ \A r \in Syncers \ {s} : i \notin SyncedItems(r)
      BY <1>5, SyncedHeld
    <2>2. values'[i] = Tail(values[i])
      BY <1>1, <2>1 DEF hc_push_items, PushedValues
    <2>3. Done(i)
      BY <1>1, <1>5 DEF Done, In
    <2>4. ~Done(i)'
      BY <1>3, <2>1 DEF Done
    <2>5. Unprocessed(i) = Tail(values[i])
      BY <2>3 DEF Unprocessed, Done
    <2>6. Unprocessed(i)' = Tail(values[i])
      BY <2>2, <2>4 DEF Unprocessed, Done
    <2>7. ItemData(i)
      BY DataInvParts
    <2> QED BY <1>1, <2>5, <2>6, <2>7 DEF ItemData
  <1> QED BY <1>4, <1>5 DEF DataInv, ItemData

(* The other steps of a syncer change no values. *)
LEMMA OtherStepsData ==
  ASSUME IInv, DataInv, NEW s \in Syncers,
         \/ hc_pop_items(s) \/ DCconfig_lock_triggers_by_history_items(s) \/ hc_get_item_values(s)
         \/ zbx_dc_get_timer_triggerids(s) \/ DCconfig_unlock_triggers(s)
         \/ zbx_sync_history_cache(s)
  PROVE  DataInv'
  <1>t. DOMAIN syncer = Syncers /\ DOMAIN history = Syncers
    BY DEF IInv, TypeOK
  <1>1. UNCHANGED <<values, accepted, processed, lastmeta, storedmeta, failed>>
    BY DEF hc_pop_items, DCconfig_lock_triggers_by_history_items, hc_get_item_values,
           zbx_dc_get_timer_triggerids, DCconfig_unlock_triggers, zbx_sync_history_cache, cvars, hvars
  <1>2. \A r \in Syncers \ {s} : history'[r] = history[r] /\ syncer'[r] = syncer[r]
    BY SyncLeavesOthers DEF Sync
  <1>3. ASSUME NEW i \in Items
        PROVE  i \in SyncedItems(s)' /\ ~In(s, "write")' <=> i \in SyncedItems(s) /\ ~In(s, "write")
    <2>1. CASE hc_get_item_values(s)
      <3>1. syncer'[s] = "write"
        BY <1>t, <2>1 DEF hc_get_item_values, Proceed
      <3>2. history[s] = {}
        BY <2>1 DEF hc_get_item_values, In, IInv, SyncersInStep, InStep
      <3> QED BY <3>1, <3>2 DEF SyncedItems, In
    <2>2. CASE hc_pop_items(s)
      <3>1. history' = history /\ syncer[s] = "pop"
        BY <2>2 DEF hc_pop_items, In
      <3>2. \E place : place # "write" /\ syncer' = [syncer EXCEPT ![s] = place]
        BY <2>2 DEF hc_pop_items, RoundEnd, Proceed
      <3> QED BY <1>t, <3>1, <3>2 DEF SyncedItems, In
    <2>3. CASE DCconfig_unlock_triggers(s)
      <3>1. history' = history /\ syncer[s] = "unlock"
        BY <2>3 DEF DCconfig_unlock_triggers, In
      <3>2. \E place : place # "write" /\ syncer' = [syncer EXCEPT ![s] = place]
        BY <2>3 DEF DCconfig_unlock_triggers, RoundEnd, Proceed
      <3> QED BY <1>t, <3>1, <3>2 DEF SyncedItems, In
    <2>4. CASE DCconfig_lock_triggers_by_history_items(s)
      <3>1. history' = history /\ syncer[s] = "lock"
            /\ \E place : place # "write" /\ syncer' = [syncer EXCEPT ![s] = place]
        BY <2>4 DEF DCconfig_lock_triggers_by_history_items, In, Proceed
      <3> QED BY <1>t, <3>1 DEF SyncedItems, In
    <2>5. CASE zbx_dc_get_timer_triggerids(s) \/ zbx_sync_history_cache(s)
      <3>1. history' = history /\ syncer[s] # "write" /\ syncer'[s] # "write"
        BY <1>t, <2>5 DEF zbx_dc_get_timer_triggerids, zbx_sync_history_cache, In, Proceed
      <3> QED BY <3>1 DEF SyncedItems, In
    <2> QED BY <2>1, <2>2, <2>3, <2>4, <2>5
  <1>4. ASSUME NEW i \in Items PROVE ItemData(i)'
    <2>1. Done(i)' <=> Done(i)
      BY <1>2, <1>3, DoneUntouched
    <2> QED BY <1>1, <2>1, ItemUntouched, DataInvParts
  <1> QED BY <1>4 DEF DataInv, ItemData

(* DataInv is inductive relative to the invariant. *)
LEMMA NextDataInv == IInv /\ IInv' /\ AllCopied /\ DataInv /\ [Next]_vars => DataInv' /\ AllCopied'
  <1> SUFFICES ASSUME IInv, IInv', AllCopied, DataInv, [Next]_vars PROVE DataInv'
    BY NextAllCopied
  <1>1. ASSUME NEW p \in Producers, Flush(p) \/ \E batch \in LocalBatches : dc_add_history(p, batch)
        PROVE  DataInv'
    <2>1. CASE merge_metadata(p)
      BY <2>1, MergeMetadataData
    <2>2. CASE hc_add_item_value(p)
      BY <2>2, AddItemValueData
    <2>3. CASE flush_begin(p) \/ flush_end(p) \/ hc_get_item(p) \/ cache_full(p) \/ wait_end(p)
               \/ \E batch \in LocalBatches : dc_add_history(p, batch)
      <3>1. UNCHANGED <<values, history, syncer, accepted, processed, storedmeta, lastmeta, failed>>
        BY <2>3 DEF flush_begin, flush_end, hc_get_item, cache_full, wait_end, dc_add_history,
                    cvars, svars, hvars
      <3> QED BY <3>1, DataUntouched
    <2> QED BY <1>1, <2>1, <2>2, <2>3 DEF Flush
  <1>2. ASSUME NEW s \in Syncers, Sync(s) PROVE DataInv'
    BY <1>2, WriteData, PushData, OtherStepsData DEF Sync
  <1>3. CASE stop \/ (\E t \in Timers : timer_due(t)) \/ UNCHANGED vars
    <2>1. UNCHANGED <<values, history, syncer, accepted, processed, storedmeta, lastmeta, failed>>
      BY <1>3 DEF stop, timer_due, vars, cvars, svars, hvars
    <2> QED BY <2>1, DataUntouched
  <1>4. CASE sync_history_cache_full
    <2>1. /\ UNCHANGED <<values, history, accepted, processed, storedmeta, lastmeta, failed>>
          /\ syncer[Main] = "main" /\ \A s \in Syncers \ {Main} : syncer[s] = "gone"
      BY <1>4 DEF sync_history_cache_full, In, hvars
    <2>2. \A s \in Syncers : history[s] = {}
      BY <2>1 DEF IInv, SyncersInStep, InStep, Resting
    <2>3. ASSUME NEW i \in Items PROVE ItemData(i)'
      <3>1. Done(i)' <=> Done(i)
        BY <2>1, <2>2 DEF Done, SyncedItems
      <3> QED BY <2>1, <3>1, ItemUntouched, DataInvParts
    <2> QED BY <2>3 DEF DataInv, ItemData
  <1> QED BY <1>1, <1>2, <1>3, <1>4 DEF Next

(* Initially nothing was given to the cache. *)
LEMMA InitDataInv == Init => DataInv /\ AllCopied
  <1> SUFFICES ASSUME Init PROVE DataInv /\ AllCopied
    OBVIOUS
  <1>1. ASSUME NEW i \in Items PROVE ItemData(i)
    <2>1. /\ values[i] = <<>> /\ accepted[i] = <<>> /\ processed[i] = <<>>
          /\ storedmeta[i] = 0 /\ lastmeta[i] = 0 /\ \A s \in Syncers : SyncedItems(s) = {}
      BY DEF Init, SyncedItems
    <2>2. Unprocessed(i) = <<>>
      BY <2>1 DEF Unprocessed
    <2>3. Follows(<<>>, <<>>, <<>>) /\ MetadataOrdered(<<>>, 0, 0) /\ MetadataHeld(<<>>, 0, 0)
      BY DEF Follows, MetadataOrdered, MetadataHeld
    <2> QED BY <2>1, <2>2, <2>3 DEF ItemData, Consistent
  <1>2. AllCopied
    BY DEF Init, AllCopied, CopiedAll, Taken
  <1> QED BY <1>1, <1>2 DEF DataInv, ItemData

(* Each item's values are processed once and in the order in which they    *)
(* were added, whatever producers and syncers did while they were written, *)
(* and the metadata of an item grows along its list of values.             *)
THEOREM HistoryDataInvariant == Spec => [](DataInv /\ AllCopied)
  BY InitDataInv, NextDataInv, HistoryInvariant, PTL DEF Spec

(* A list of numbers that starts with p and goes on with the values of r.  *)
LEMMA FollowsConcat ==
  ASSUME NEW a \in Seq(Nat), NEW p \in Seq(Nat), NEW r \in Seq(Data), Follows(a, p, r)
  PROVE  a = p \o [k \in DOMAIN r |-> r[k].n]
  <1> DEFINE q == [k \in DOMAIN r |-> r[k].n]
  <1>1. /\ DOMAIN r = 1..Len(r) /\ Len(r) \in Nat /\ Len(p) \in Nat /\ Len(a) \in Nat
        /\ DOMAIN a = 1..Len(a) /\ \A k \in 1..Len(r) : r[k] \in Data
    OBVIOUS
  <1>2. q \in Seq(Nat) /\ Len(q) = Len(r) /\ \A k \in 1..Len(r) : q[k] = r[k].n
    <2>1. \A k \in 1..Len(r) : r[k].n \in Nat
      BY <1>1 DEF Data
    <2>2. q = [k \in 1..Len(r) |-> r[k].n]
      BY <1>1
    <2> HIDE DEF q
    <2> QED BY <1>1, <2>1, <2>2
  <1> HIDE DEF q
  <1>3. /\ p \o q \in Seq(Nat) /\ Len(p \o q) = Len(p) + Len(r)
        /\ \A k \in 1..(Len(p) + Len(r)) : (p \o q)[k] = IF k <= Len(p) THEN p[k] ELSE q[k - Len(p)]
    <2>1. q \in Seq(Nat)
      BY <1>2
    <2>2. /\ p \o q \in Seq(Nat) /\ Len(p \o q) = Len(p) + Len(q)
          /\ \A k \in 1..Len(p) + Len(q) : (p \o q)[k] = IF k <= Len(p) THEN p[k] ELSE q[k - Len(p)]
      BY <2>1, ConcatProperties, ZenonT(40)
    <2> QED BY <1>2, <2>2
  <1>4. Len(a) = Len(p) + Len(r) /\ (\A k \in 1..Len(p) : a[k] = p[k])
        /\ \A k \in 1..Len(r) : a[Len(p) + k] = q[k]
    BY <1>2 DEF Follows
  <1>5. ASSUME NEW k \in 1..Len(a) PROVE a[k] = (p \o q)[k]
    <2>1. CASE k <= Len(p)
      <3>1. k \in 1..Len(p) /\ k \in 1..(Len(p) + Len(r))
        BY <1>1, <1>4, <2>1
      <3> QED BY <1>3, <1>4, <2>1, <3>1
    <2>2. CASE ~(k <= Len(p))
      <3>1. k - Len(p) \in 1..Len(r) /\ Len(p) + (k - Len(p)) = k /\ k \in 1..(Len(p) + Len(r))
        BY <1>1, <1>4, <2>2
      <3>2. a[Len(p) + (k - Len(p))] = q[k - Len(p)]
        BY <1>4, <3>1
      <3> QED BY <1>3, <2>2, <3>1, <3>2
    <2> QED BY <2>1, <2>2
  <1>6. a = p \o q
    BY <1>1, <1>3, <1>4, <1>5, SeqEqual
  <1> QED BY <1>6 DEF q

(* No value of an item is lost, processed twice or overtaken by a later    *)
(* one, although the mutex is free while it is written and several         *)
(* syncers take the item one after the other (hc_push_items).              *)
THEOREM HistoryProcessedInOrder == Spec => []ProcessedInOrder
  <1>1. IInv /\ DataInv => ProcessedInOrder
    <2> SUFFICES ASSUME IInv, DataInv, NEW i \in Items
                 PROVE  accepted[i] = processed[i] \o [k \in DOMAIN Unprocessed(i) |-> Unprocessed(i)[k].n]
      BY DEF ProcessedInOrder
    <2>1. Follows(accepted[i], processed[i], Unprocessed(i))
      BY DEF DataInv, Consistent
    <2>2. accepted[i] \in Seq(Nat) /\ processed[i] \in Seq(Nat) /\ Unprocessed(i) \in Seq(Data)
      BY ItemTypes, UnprocessedType DEF IInv
    <2> HIDE DEF Unprocessed
    <2> QED BY <2>1, <2>2, FollowsConcat
  <1> QED BY <1>1, HistoryInvariant, HistoryDataInvariant, PTL

(* The newest metadata of an item is stored or still with a value in the   *)
(* cache, unless a failed write gave it up: metadata is never merged into  *)
(* a value that was copied already (hc_add_item_values).                   *)
THEOREM HistoryMetadataKept == Spec => []MetadataKept
  <1>1. IInv /\ DataInv => MetadataKept
    <2> SUFFICES ASSUME IInv, DataInv, NEW i \in Items \ failed, storedmeta[i] # lastmeta[i]
                 PROVE  \E k \in DOMAIN values[i] : values[i][k].meta = lastmeta[i]
      BY DEF MetadataKept
    <2>1. MetadataHeld(Unprocessed(i), storedmeta[i], lastmeta[i])
      BY DEF DataInv, Consistent
    <2>2. PICK k \in 1..Len(Unprocessed(i)) : Unprocessed(i)[k].meta = lastmeta[i]
      BY <2>1 DEF MetadataHeld
    <2>3. values[i] \in Seq(Data)
      BY ItemTypes DEF IInv
    <2>4. CASE Done(i)
      <3>1. Unprocessed(i) = Tail(values[i]) /\ values[i] # <<>>
        BY <2>4, UnprocessedType
      <3>2. /\ Len(Tail(values[i])) = Len(values[i]) - 1 /\ Len(values[i]) \in Nat
            /\ Tail(values[i])[k] = values[i][k + 1]
        BY <2>2, <3>1, ItemTypes DEF IInv
      <3>3. k + 1 \in 1..Len(values[i])
        BY <2>2, <3>1, <3>2
      <3> QED BY <2>2, <2>3, <3>1, <3>2, <3>3
    <2>5. CASE ~Done(i)
      <3>1. Unprocessed(i) = values[i]
        BY <2>5, UnprocessedType
      <3> QED BY <2>2, <2>3, <3>1
    <2> QED BY <2>4, <2>5
  <1> QED BY <1>1, HistoryInvariant, HistoryDataInvariant, PTL

(* Stored metadata never goes back to an older state of the log file: the  *)
(* metadata of what is written is newer than all that was written before.  *)
THEOREM HistoryMetadataForward == Spec => MetadataForward
  <1>1. IInv /\ DataInv /\ [Next]_vars => [\A i \in Items : storedmeta'[i] >= storedmeta[i]]_storedmeta
    <2> SUFFICES ASSUME IInv, DataInv, [Next]_vars, storedmeta' # storedmeta, NEW i \in Items
                 PROVE  storedmeta'[i] >= storedmeta[i]
      OBVIOUS
    <2>1. PICK s \in Syncers : write_history(s)
      BY DEF Next, Flush, dc_add_history, flush_begin, flush_end, merge_metadata, hc_get_item,
             hc_add_item_value, cache_full, wait_end, Sync, hc_pop_items,
             DCconfig_lock_triggers_by_history_items, push_busy, push_items, hc_get_item_values,
             write_failed, zbx_dc_get_timer_triggerids, DCconfig_unlock_triggers,
             zbx_sync_history_cache, timer_due, stop, sync_history_cache_full, vars, hvars
    <2>2. storedmeta[i] \in Nat /\ values[i] \in Seq(Data)
      BY ItemTypes DEF IInv
    <2>3. CASE i \in SyncedItems(s) /\ SyncedData(s, i).meta # 0
      <3>1. /\ values[i] # <<>> /\ SyncedData(s, i) = Head(values[i])
            /\ \A q \in Syncers \ {s} : i \notin SyncedItems(q)
        BY <2>3, SyncedHeld
      <3>2. ~Done(i)
        BY <2>1, <3>1 DEF Done, In, write_history
      <3>3. MetadataOrdered(values[i], storedmeta[i], lastmeta[i])
        BY <3>2, UnprocessedType DEF DataInv, Consistent
      <3>4. Len(values[i]) \in Nat /\ Len(values[i]) > 0 /\ Head(values[i]) = values[i][1]
        BY <2>2, <3>1, ItemTypes DEF IInv
      <3>5. storedmeta[i] < Head(values[i]).meta
        BY <2>3, <3>1, <3>3, <3>4 DEF MetadataOrdered
      <3>6. Head(values[i]).meta \in Nat
        BY <3>1, ItemTypes DEF IInv, Data
      <3>7. storedmeta'[i] = Head(values[i]).meta
        BY <2>1, <2>3, <3>1 DEF write_history
      <3> QED BY <2>2, <3>5, <3>6, <3>7
    <2>4. CASE ~(i \in SyncedItems(s) /\ SyncedData(s, i).meta # 0)
      <3>1. storedmeta'[i] = storedmeta[i]
        BY <2>1, <2>4 DEF write_history
      <3> QED BY <2>2, <3>1
    <2> QED BY <2>3, <2>4
  <1> QED BY <1>1, HistoryInvariant, HistoryDataInvariant, PTL DEF Spec, MetadataForward
===============================================================================
