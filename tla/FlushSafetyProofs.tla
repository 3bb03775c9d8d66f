------------------------- MODULE FlushSafetyProofs -------------------------
(***************************************************************************)
(* Proofs of the safety properties of FlushPipeline that hold for every    *)
(* configuration: the queues respect their capacity and, as long as nobody *)
(* calls clear_buffer, no accepted record is lost silently, and every step *)
(* of the agent on its queues, its batches and its store is a step of      *)
(* at-least-once delivery (Delivery), or none.                             *)
(***************************************************************************)
EXTENDS FlushPipelineProofs, FlushDelivery

USE DEF CommandFails, ForgetKey, ClearKeys, SetLastFlush, Connect, vars, coreVars, statVars,
        workVars, loadVars, fateVars, tallyVars

-----------------------------------------------------------------------------
(* Capacity.                                                               *)

(* The actions that touch neither a queue nor a batch.                     *)
LEMMA QuietCapacity ==
  ASSUME Capacity, UNCHANGED <<buffer, batch>>
  PROVE  Capacity'
BY DEF Capacity

(* No insert, requeue or reload makes a queue longer than its capacity.    *)
LEMMA StepCapacity == TypeOK /\ Capacity /\ [Next]_vars => Capacity'
<1> SUFFICES ASSUME TypeOK, Capacity, [Next]_vars PROVE Capacity'
  OBVIOUS
<1>0. ItemType /\ ControlType
  BY DEF TypeOK
<1>e. Len(<<>>) = 0 /\ 0 <= BufferSize
  BY SizeAssumption
<1>1. ASSUME NEW c \in Callers, NEW k \in Kind, Insert(c, k) PROVE Capacity'
  <2>1. PICK e : buffer' = [buffer EXCEPT ![k] = Append(@, e)]
    BY <1>1 DEF Insert
  <2>2. Len(Append(buffer[k], e)) = Len(buffer[k]) + 1 /\ Len(buffer[k]) \in Nat
    BY <1>0 DEF ItemType
  <2>3. Len(buffer[k]) + 1 <= BufferSize
    BY <1>1, <2>2, SizeAssumption DEF Insert, HasRoom
  <2>4. QED
    BY <1>0, <1>1, <2>1, <2>2, <2>3 DEF Capacity, ItemType, Insert
<1>2. ASSUME NEW c \in Callers, NEW k \in Kind, EvictOldest(c, k) PROVE Capacity'
  <2>1. buffer[k] \in Seq(BufferedItem) /\ buffer[k] # <<>>
    BY <1>0, <1>2, SizeAssumption DEF ItemType, EvictOldest, HasRoom
  <2>2. Len(Tail(buffer[k])) = Len(buffer[k]) - 1 /\ Len(buffer[k]) \in Nat
    BY <2>1, TailItems
  <2>3. Len(Tail(buffer[k])) <= BufferSize
    BY <2>2, SizeAssumption DEF Capacity
  <2>4. QED
    BY <1>0, <1>2, <2>3 DEF Capacity, ItemType, EvictOldest
<1>3. ASSUME NEW w \in Workers, Drain(w) PROVE Capacity'
  <2>1. wkind[w] \in Kind
    BY <1>0 DEF ControlType
  <2>2. /\ buffer' = [buffer EXCEPT ![wkind[w]] = <<>>]
        /\ batch' = [batch EXCEPT ![w] = buffer[wkind[w]]]
    BY <1>3 DEF Drain, LeftByDrain
  <2>3. QED
    BY <1>0, <1>e, <2>1, <2>2 DEF Capacity, ItemType
<1>4. ASSUME NEW w \in Workers, AccountAccepted(w) \/ ConfirmDropped(w) PROVE Capacity'
  <2>1. batch' = [batch EXCEPT ![w] = <<>>] /\ UNCHANGED buffer
    BY <1>4 DEF AccountAccepted, ConfirmDropped
  <2>2. QED
    BY <1>0, <1>e, <2>1 DEF Capacity, ItemType
<1>5. ASSUME NEW w \in Workers, Requeue(w) PROVE Capacity'
  <2>1. wkind[w] \in Kind /\ buffer[wkind[w]] \in Seq(BufferedItem)
        /\ batch[w] \in Seq(BufferedItem)
    BY <1>0 DEF ItemType, ControlType
  <2>2. /\ buffer' = [buffer EXCEPT ![wkind[w]] = Kept(batch[w], buffer[wkind[w]])]
        /\ batch' = [batch EXCEPT ![w] = <<>>]
    BY <1>5 DEF Requeue
  <2>3. Len(Kept(batch[w], buffer[wkind[w]])) <= BufferSize
    BY <2>1, RequeueSplit
  <2>4. QED
    BY <1>0, <1>e, <2>1, <2>2, <2>3 DEF Capacity, ItemType
<1>6. CASE ReloadKey
  <2> DEFINE k == loadKind
             rest == IF HasRoom(k) THEN buffer[k] ELSE Tail(buffer[k])
  <2>1. k \in Kind /\ buffer[k] \in Seq(BufferedItem) /\ Len(buffer[k]) \in Nat
    BY <1>0 DEF ItemType, ControlType
  <2>2. PICK e : buffer' = [buffer EXCEPT ![k] = Append(rest, e)]
    BY <1>6 DEF ReloadKey, GetKey
  <2>3. rest \in Seq(BufferedItem) /\ Len(rest) + 1 <= BufferSize
    <3>1. CASE HasRoom(k)
      BY <2>1, <3>1, SizeAssumption DEF HasRoom
    <3>2. CASE ~HasRoom(k)
      <4>1. buffer[k] # <<>> /\ Len(buffer[k]) <= BufferSize
        BY <2>1, <3>2, SizeAssumption DEF HasRoom, Capacity
      <4>2. Tail(buffer[k]) \in Seq(BufferedItem) /\ Len(Tail(buffer[k])) = Len(buffer[k]) - 1
        BY <2>1, <4>1, TailItems
      <4>3. QED
        BY <2>1, <3>2, <4>1, <4>2, SizeAssumption
    <3>3. QED
      BY <3>1, <3>2
  <2> HIDE DEF rest, k
  <2>4. Len(Append(rest, e)) = Len(rest) + 1
    BY <2>3
  <2>5. UNCHANGED batch
    BY <1>6 DEF ReloadKey, GetKey
  <2>6. QED
    BY <1>0, <2>1, <2>2, <2>3, <2>4, <2>5 DEF Capacity, ItemType
<1>7. CASE ClearMemory
  BY <1>7, <1>e DEF Capacity, ClearMemory
<1>8. CASE Crash
  BY <1>8, <1>e DEF Capacity, Crash
<1>9. CASE UNCHANGED <<buffer, batch>>
  BY <1>9, QuietCapacity
<1>10. ASSUME NEW c \in Callers, NEW k \in Kind, Submit(c, k) \/ Reject(c, k)
       PROVE  UNCHANGED <<buffer, batch>>
  BY <1>10 DEF Submit, Reject
<1>11. ASSUME NEW w \in Workers,
              \/ FlushTick(w) \/ RunSpawned(w) \/ FlushBuffer(w) \/ FinalFlush(w)
              \/ FlushIfNeeded(w) \/ ReadGate(w) \/ SendBatch(w) \/ ConfirmKeys(w)
              \/ Backoff(w) \/ ForgetEvicted(w)
       PROVE  UNCHANGED <<buffer, batch>>
  BY <1>11 DEF FlushTick, RunSpawned, FlushBuffer, FinalFlush, Acquire, FlushIfNeeded,
               ReadGate, SendBatch, ConfirmKeys, Backoff, ForgetEvicted
<1>12. ASSUME \/ SpawnedSkips \/ AttachRedisHandler \/ Start \/ ConnectRedis
              \/ ReloadBegin \/ ReloadList \/ ReloadSkip \/ ReloadDone \/ Stop
              \/ IntervalElapses \/ UNCHANGED vars
       PROVE  UNCHANGED <<buffer, batch>>
  BY <1>12 DEF SpawnedSkips, AttachRedisHandler, Start, ConnectRedis, ReloadBegin,
               ReloadList, ReloadSkip, ReloadDone, Stop, IntervalElapses
<1>13. ASSUME NEW k \in Kind,
              ClearNamespace(k) \/ GateExpires(k) \/ \E n \in store[k] : Expire(k, n)
       PROVE  UNCHANGED <<buffer, batch>>
  BY <1>13 DEF ClearNamespace, GateExpires, Expire
<1>14. QED
  BY <1>1, <1>2, <1>3, <1>4, <1>5, <1>6, <1>7, <1>8, <1>9, <1>10, <1>11, <1>12, <1>13
     DEF Next, Ingest, FlushStep, Lifecycle, Environment

(* Neither queue, and no batch, ever exceeds the configured buffer_size:   *)
(* not under concurrent inserts, not when a failed batch returns to a      *)
(* queue that filled up meanwhile, not when a reload finds more records    *)
(* than fit.                                                               *)
THEOREM CapacityHolds == Spec => []Capacity
<1>1. Init => Capacity
  BY SizeAssumption DEF Init, Capacity
<1>2. TypeOK /\ Capacity /\ [Next]_vars => Capacity'
  BY StepCapacity
<1>3. QED
  BY <1>1, <1>2, TypeCorrect, PTL DEF Spec

-----------------------------------------------------------------------------
(* No silent loss.                                                         *)

Settled(k) == delivered[k] \cup discarded[k] \cup lost[k]

(* Membership in memory, before and after a step, spelled out.             *)
LEMMA InMemoryMember ==
  \A k, n : n \in InMemory(k) <=>
               \/ n \in Ids(buffer[k])
               \/ \E w \in Workers : wkind[w] = k /\ n \in Ids(batch[w])
BY DEF InMemory

(* The same after the step.                                                *)
LEMMA InMemoryMemberNext ==
  \A k, n : n \in InMemory(k)' <=>
               \/ n \in Ids(buffer'[k])
               \/ \E w \in Workers : wkind'[w] = k /\ n \in Ids(batch'[w])
BY DEF InMemory

(* An empty batch holds no record.                                         *)
LEMMA NoIds == Ids(<<>>) = {} /\ LiveKeys(<<>>) = {}
BY DEF Ids, LiveKeys

(* A live key belongs to a held record.                                    *)
LEMMA LiveAreIds == ASSUME NEW s PROVE LiveKeys(s) \subseteq Ids(s)
BY DEF Ids, LiveKeys

(* delete_keys removes at most the keys it is given.                       *)
LEMMA DeleteKeysEffect ==
  ASSUME store \in [Kind -> SUBSET RecordId], NEW k \in Kind, NEW keys, DeleteKeys(k, keys)
  PROVE  \A j \in Kind : /\ store[j] \ store'[j] \subseteq IF j = k THEN keys ELSE {}
                         /\ store'[j] \subseteq store[j]
BY DEF DeleteKeys

(* The obligation of a step: it may forget nothing that was settled, a     *)
(* record that leaves the store or memory must be accounted for elsewhere, *)
(* and a record that enters must be stored or be known to be volatile.     *)
LEMMA LossStep ==
  ASSUME NoSilentLoss, RecordType, RecordType',
         \A k \in Kind :
            /\ Settled(k) \subseteq Settled(k)'
            /\ volatile[k] \subseteq volatile'[k]
            /\ \A n \in store[k] \ store'[k] :
                  n \in Settled(k)' \/ (n \in volatile'[k] /\ n \in InMemory(k)')
            /\ \A n \in volatile[k] : n \in InMemory(k) =>
                  n \in InMemory(k)' \/ n \in Settled(k)' \/ n \in store'[k]
            /\ \A n \in 1..accepted'[k] : n \notin 1..accepted[k] =>
                  n \in store'[k] \/ (n \in volatile'[k] /\ n \in InMemory(k)')
  PROVE  NoSilentLoss'
<1> SUFFICES ASSUME NEW k \in Kind, NEW n \in 1..accepted'[k]
             PROVE  \/ n \in store'[k]
                    \/ n \in Settled(k)'
                    \/ n \in volatile'[k] /\ n \in InMemory(k)'
  BY DEF NoSilentLoss, Settled
<1>1. CASE n \notin 1..accepted[k]
  BY <1>1
<1>2. CASE n \in 1..accepted[k]
  <2>1. n \in store[k] \/ n \in Settled(k) \/ (n \in volatile[k] /\ n \in InMemory(k))
    BY <1>2 DEF NoSilentLoss, Settled
  <2>2. CASE n \in store[k]
    BY <2>2
  <2>3. CASE n \in Settled(k)
    BY <2>3
  <2>4. CASE n \in volatile[k] /\ n \in InMemory(k)
    BY <2>4
  <2>5. QED
    BY <2>1, <2>2, <2>3, <2>4
<1>3. QED
  BY <1>1, <1>2

(* The actions that move no record.                                        *)
QuietVars == <<buffer, batch, wkind, store, accepted, delivered, discarded,
               volatile, lost, evicted, clearing>>

(* A step that leaves the records alone cannot lose one.                   *)
LEMMA QuietLoss == NoSilentLoss /\ UNCHANGED QuietVars => NoSilentLoss'
BY DEF NoSilentLoss, InMemory, QuietVars

(* Nor can it disturb what a permit holds.                                 *)
LEMMA QuietWorkers ==
  ASSUME WorkerShape, DeletesSettled, clearing = NoneClearing, UNCHANGED QuietVars, UNCHANGED pc
  PROVE  WorkerShape' /\ DeletesSettled' /\ clearing' = NoneClearing
BY DEF WorkerShape, DeletesSettled, QuietVars

(* A permit that changes its control point alone, between points where it  *)
(* holds nothing, or where it holds the same.                              *)
LEMMA QuietMove ==
  ASSUME ControlType, WorkerShape, DeletesSettled, clearing = NoneClearing, UNCHANGED QuietVars,
         NEW w \in Workers, NEW to,
         pc' = [pc EXCEPT ![w] = to],
         \/ pc[w] \in {"idle", "need"} /\ to \in {"idle", "need", "gate"}
         \/ pc[w] = "gate" /\ to = "drain"
         \/ pc[w] = "backoff" /\ to = "forget"
  PROVE  WorkerShape' /\ DeletesSettled' /\ clearing' = NoneClearing
<1>1. \A v \in Workers : pc'[v] = IF v = w THEN to ELSE pc[v]
  BY DEF ControlType
<1>2. WorkerShape'
  BY <1>1 DEF WorkerShape, QuietVars
<1>3. DeletesSettled'
  BY <1>1 DEF DeletesSettled, QuietVars
<1>4. QED
  BY <1>2, <1>3 DEF QuietVars

(* The end of a kind's flush by a permit that holds nothing any more.      *)
LEMMA EndKindEffect ==
  ASSUME ControlType, NEW w \in Workers, EndKind(w)
  PROVE  /\ pc'[w] \in {"gate", "idle"}
         /\ \A v \in Workers \ {w} : pc'[v] = pc[v] /\ wkind'[v] = wkind[v]
BY DEF ControlType, EndKind

(* What remains to be shown of the invariant once types are.               *)
LossCore == NoSilentLoss /\ WorkerShape /\ DeletesSettled /\ clearing = NoneClearing

(* A step of permit w leaves the others alone and settles more records:    *)
(* what it holds afterwards is all there is to check.                      *)
LEMMA WorkerStep ==
  ASSUME LossInv, NEW w \in Workers,
         \A v \in Workers \ {w} : /\ pc'[v] = pc[v] /\ wkind'[v] = wkind[v]
                                  /\ batch'[v] = batch[v] /\ evicted'[v] = evicted[v],
         \A k \in Kind : /\ delivered[k] \subseteq delivered'[k]
                         /\ discarded[k] \subseteq discarded'[k],
         UNCHANGED clearing,
         batch'[w] # <<>> =>
            pc'[w] \in {"send", "confirm", "confirmDrop", "account", "requeue"},
         evicted'[w] # {} => pc'[w] \in {"backoff", "forget"},
         pc'[w] \in {"confirm", "confirmDrop", "account"} =>
            Ids(batch'[w]) \subseteq delivered'[wkind'[w]] \cup discarded'[wkind'[w]],
         evicted'[w] \subseteq discarded'[wkind'[w]]
  PROVE  WorkerShape' /\ DeletesSettled' /\ clearing' = NoneClearing
<1>1. \A v \in Workers : wkind[v] \in Kind
  BY DEF LossInv, TypeOK, ControlType
<1>2. WorkerShape' /\ clearing' = NoneClearing
  BY DEF LossInv, WorkerShape
<1>3. DeletesSettled'
  BY <1>1 DEF LossInv, DeletesSettled
<1>4. QED
  BY <1>2, <1>3

(* enqueue: the new record is stored or known to be volatile.              *)
LEMMA InsertLoss ==
  ASSUME LossInv, TypeOK', NEW c \in Callers, NEW k \in Kind, Insert(c, k)
  PROVE  LossCore'
<1>0. ItemType /\ ControlType /\ RecordType /\ RecordType'
  BY DEF LossInv, TypeOK
<1>1. PICK keyed \in BOOLEAN :
        /\ PersistItem(k, accepted[k] + 1, keyed)
        /\ buffer' = [buffer EXCEPT ![k] =
                         Append(@, [id |-> accepted[k] + 1, keyed |-> keyed])]
  BY DEF Insert
<1> DEFINE n == accepted[k] + 1
           item == [id |-> n, keyed |-> keyed]
<1>2. n \in RecordId /\ item \in BufferedItem /\ item.id = n
  BY <1>0 DEF RecordType, RecordId, BufferedItem
<1>3. \A j \in Kind : Ids(buffer'[j]) = Ids(buffer[j]) \cup IF j = k THEN {n} ELSE {}
  BY <1>0, <1>1, <1>2, AppendItem DEF ItemType
<1>4. UNCHANGED <<batch, wkind, pc, evicted, delivered, discarded, lost, clearing>>
  BY DEF Insert
<1>5. \A j \in Kind : \A m \in InMemory(j) : m \in InMemory(j)'
  BY <1>3, <1>4, InMemoryMember, InMemoryMemberNext
<1>6. n \in InMemory(k)'
  BY <1>3, InMemoryMemberNext
<1>7. \A j \in Kind : store[j] \subseteq store'[j] /\ volatile[j] \subseteq volatile'[j]
  <2>1. store' = store \/ store' = [store EXCEPT ![k] = @ \cup {n}]
    BY <1>1 DEF PersistItem, SetKey
  <2>2. volatile' = volatile \/ volatile' = [volatile EXCEPT ![k] = @ \cup {n}]
    BY <1>1 DEF PersistItem
  <2>3. store \in [Kind -> SUBSET RecordId] /\ volatile \in [Kind -> SUBSET RecordId]
    BY <1>0 DEF RecordType
  <2> HIDE DEF n
  <2>4. \A j \in Kind : store[j] \subseteq store'[j]
    BY <2>1, <2>3
  <2>5. \A j \in Kind : volatile[j] \subseteq volatile'[j]
    BY <2>2, <2>3
  <2>6. QED
    BY <2>4, <2>5
<1>8. n \in store'[k] \/ n \in volatile'[k]
  BY <1>0, <1>1 DEF PersistItem, SetKey, RecordType
<1>9. \A j \in Kind : \A m \in 1..accepted'[j] : m \notin 1..accepted[j] => j = k /\ m = n
  <2>1. accepted' = [accepted EXCEPT ![k] = n]
    BY <1>0 DEF Insert, RecordType
  <2>2. QED
    BY <1>0, <2>1 DEF RecordType
<1>10. NoSilentLoss'
  <2> HIDE DEF n
  <2>1. \A j \in Kind : Settled(j)' = Settled(j)
    BY <1>4 DEF Settled
  <2>2. NoSilentLoss
    BY DEF LossInv
  <2>3. QED
    BY <1>0, <1>5, <1>6, <1>7, <1>8, <1>9, <2>1, <2>2, LossStep
<1>11. WorkerShape' /\ DeletesSettled' /\ clearing' = NoneClearing
  BY <1>4 DEF LossInv, WorkerShape, DeletesSettled
<1>12. QED
  BY <1>10, <1>11 DEF LossCore

(* enqueue under Drop: the evicted record is discarded by rule.            *)
LEMMA EvictOldestLoss ==
  ASSUME LossInv, TypeOK', NEW c \in Callers, NEW k \in Kind, EvictOldest(c, k)
  PROVE  LossCore'
<1> DEFINE gone == Head(buffer[k]).id
<1>0. ItemType /\ ControlType /\ RecordType /\ RecordType'
  BY DEF LossInv, TypeOK
<1>1. buffer[k] # <<>> /\ buffer[k] \in Seq(BufferedItem)
  BY <1>0, SizeAssumption DEF ItemType, EvictOldest, HasRoom
<1>2. \A j \in Kind : Ids(buffer[j]) \subseteq Ids(buffer'[j]) \cup IF j = k THEN {gone} ELSE {}
  BY <1>0, <1>1, TailItems DEF EvictOldest, ItemType
<1>3. /\ UNCHANGED <<batch, wkind, pc, evicted, delivered, volatile, lost, clearing, accepted>>
      /\ discarded' = [discarded EXCEPT ![k] = @ \cup {gone}]
  BY DEF EvictOldest
<1>4. \A j \in Kind : store[j] \ store'[j] \subseteq IF j = k THEN {gone} ELSE {}
  <2>1. Ids(<<Head(buffer[k])>>) = {gone}
    BY DEF Ids
  <2>2. LiveKeys(<<Head(buffer[k])>>) \subseteq {gone}
    BY <2>1, LiveAreIds
  <2>3. DeleteKeys(k, LiveKeys(<<Head(buffer[k])>>))
    BY DEF EvictOldest
  <2>4. QED
    BY <1>0, <2>2, <2>3, DeleteKeysEffect DEF RecordType
<1> HIDE DEF gone
<1>5. \A j \in Kind : /\ Settled(j) \subseteq Settled(j)'
                      /\ j = k => gone \in Settled(j)'
                      /\ discarded[j] \subseteq discarded'[j]
  BY <1>0, <1>3 DEF Settled, RecordType
<1>6. \A j \in Kind : \A m \in InMemory(j) : m \in InMemory(j)' \/ (j = k /\ m = gone)
  BY <1>2, <1>3, InMemoryMember, InMemoryMemberNext
<1>7. NoSilentLoss'
  <2>1. NoSilentLoss
    BY DEF LossInv
  <2>2. \A j \in Kind : \A m \in store[j] \ store'[j] : m \in Settled(j)'
    BY <1>4, <1>5
  <2>3. QED
    BY <1>0, <1>3, <1>5, <1>6, <2>1, <2>2, LossStep
<1>8. WorkerShape' /\ clearing' = NoneClearing
  BY <1>3 DEF LossInv, WorkerShape
<1>9. DeletesSettled'
  BY <1>0, <1>3, <1>5 DEF LossInv, DeletesSettled, ControlType
<1>10. QED
  BY <1>7, <1>8, <1>9 DEF LossCore

(* drain moves the records from the queue to the batch.                    *)
LEMMA DrainLoss ==
  ASSUME LossInv, TypeOK', NEW w \in Workers, Drain(w)
  PROVE  LossCore'
<1> DEFINE k == wkind[w]
<1>0. ItemType /\ ControlType /\ RecordType /\ RecordType' /\ k \in Kind
  BY DEF LossInv, TypeOK, ControlType
<1>1. /\ pc[w] = "drain"
      /\ buffer' = [buffer EXCEPT ![k] = <<>>]
      /\ batch' = [batch EXCEPT ![w] = buffer[k]]
      /\ UNCHANGED <<evicted, store, accepted, delivered, discarded, volatile, lost, clearing>>
  BY DEF Drain, LeftByDrain
<1>2. batch[w] = <<>> /\ evicted[w] = {}
  BY <1>1 DEF LossInv, WorkerShape
<1>3. \A v \in Workers \ {w} : /\ pc'[v] = pc[v] /\ wkind'[v] = wkind[v]
                               /\ batch'[v] = batch[v]
  BY <1>0, <1>1, EndKindEffect DEF Drain, ControlType, ItemType
<1>4. \/ buffer[k] = <<>> /\ pc'[w] \in {"gate", "idle"}
      \/ buffer[k] # <<>> /\ pc'[w] = "send" /\ wkind'[w] = k
  BY <1>0, EndKindEffect DEF Drain, ControlType
<1>5. batch'[w] = buffer[k] /\ \A j \in Kind : j # k => buffer'[j] = buffer[j]
  BY <1>0, <1>1 DEF ItemType
<1> HIDE DEF k
<1>6. \A j \in Kind : \A n \in InMemory(j) : n \in InMemory(j)'
  <2> SUFFICES ASSUME NEW j \in Kind, NEW n \in InMemory(j) PROVE n \in InMemory(j)'
    OBVIOUS
  <2>1. CASE n \in Ids(buffer[j])
    <3>1. CASE j = k
      <4>1. buffer[k] # <<>>
        BY <2>1, <3>1, NoIds
      <4>2. QED
        BY <1>4, <1>5, <2>1, <3>1, <4>1, InMemoryMemberNext
    <3>2. CASE j # k
      BY <1>5, <2>1, <3>2, InMemoryMemberNext
    <3>3. QED
      BY <3>1, <3>2
  <2>2. ASSUME NEW v \in Workers, wkind[v] = j, n \in Ids(batch[v]) PROVE n \in InMemory(j)'
    <3>1. v # w
      BY <1>2, <2>2, NoIds
    <3>2. QED
      BY <1>3, <2>2, <3>1, InMemoryMemberNext
  <2>3. QED
    BY <2>1, <2>2, InMemoryMember
<1>7. NoSilentLoss'
  <2>1. NoSilentLoss /\ \A j \in Kind : Settled(j)' = Settled(j)
    BY <1>1 DEF LossInv, Settled
  <2>2. QED
    BY <1>0, <1>1, <1>6, <2>1, LossStep
<1>8. WorkerShape' /\ DeletesSettled' /\ clearing' = NoneClearing
  BY <1>0, <1>1, <1>2, <1>3, <1>4, <1>5, WorkerStep
<1>9. QED
  BY <1>7, <1>8 DEF LossCore

(* Reading the retry gate moves no record.                                 *)
LEMMA ReadGateLoss ==
  ASSUME LossInv, TypeOK', NEW w \in Workers, ReadGate(w)
  PROVE  LossCore'
<1>0. ControlType /\ RecordType /\ RecordType'
  BY DEF LossInv, TypeOK
<1>1. /\ pc[w] = "gate"
      /\ UNCHANGED <<buffer, batch, evicted, store, accepted, delivered, discarded,
                     volatile, lost, clearing>>
  BY DEF ReadGate
<1>2. batch[w] = <<>> /\ evicted[w] = {}
  BY <1>1 DEF LossInv, WorkerShape
<1>3. \A v \in Workers \ {w} : pc'[v] = pc[v] /\ wkind'[v] = wkind[v]
  BY <1>0, EndKindEffect DEF ReadGate, ControlType
<1>4. pc'[w] \in {"gate", "idle", "drain"}
  BY <1>0, EndKindEffect DEF ReadGate, ControlType
<1>5. \A j \in Kind : \A n \in InMemory(j) : n \in InMemory(j)'
  <2> SUFFICES ASSUME NEW j \in Kind, NEW n \in InMemory(j) PROVE n \in InMemory(j)'
    OBVIOUS
  <2>1. CASE n \in Ids(buffer[j])
    BY <1>1, <2>1, InMemoryMemberNext
  <2>2. ASSUME NEW v \in Workers, wkind[v] = j, n \in Ids(batch[v]) PROVE n \in InMemory(j)'
    <3>1. v # w
      BY <1>2, <2>2, NoIds
    <3>2. QED
      BY <1>1, <1>3, <2>2, <3>1, InMemoryMemberNext
  <2>3. QED
    BY <2>1, <2>2, InMemoryMember
<1>6. NoSilentLoss'
  <2>1. NoSilentLoss /\ \A j \in Kind : Settled(j)' = Settled(j)
    BY <1>1 DEF LossInv, Settled
  <2>2. QED
    BY <1>0, <1>1, <1>5, <2>1, LossStep
<1>7. WorkerShape' /\ DeletesSettled' /\ clearing' = NoneClearing
  BY <1>1, <1>2, <1>3, <1>4, WorkerStep
<1>8. QED
  BY <1>6, <1>7 DEF LossCore

(* Each outcome of send_batch settles the batch or keeps it.               *)
LEMMA SendBatchLoss ==
  ASSUME LossInv, TypeOK', NEW w \in Workers, SendBatch(w)
  PROVE  LossCore'
<1> DEFINE k == wkind[w]
<1>0. ControlType /\ RecordType /\ RecordType' /\ k \in Kind
  BY DEF LossInv, TypeOK, ControlType
<1>1. /\ pc[w] = "send"
      /\ UNCHANGED <<buffer, batch, wkind, evicted, store, accepted, volatile, lost, clearing>>
  BY DEF SendBatch, SendAccepted, SendPermanentDrop, SendFailed
<1>2. PICK got \in SUBSET Ids(batch[w]) :
        /\ delivered' = [delivered EXCEPT ![k] = @ \cup got]
        /\ \/ /\ discarded' = [discarded EXCEPT ![k] = @ \cup (Ids(batch[w]) \ got)]
              /\ pc' \in {[pc EXCEPT ![w] = "confirm"], [pc EXCEPT ![w] = "confirmDrop"]}
           \/ /\ discarded' = discarded
              /\ pc' = [pc EXCEPT ![w] = "requeue"]
  BY DEF SendBatch, SendAccepted, SendPermanentDrop, SendFailed
<1> HIDE DEF k
<1>3. \A j \in Kind : delivered[j] \subseteq delivered'[j] /\ discarded[j] \subseteq discarded'[j]
  BY <1>0, <1>2 DEF RecordType
<1>4. /\ \A v \in Workers \ {w} : pc'[v] = pc[v]
      /\ pc'[w] \in {"confirm", "confirmDrop", "requeue"}
  BY <1>0, <1>2 DEF ControlType
<1>5. pc'[w] # "requeue" => Ids(batch[w]) \subseteq delivered'[k] \cup discarded'[k]
  BY <1>0, <1>2 DEF RecordType, ControlType
<1>6. NoSilentLoss'
  <2>1. NoSilentLoss /\ \A j \in Kind : Settled(j) \subseteq Settled(j)'
    BY <1>1, <1>3 DEF LossInv, Settled
  <2>2. \A j \in Kind : \A n \in InMemory(j) : n \in InMemory(j)'
    BY <1>1, InMemoryMember, InMemoryMemberNext
  <2>3. QED
    BY <1>0, <1>1, <2>1, <2>2, LossStep
<1>7. WorkerShape' /\ DeletesSettled' /\ clearing' = NoneClearing
  <2>1. evicted[w] = {}
    BY <1>1 DEF LossInv, WorkerShape
  <2>2. QED
    BY <1>1, <1>3, <1>4, <1>5, <2>1, WorkerStep DEF k
<1>8. QED
  BY <1>6, <1>7 DEF LossCore

(* confirm_keys deletes only records that are settled.                     *)
LEMMA ConfirmKeysLoss ==
  ASSUME LossInv, TypeOK', NEW w \in Workers, ConfirmKeys(w)
  PROVE  LossCore'
<1> DEFINE k == wkind[w]
<1>0. ControlType /\ RecordType /\ RecordType' /\ k \in Kind
  BY DEF LossInv, TypeOK, ControlType
<1>1. /\ pc[w] = "confirm"
      /\ pc' = [pc EXCEPT ![w] = "account"]
      /\ DeleteKeys(k, LiveKeys(batch[w]))
      /\ UNCHANGED <<buffer, batch, wkind, evicted, accepted, delivered, discarded,
                     volatile, lost, clearing>>
  BY DEF ConfirmKeys
<1>2. Ids(batch[w]) \subseteq delivered[k] \cup discarded[k]
  BY <1>1 DEF LossInv, DeletesSettled
<1>3. \A j \in Kind : store[j] \ store'[j] \subseteq Settled(j)
  BY <1>0, <1>1, <1>2, DeleteKeysEffect, LiveAreIds DEF RecordType, Settled
<1>4. NoSilentLoss'
  <2>1. NoSilentLoss /\ \A j \in Kind : Settled(j) = Settled(j)'
    BY <1>1 DEF LossInv, Settled
  <2>2. \A j \in Kind : \A n \in InMemory(j) : n \in InMemory(j)'
    BY <1>1, InMemoryMember, InMemoryMemberNext
  <2>3. QED
    BY <1>0, <1>1, <1>3, <2>1, <2>2, LossStep
<1>5. /\ pc'[w] = "account"
      /\ \A v \in Workers \ {w} : pc'[v] = pc[v]
  BY <1>0, <1>1 DEF ControlType
<1>6. evicted[w] = {}
  BY <1>1 DEF LossInv, WorkerShape
<1>7. WorkerShape' /\ DeletesSettled' /\ clearing' = NoneClearing
  BY <1>1, <1>2, <1>5, <1>6, WorkerStep
<1>8. QED
  BY <1>4, <1>7 DEF LossCore

(* The two ways a confirmed batch leaves memory.                           *)
LEMMA ReleaseLoss ==
  ASSUME LossInv, TypeOK', NEW w \in Workers, AccountAccepted(w) \/ ConfirmDropped(w)
  PROVE  LossCore'
<1> DEFINE k == wkind[w]
<1>0. ItemType /\ ControlType /\ RecordType /\ RecordType' /\ k \in Kind
  BY DEF LossInv, TypeOK, ControlType
<1>1. /\ pc[w] \in {"account", "confirmDrop"}
      /\ batch' = [batch EXCEPT ![w] = <<>>]
      /\ EndKind(w)
      /\ UNCHANGED <<buffer, evicted, accepted, delivered, discarded, volatile, lost, clearing>>
      /\ store' = store \/ DeleteKeys(k, LiveKeys(batch[w]))
  BY DEF AccountAccepted, ConfirmDropped
<1>2. Ids(batch[w]) \subseteq delivered[k] \cup discarded[k]
  BY <1>1 DEF LossInv, DeletesSettled
<1>3. \A j \in Kind : store[j] \ store'[j] \subseteq Settled(j)
  BY <1>0, <1>1, <1>2, DeleteKeysEffect, LiveAreIds DEF RecordType, Settled
<1>4. /\ pc'[w] \in {"gate", "idle"} /\ batch'[w] = <<>>
      /\ \A v \in Workers \ {w} : /\ pc'[v] = pc[v] /\ wkind'[v] = wkind[v]
                                  /\ batch'[v] = batch[v]
  BY <1>0, <1>1, EndKindEffect DEF ItemType
<1>5. \A j \in Kind : \A n \in InMemory(j) : n \in InMemory(j)' \/ n \in Settled(j)
  <2> SUFFICES ASSUME NEW j \in Kind, NEW n \in InMemory(j)
               PROVE  n \in InMemory(j)' \/ n \in Settled(j)
    OBVIOUS
  <2>1. CASE n \in Ids(buffer[j])
    BY <1>1, <2>1, InMemoryMemberNext
  <2>2. ASSUME NEW v \in Workers, wkind[v] = j, n \in Ids(batch[v])
        PROVE  n \in InMemory(j)' \/ n \in Settled(j)
    <3>1. CASE v = w
      BY <1>2, <2>2, <3>1 DEF Settled
    <3>2. CASE v # w
      BY <1>4, <2>2, <3>2, InMemoryMemberNext
    <3>3. QED
      BY <3>1, <3>2
  <2>3. QED
    BY <2>1, <2>2, InMemoryMember
<1>6. NoSilentLoss'
  <2>1. NoSilentLoss /\ \A j \in Kind : Settled(j) = Settled(j)'
    BY <1>1 DEF LossInv, Settled
  <2>2. QED
    BY <1>0, <1>1, <1>3, <1>5, <2>1, LossStep
<1>7. evicted[w] = {}
  BY <1>1 DEF LossInv, WorkerShape
<1>8. WorkerShape' /\ DeletesSettled' /\ clearing' = NoneClearing
  BY <1>1, <1>4, <1>7, WorkerStep
<1>9. QED
  BY <1>6, <1>8 DEF LossCore

(* requeue keeps each record in the queue or discards it by rule.          *)
LEMMA RequeueLoss ==
  ASSUME LossInv, TypeOK', NEW w \in Workers, Requeue(w)
  PROVE  LossCore'
<1> DEFINE k == wkind[w]
           out == Overflow(batch[w], buffer[k])
           kept == Kept(batch[w], buffer[k])
<1>0. ItemType /\ ControlType /\ RecordType /\ RecordType' /\ k \in Kind
  BY DEF LossInv, TypeOK, ControlType
<1>1. /\ pc[w] = "requeue"
      /\ buffer' = [buffer EXCEPT ![k] = kept]
      /\ discarded' = [discarded EXCEPT ![k] = @ \cup Ids(out)]
      /\ evicted' = [evicted EXCEPT ![w] = LiveKeys(out)]
      /\ batch' = [batch EXCEPT ![w] = <<>>]
      /\ pc' = [pc EXCEPT ![w] = "backoff"]
      /\ UNCHANGED <<wkind, store, accepted, delivered, volatile, lost, clearing>>
  BY DEF Requeue
<1>2. Ids(batch[w]) \cup Ids(buffer[k]) = Ids(kept) \cup Ids(out)
  BY <1>0, RequeueSplit DEF ItemType
<1>3. LiveKeys(out) \subseteq Ids(out)
  BY LiveAreIds
<1> HIDE DEF k, out, kept
<1>4. /\ \A j \in Kind : discarded[j] \subseteq discarded'[j] /\ delivered[j] \subseteq delivered'[j]
      /\ Ids(out) \subseteq discarded'[k]
  BY <1>0, <1>1 DEF RecordType
<1>5. /\ pc'[w] = "backoff" /\ batch'[w] = <<>> /\ evicted'[w] = LiveKeys(out)
      /\ \A v \in Workers \ {w} : /\ pc'[v] = pc[v] /\ wkind'[v] = wkind[v]
                                  /\ batch'[v] = batch[v] /\ evicted'[v] = evicted[v]
  BY <1>0, <1>1 DEF ItemType, ControlType, RecordType
<1>6. buffer'[k] = kept /\ \A j \in Kind : j # k => buffer'[j] = buffer[j]
  BY <1>0, <1>1 DEF ItemType
<1>7. \A j \in Kind : \A n \in InMemory(j) : n \in InMemory(j)' \/ n \in discarded'[j]
  <2> SUFFICES ASSUME NEW j \in Kind, NEW n \in InMemory(j)
               PROVE  n \in InMemory(j)' \/ n \in discarded'[j]
    OBVIOUS
  <2>1. j = k /\ n \in Ids(kept) => n \in InMemory(j)'
    BY <1>6, InMemoryMemberNext
  <2>2. CASE n \in Ids(buffer[j])
    <3>1. CASE j = k
      BY <1>2, <1>4, <2>1, <2>2, <3>1
    <3>2. CASE j # k
      BY <1>6, <2>2, <3>2, InMemoryMemberNext
    <3>3. QED
      BY <3>1, <3>2
  <2>3. ASSUME NEW v \in Workers, wkind[v] = j, n \in Ids(batch[v])
        PROVE  n \in InMemory(j)' \/ n \in discarded'[j]
    <3>1. CASE v = w
      BY <1>2, <1>4, <2>1, <2>3, <3>1 DEF k
    <3>2. CASE v # w
      BY <1>5, <2>3, <3>2, InMemoryMemberNext
    <3>3. QED
      BY <3>1, <3>2
  <2>4. QED
    BY <2>2, <2>3, InMemoryMember
<1>8. NoSilentLoss'
  <2>1. /\ NoSilentLoss
        /\ \A j \in Kind : Settled(j) \subseteq Settled(j)' /\ discarded'[j] \subseteq Settled(j)'
    BY <1>1, <1>4 DEF LossInv, Settled
  <2>2. QED
    BY <1>0, <1>1, <1>7, <2>1, LossStep
<1>9. WorkerShape' /\ DeletesSettled' /\ clearing' = NoneClearing
  BY <1>1, <1>3, <1>4, <1>5, WorkerStep DEF k
<1>10. QED
  BY <1>8, <1>9 DEF LossCore

(* The keys a requeue gave up belong to discarded records.                 *)
LEMMA ForgetEvictedLoss ==
  ASSUME LossInv, TypeOK', NEW w \in Workers, ForgetEvicted(w)
  PROVE  LossCore'
<1> DEFINE k == wkind[w]
<1>0. ControlType /\ RecordType /\ RecordType' /\ k \in Kind
  BY DEF LossInv, TypeOK, ControlType
<1>1. /\ pc[w] = "forget"
      /\ DeleteKeys(k, evicted[w])
      /\ evicted' = [evicted EXCEPT ![w] = {}]
      /\ EndKind(w)
      /\ UNCHANGED <<buffer, batch, accepted, delivered, discarded, volatile, lost, clearing>>
  BY DEF ForgetEvicted
<1>2. evicted[w] \subseteq discarded[k] /\ batch[w] = <<>>
  BY <1>1 DEF LossInv, DeletesSettled, WorkerShape
<1>3. \A j \in Kind : store[j] \ store'[j] \subseteq Settled(j)
  BY <1>0, <1>1, <1>2, DeleteKeysEffect DEF RecordType, Settled
<1>4. /\ pc'[w] \in {"gate", "idle"} /\ evicted'[w] = {}
      /\ \A v \in Workers \ {w} : /\ pc'[v] = pc[v] /\ wkind'[v] = wkind[v]
                                  /\ evicted'[v] = evicted[v]
  BY <1>0, <1>1, EndKindEffect DEF RecordType
<1>5. \A j \in Kind : \A n \in InMemory(j) : n \in InMemory(j)'
  <2> SUFFICES ASSUME NEW j \in Kind, NEW n \in InMemory(j) PROVE n \in InMemory(j)'
    OBVIOUS
  <2>1. CASE n \in Ids(buffer[j])
    BY <1>1, <2>1, InMemoryMemberNext
  <2>2. ASSUME NEW v \in Workers, wkind[v] = j, n \in Ids(batch[v]) PROVE n \in InMemory(j)'
    <3>1. v # w
      BY <1>2, <2>2, NoIds
    <3>2. QED
      BY <1>1, <1>4, <2>2, <3>1, InMemoryMemberNext
  <2>3. QED
    BY <2>1, <2>2, InMemoryMember
<1>6. NoSilentLoss'
  <2>1. NoSilentLoss /\ \A j \in Kind : Settled(j) = Settled(j)'
    BY <1>1 DEF LossInv, Settled
  <2>2. QED
    BY <1>0, <1>1, <1>3, <1>5, <2>1, LossStep
<1>7. WorkerShape' /\ DeletesSettled' /\ clearing' = NoneClearing
  BY <1>1, <1>2, <1>4, WorkerStep
<1>8. QED
  BY <1>6, <1>7 DEF LossCore

(* Reloading a record discards at most the oldest one, by rule.            *)
LEMMA ReloadKeyLoss ==
  ASSUME LossInv, TypeOK', ReloadKey
  PROVE  LossCore'
<1> DEFINE r == Min(toLoad)
           full == ~HasRoom(loadKind)
           rest == IF HasRoom(loadKind) THEN buffer[loadKind] ELSE Tail(buffer[loadKind])
           out == IF HasRoom(loadKind) THEN <<>> ELSE <<Head(buffer[loadKind])>>
           item == [id |-> r, keyed |-> TRUE]
<1>0. ItemType /\ ControlType /\ RecordType /\ RecordType'
  BY DEF LossInv, TypeOK
<1>k. PICK k \in Kind : k = loadKind
  BY <1>0 DEF ControlType
<1>1. r \in RecordId /\ item \in BufferedItem /\ buffer[k] \in Seq(BufferedItem)
  BY <1>0, <1>k DEF ItemType, RecordType, ReloadKey, GetKey, BufferedItem
<1>2. rest \in Seq(BufferedItem) /\ Ids(buffer[k]) = Ids(rest) \cup Ids(out)
  <2>1. CASE HasRoom(k)
    BY <1>1, <1>k, <2>1, NoIds
  <2>2. CASE ~HasRoom(k)
    <3>1. buffer[k] # <<>>
      BY <1>1, <2>2, SizeAssumption DEF HasRoom
    <3>2. Ids(<<Head(buffer[k])>>) = {Head(buffer[k]).id}
      BY DEF Ids
    <3>3. QED
      BY <1>1, <1>k, <2>2, <3>1, <3>2, TailItems
  <2>3. QED
    BY <2>1, <2>2
<1>3. LiveKeys(out) \subseteq Ids(out)
  BY LiveAreIds
<1>4. /\ DeleteKeys(k, LiveKeys(out))
      /\ buffer' = [buffer EXCEPT ![k] = Append(rest, item)]
      /\ discarded' = [discarded EXCEPT ![k] = @ \cup Ids(out)]
      /\ UNCHANGED <<batch, wkind, pc, evicted, accepted, delivered, volatile, lost, clearing>>
  BY <1>k DEF ReloadKey, GetKey
<1> HIDE DEF r, full, rest, out, item
<1>5. Ids(rest) \subseteq Ids(buffer'[k]) /\ \A j \in Kind : j # k => buffer'[j] = buffer[j]
  BY <1>0, <1>1, <1>2, <1>4, AppendItem DEF ItemType
<1>6. /\ \A j \in Kind : discarded[j] \subseteq discarded'[j]
      /\ Ids(out) \subseteq discarded'[k]
  BY <1>0, <1>4 DEF RecordType
<1>7. \A j \in Kind : \A n \in InMemory(j) : n \in InMemory(j)' \/ n \in discarded'[j]
  <2> SUFFICES ASSUME NEW j \in Kind, NEW n \in InMemory(j)
               PROVE  n \in InMemory(j)' \/ n \in discarded'[j]
    OBVIOUS
  <2>1. CASE n \in Ids(buffer[j])
    <3>1. CASE j = k
      BY <1>2, <1>5, <1>6, <2>1, <3>1, InMemoryMemberNext
    <3>2. CASE j # k
      BY <1>5, <2>1, <3>2, InMemoryMemberNext
    <3>3. QED
      BY <3>1, <3>2
  <2>2. ASSUME NEW v \in Workers, wkind[v] = j, n \in Ids(batch[v]) PROVE n \in InMemory(j)'
    BY <1>4, <2>2, InMemoryMemberNext
  <2>3. QED
    BY <2>1, <2>2, InMemoryMember
<1>8. NoSilentLoss'
  <2>1. /\ NoSilentLoss
        /\ \A j \in Kind : Settled(j) \subseteq Settled(j)' /\ discarded'[j] \subseteq Settled(j)'
    BY <1>4, <1>6 DEF LossInv, Settled
  <2>2. \A j \in Kind : \A n \in store[j] \ store'[j] : n \in discarded'[j]
    BY <1>0, <1>3, <1>4, <1>6, DeleteKeysEffect DEF RecordType
  <2>3. QED
    BY <1>0, <1>4, <1>7, <2>1, <2>2, LossStep
<1>9. WorkerShape' /\ clearing' = NoneClearing
  BY <1>4 DEF LossInv, WorkerShape
<1>10. DeletesSettled'
  BY <1>0, <1>4, <1>6 DEF LossInv, DeletesSettled, ControlType
<1>11. QED
  BY <1>8, <1>9, <1>10 DEF LossCore

(* The TTL takes the durable copy: the record is volatile or lost.         *)
LEMMA ExpireLoss ==
  ASSUME LossInv, TypeOK', NEW k \in Kind, NEW n \in store[k], Expire(k, n)
  PROVE  LossCore'
<1>0. RecordType /\ RecordType'
  BY DEF LossInv, TypeOK
<1>1. UNCHANGED <<buffer, batch, wkind, pc, evicted, accepted, delivered, discarded, clearing>>
  BY DEF Expire
<1>2. \A j \in Kind : \A m \in InMemory(j) : m \in InMemory(j)'
  BY <1>1, InMemoryMember, InMemoryMemberNext
<1>3. /\ \A j \in Kind : volatile[j] \subseteq volatile'[j] /\ lost[j] \subseteq lost'[j]
      /\ \A j \in Kind : store[j] \ store'[j] \subseteq IF j = k THEN {n} ELSE {}
      /\ n \in volatile'[k]
      /\ n \notin InMemory(k) => n \in lost'[k]
  BY <1>0 DEF Expire, RecordType
<1>4. NoSilentLoss'
  <2>1. NoSilentLoss /\ \A j \in Kind : Settled(j) \subseteq Settled(j)' /\ lost'[j] \subseteq Settled(j)'
    BY <1>1, <1>3 DEF LossInv, Settled
  <2>2. \A j \in Kind : \A m \in store[j] \ store'[j] :
           m \in Settled(j)' \/ (m \in volatile'[j] /\ m \in InMemory(j)')
    BY <1>2, <1>3, <2>1
  <2>3. QED
    BY <1>0, <1>1, <1>2, <1>3, <2>1, <2>2, LossStep
<1>5. WorkerShape' /\ DeletesSettled' /\ clearing' = NoneClearing
  BY <1>1 DEF LossInv, WorkerShape, DeletesSettled
<1>6. QED
  BY <1>4, <1>5 DEF LossCore

(* A crash loses from memory only what was volatile.                       *)
LEMMA CrashLoss ==
  ASSUME LossInv, TypeOK', Crash
  PROVE  LossCore'
<1>0. RecordType /\ RecordType'
  BY DEF LossInv, TypeOK
<1>1. /\ UNCHANGED <<store, accepted, delivered, discarded, volatile>>
      /\ lost' = [k \in Kind |-> lost[k] \cup (InMemory(k) \cap volatile[k])]
      /\ pc' = [w \in Workers |-> "idle"]
      /\ batch' = [w \in Workers |-> <<>>]
      /\ evicted' = [w \in Workers |-> {}]
      /\ clearing' = NoneClearing
  BY DEF Crash
<1>2. NoSilentLoss'
  <2>1. /\ NoSilentLoss
        /\ \A j \in Kind : Settled(j) \subseteq Settled(j)' /\ lost'[j] \subseteq Settled(j)'
    BY <1>1 DEF LossInv, Settled
  <2>2. \A j \in Kind : \A n \in volatile[j] : n \in InMemory(j) => n \in lost'[j]
    BY <1>1
  <2>3. QED
    BY <1>0, <1>1, <2>1, <2>2, LossStep
<1>3. WorkerShape' /\ DeletesSettled'
  BY <1>1 DEF WorkerShape, DeletesSettled
<1>4. QED
  BY <1>1, <1>2, <1>3 DEF LossCore

(* Without a budget for clear_buffer it is never called.                   *)
LEMMA NoClear ==
  ASSUME LossInv, Budget.clears = 0
  PROVE  ~ClearMemory /\ \A k \in Kind : ~ClearNamespace(k)
<1>1. used["clears"] \in Nat /\ Budget["clears"] = 0
  BY DEF LossInv, TypeOK, CounterType, Cost
<1>2. ~Spend("clears")
  BY <1>1 DEF Spend
<1>3. QED
  BY <1>2 DEF LossInv, NoneClearing, ClearMemory, ClearNamespace

(* The invariant over a step that touches no record.                       *)
LEMMA QuietStep ==
  ASSUME LossInv, UNCHANGED QuietVars, UNCHANGED pc
  PROVE  LossCore'
BY QuietLoss, QuietWorkers DEF LossInv, LossCore

(* The invariant over a permit's steps that touch no record.               *)
LEMMA QuietMoveStep ==
  ASSUME LossInv, NEW w \in Workers,
         \/ FlushTick(w) \/ RunSpawned(w) \/ FlushBuffer(w) \/ FinalFlush(w)
         \/ FlushIfNeeded(w) \/ Backoff(w)
  PROVE  LossCore'
<1>1. UNCHANGED QuietVars
  BY DEF QuietVars, FlushTick, RunSpawned, FlushBuffer, FinalFlush, Acquire,
         FlushIfNeeded, Backoff
<1>2. \E to : /\ pc' = [pc EXCEPT ![w] = to]
              /\ \/ pc[w] \in {"idle", "need"} /\ to \in {"idle", "need", "gate"}
                 \/ pc[w] = "backoff" /\ to = "forget"
  BY DEF FlushTick, RunSpawned, FlushBuffer, FinalFlush, Acquire, FlushIfNeeded, Backoff
<1>3. WorkerShape' /\ DeletesSettled' /\ clearing' = NoneClearing
  BY <1>1, <1>2, QuietMove DEF LossInv, TypeOK
<1>4. QED
  BY <1>1, <1>3, QuietLoss DEF LossInv, LossCore

(* Every step but clear_buffer's keeps the inductive invariant.            *)
LEMMA StepLoss ==
  ASSUME Budget.clears = 0, LossInv, [Next]_vars
  PROVE  LossInv'
<1>0. TypeOK'
  BY StepType DEF LossInv
<1>1. ASSUME NEW c \in Callers, NEW k \in Kind, Submit(c, k) \/ Reject(c, k)
      PROVE  LossCore'
  <2>1. UNCHANGED QuietVars /\ UNCHANGED pc
    BY <1>1 DEF QuietVars, Submit, Reject
  <2>2. QED
    BY <2>1, QuietStep
<1>2. ASSUME NEW c \in Callers, NEW k \in Kind, Insert(c, k) \/ EvictOldest(c, k)
      PROVE  LossCore'
  BY <1>0, <1>2, InsertLoss, EvictOldestLoss
<1>3. ASSUME NEW w \in Workers,
             \/ FlushTick(w) \/ RunSpawned(w) \/ FlushBuffer(w) \/ FinalFlush(w)
             \/ FlushIfNeeded(w) \/ Backoff(w)
      PROVE  LossCore'
  BY <1>3, QuietMoveStep
<1>4. ASSUME NEW w \in Workers,
             \/ ReadGate(w) \/ Drain(w) \/ SendBatch(w) \/ ConfirmKeys(w)
             \/ AccountAccepted(w) \/ ConfirmDropped(w) \/ Requeue(w) \/ ForgetEvicted(w)
      PROVE  LossCore'
  BY <1>0, <1>4, ReadGateLoss, DrainLoss, SendBatchLoss, ConfirmKeysLoss, ReleaseLoss,
     RequeueLoss, ForgetEvictedLoss
<1>5. ASSUME \/ SpawnedSkips \/ AttachRedisHandler \/ Start \/ ConnectRedis
             \/ ReloadBegin \/ ReloadList \/ ReloadSkip \/ ReloadDone \/ Stop
             \/ IntervalElapses \/ UNCHANGED vars
      PROVE  LossCore'
  <2>1. UNCHANGED QuietVars /\ UNCHANGED pc
    BY <1>5 DEF QuietVars, SpawnedSkips, AttachRedisHandler, Start, ConnectRedis, ReloadBegin,
                ReloadList, ReloadSkip, ReloadDone, Stop, IntervalElapses
  <2>2. QED
    BY <2>1, QuietStep
<1>6. ASSUME ReloadKey PROVE LossCore'
  BY <1>0, <1>6, ReloadKeyLoss
<1>7. ASSUME ClearMemory \/ \E k \in Kind : ClearNamespace(k) PROVE LossCore'
  BY <1>7, NoClear
<1>8. ASSUME NEW k \in Kind, GateExpires(k) PROVE LossCore'
  <2>1. UNCHANGED QuietVars /\ UNCHANGED pc
    BY <1>8 DEF QuietVars, GateExpires
  <2>2. QED
    BY <2>1, QuietStep
<1>9. ASSUME NEW k \in Kind, NEW n \in store[k], Expire(k, n) PROVE LossCore'
  BY <1>0, <1>9, ExpireLoss
<1>10. ASSUME Crash PROVE LossCore'
  BY <1>0, <1>10, CrashLoss
<1>11. LossCore'
  BY <1>1, <1>2, <1>3, <1>4, <1>5, <1>6, <1>7, <1>8, <1>9, <1>10
     DEF Next, Ingest, FlushStep, Lifecycle, Environment
<1>12. QED
  BY <1>0, <1>11 DEF LossInv, LossCore

(* Nothing is accepted at first.                                           *)
LEMMA InitLoss == Init => LossInv
<1> SUFFICES ASSUME Init PROVE LossInv
  OBVIOUS
<1>1. NoSilentLoss
  BY DEF Init, NoSilentLoss
<1>2. WorkerShape /\ DeletesSettled /\ clearing = NoneClearing
  BY DEF Init, WorkerShape, DeletesSettled
<1>3. QED
  BY <1>1, <1>2, InitType DEF LossInv

(* As long as clear_buffer is not called, every record a send_* call ever  *)
(* accepted stays accounted for: through concurrent flushes, failed and    *)
(* half-delivered sends, store errors, expiry, stops, restarts and         *)
(* crashes, for every number of callers and permits and every budget.      *)
THEOREM NothingLostSilently ==
  ASSUME Budget.clears = 0
  PROVE  Spec => []NoSilentLoss
<1>1. LossInv /\ [Next]_vars => LossInv'
  BY StepLoss
<1>2. LossInv => NoSilentLoss
  BY DEF LossInv
<1>3. QED
  BY <1>1, <1>2, InitLoss, PTL DEF Spec

-----------------------------------------------------------------------------
(* Delivery.                                                               *)

(* Records of kind k in the batches of the permits other than w.           *)
Elsewhere(w, k) == UNION {Ids(batch[v]) : v \in {u \in Workers \ {w} : wkind[u] = k}}

InHand(w, k) == IF wkind[w] = k THEN Ids(batch[w]) ELSE {}

(* A step of permit w changes memory in the queues and in its own batch.   *)
LEMMA WorkerMemory ==
  ASSUME NEW w \in Workers,
         \A v \in Workers \ {w} : wkind'[v] = wkind[v] /\ batch'[v] = batch[v]
  PROVE  \A k \in Kind :
            /\ InMemory(k) = Ids(buffer[k]) \cup InHand(w, k) \cup Elsewhere(w, k)
            /\ InMemory(k)' = Ids(buffer'[k]) \cup InHand(w, k)' \cup Elsewhere(w, k)
<1> TAKE k \in Kind
<1>1. \A n : n \in InMemory(k) <=> n \in Ids(buffer[k]) \cup InHand(w, k) \cup Elsewhere(w, k)
  BY InMemoryMember DEF InHand, Elsewhere
<1>2. \A n : n \in InMemory(k)' <=> n \in Ids(buffer'[k]) \cup InHand(w, k)' \cup Elsewhere(w, k)
  BY InMemoryMemberNext DEF InHand, Elsewhere
<1>3. QED
  BY <1>1, <1>2

(* Everything held was accepted, and what is lost was volatile: with       *)
(* LossInv, what a crash must be able to rely on.                          *)
DeliveryInv ==
    /\ LossInv
    /\ \A k \in Kind : Held(k) \subseteq 1..accepted[k] /\ lost[k] \subseteq volatile[k]

(* What a step means to Delivery.                                          *)
Stays ==
    /\ \A k \in Kind : Held(k)' = Held(k)
    /\ UNCHANGED <<accepted, volatile, delivered, discarded, lost>>
    /\ used'["crashes"] = used["crashes"]

Settles(k) ==
    /\ \E got, out \in SUBSET Held(k) :
          /\ delivered' = [delivered EXCEPT ![k] = @ \cup got]
          /\ discarded' = [discarded EXCEPT ![k] = @ \cup out]
    /\ \A j \in Kind : Held(j)' \subseteq Held(j) /\ (j # k => Held(j)' = Held(j))
    /\ Held(k) \ Held(k)' \subseteq delivered'[k] \cup discarded'[k]
    /\ UNCHANGED <<accepted, volatile, lost>>
    /\ used'["crashes"] = used["crashes"]

(* A fault spends no crash.                                                *)
LEMMA FaultNoCrash ==
  ASSUME TypeOK, Spend("faults") \/ Spend("failures") \/ Spend("stops")
                    \/ Spend("restarts") \/ UNCHANGED used
  PROVE  used'["crashes"] = used["crashes"]
BY DEF TypeOK, CounterType, Cost, Spend

(* Nor does a deletion, which takes at most the keys it is given.          *)
LEMMA DeleteNoCrash ==
  ASSUME TypeOK, NEW k \in Kind, NEW keys, DeleteKeys(k, keys)
  PROVE  used'["crashes"] = used["crashes"]
BY FaultNoCrash DEF DeleteKeys

(* Leaving the fates alone is settling nothing more.                       *)
LEMMA SettlesOnly ==
  ASSUME TypeOK, NEW k \in Kind, UNCHANGED <<accepted, delivered, discarded, volatile, lost>>,
         \A j \in Kind : Held(j)' \subseteq Held(j) /\ (j # k => Held(j)' = Held(j)),
         Held(k) \ Held(k)' \subseteq delivered[k] \cup discarded[k],
         used'["crashes"] = used["crashes"]
  PROVE  Settles(k)
<1>1. /\ delivered' = [delivered EXCEPT ![k] = @ \cup {}]
      /\ discarded' = [discarded EXCEPT ![k] = @ \cup {}]
  BY DEF TypeOK, RecordType
<1>2. {} \in SUBSET Held(k)
  OBVIOUS
<1>3. QED
  BY <1>1, <1>2 DEF Settles

-----------------------------------------------------------------------------
(* Steps that hold what they held.                                         *)

(* A step that moves no record.                                            *)
LEMMA QuietHeld ==
  ASSUME UNCHANGED <<buffer, batch, wkind, store>>
  PROVE  \A k \in Kind : Held(k)' = Held(k)
BY DEF Held, InMemory

(* The callers' and the program's steps that move no record.               *)
LEMMA QuietStays ==
  ASSUME LossInv,
         \/ \E c \in Callers, k \in Kind : Submit(c, k) \/ Reject(c, k)
         \/ \E w \in Workers : \/ FlushTick(w) \/ RunSpawned(w) \/ FlushBuffer(w)
                               \/ FinalFlush(w) \/ FlushIfNeeded(w) \/ Backoff(w)
         \/ SpawnedSkips \/ AttachRedisHandler \/ Start \/ ConnectRedis
         \/ ReloadBegin \/ ReloadList \/ ReloadSkip \/ ReloadDone \/ Stop
         \/ IntervalElapses \/ UNCHANGED vars
         \/ \E k \in Kind : GateExpires(k)
  PROVE  Stays
<1>1. UNCHANGED <<buffer, batch, wkind, store, accepted, volatile, delivered, discarded, lost>>
  BY DEF Submit, Reject, FlushTick, RunSpawned, FlushBuffer, FinalFlush, Acquire, FlushIfNeeded,
         Backoff, SpawnedSkips, AttachRedisHandler, Start, ConnectRedis, ReloadBegin, ReloadList,
         ReloadSkip, ReloadDone, Stop, IntervalElapses, GateExpires
<1>2. Spend("faults") \/ Spend("failures") \/ Spend("stops") \/ Spend("restarts") \/ UNCHANGED used
  BY DEF Submit, Reject, FlushTick, RunSpawned, FlushBuffer, FinalFlush, Acquire, FlushIfNeeded,
         Backoff, SpawnedSkips, AttachRedisHandler, Start, ConnectRedis, ReloadBegin, ReloadList,
         ReloadSkip, ReloadDone, Stop, IntervalElapses, GateExpires
<1>3. QED
  BY <1>1, <1>2, QuietHeld, FaultNoCrash DEF Stays, LossInv

(* Reading the gate may change the kind of a permit that holds nothing.    *)
LEMMA ReadGateStays ==
  ASSUME LossInv, NEW w \in Workers, ReadGate(w)
  PROVE  Stays
<1>1. /\ pc[w] = "gate"
      /\ UNCHANGED <<buffer, batch, store, accepted, volatile, delivered, discarded, lost, used>>
  BY DEF ReadGate
<1>2. batch[w] = <<>> /\ Ids(batch[w]) = {} /\ Ids(batch'[w]) = {}
  BY <1>1, NoIds DEF LossInv, WorkerShape
<1>3. \A v \in Workers \ {w} : wkind'[v] = wkind[v] /\ batch'[v] = batch[v]
  BY <1>1, EndKindEffect DEF ReadGate, LossInv, TypeOK, ControlType
<1>4. \A k \in Kind : InMemory(k)' = InMemory(k)
  <2>1. \A k \in Kind : InHand(w, k) = {} /\ InHand(w, k)' = {}
    BY <1>2 DEF InHand
  <2>2. QED
    BY <1>1, <1>3, <2>1, WorkerMemory
<1>5. QED
  BY <1>1, <1>4 DEF Stays, Held

(* A drain moves the queue into the batch.                                 *)
LEMMA DrainStays ==
  ASSUME LossInv, NEW w \in Workers, Drain(w)
  PROVE  Stays
<1> DEFINE k == wkind[w]
<1>0. ItemType /\ ControlType /\ k \in Kind
  BY DEF LossInv, TypeOK, ControlType
<1>1. /\ pc[w] = "drain"
      /\ buffer' = [buffer EXCEPT ![k] = <<>>]
      /\ batch' = [batch EXCEPT ![w] = buffer[k]]
      /\ UNCHANGED <<store, accepted, delivered, discarded, volatile, lost, used>>
  BY DEF Drain, LeftByDrain
<1>2. Ids(batch[w]) = {}
  BY <1>1, NoIds DEF LossInv, WorkerShape
<1>3. \A v \in Workers \ {w} : wkind'[v] = wkind[v] /\ batch'[v] = batch[v]
  BY <1>0, <1>1, EndKindEffect DEF Drain, ControlType, ItemType
<1>4. buffer[k] = <<>> \/ wkind'[w] = k
  BY DEF Drain
<1>5. /\ batch'[w] = buffer[k] /\ buffer'[k] = <<>>
      /\ \A j \in Kind : j # k => buffer'[j] = buffer[j]
  BY <1>0, <1>1 DEF ItemType
<1> HIDE DEF k
<1>6. ASSUME NEW j \in Kind PROVE InMemory(j)' = InMemory(j)
  <2>1. /\ InMemory(j) = Ids(buffer[j]) \cup Elsewhere(w, j)
        /\ InMemory(j)' = Ids(buffer'[j]) \cup InHand(w, j)' \cup Elsewhere(w, j)
    BY <1>2, <1>3, WorkerMemory DEF InHand
  <2>2. InHand(w, j)' = IF wkind'[w] = j THEN Ids(buffer[k]) ELSE {}
    BY <1>5 DEF InHand
  <2>3. CASE buffer[k] = <<>>
    BY <1>5, <2>1, <2>2, <2>3, NoIds
  <2>4. CASE wkind'[w] = k
    BY <1>5, <2>1, <2>2, <2>4, NoIds
  <2>5. QED
    BY <1>4, <2>3, <2>4
<1>7. QED
  BY <1>1, <1>6 DEF Stays, Held

(* The keys of a confirmed batch go while the batch is still in hand.      *)
LEMMA ConfirmKeysStays ==
  ASSUME LossInv, NEW w \in Workers, ConfirmKeys(w)
  PROVE  Stays
<1>0. TypeOK /\ RecordType /\ wkind[w] \in Kind
  BY DEF LossInv, TypeOK, ControlType
<1>1. /\ DeleteKeys(wkind[w], LiveKeys(batch[w]))
      /\ UNCHANGED <<buffer, batch, wkind, accepted, volatile, delivered, discarded, lost>>
  BY DEF ConfirmKeys
<1>2. \A k \in Kind : /\ store'[k] \subseteq store[k]
                      /\ store[k] \ store'[k] \subseteq IF k = wkind[w] THEN Ids(batch[w]) ELSE {}
  BY <1>0, <1>1, DeleteKeysEffect, LiveAreIds DEF RecordType
<1>3. \A k \in Kind : /\ InMemory(k)' = InMemory(k)
                      /\ k = wkind[w] => Ids(batch[w]) \subseteq InMemory(k)
  BY <1>1 DEF InMemory
<1>4. \A k \in Kind : Held(k)' = Held(k)
  BY <1>2, <1>3 DEF Held
<1>5. QED
  BY <1>0, <1>1, <1>4, DeleteNoCrash DEF Stays

-----------------------------------------------------------------------------
(* Steps that settle records.                                              *)

(* An eviction discards the oldest record.                                 *)
LEMMA EvictSettles ==
  ASSUME LossInv, NEW c \in Callers, NEW k \in Kind, EvictOldest(c, k)
  PROVE  Settles(k)
<1> DEFINE gone == Head(buffer[k]).id
<1>0. TypeOK /\ ItemType /\ RecordType
  BY DEF LossInv, TypeOK
<1>1. buffer[k] # <<>> /\ buffer[k] \in Seq(BufferedItem)
  BY <1>0, SizeAssumption DEF ItemType, EvictOldest, HasRoom
<1>2. /\ Ids(buffer[k]) = {gone} \cup Ids(buffer'[k])
      /\ \A j \in Kind : j # k => buffer'[j] = buffer[j]
  BY <1>0, <1>1, TailItems DEF EvictOldest, ItemType
<1>3. /\ UNCHANGED <<batch, wkind, delivered, volatile, lost, accepted>>
      /\ discarded' = [discarded EXCEPT ![k] = @ \cup {gone}]
      /\ DeleteKeys(k, LiveKeys(<<Head(buffer[k])>>))
  BY DEF EvictOldest
<1>4. LiveKeys(<<Head(buffer[k])>>) \subseteq {gone}
  <2>1. Ids(<<Head(buffer[k])>>) = {gone}
    BY DEF Ids
  <2>2. QED
    BY <2>1, LiveAreIds
<1>5. \A j \in Kind : /\ store'[j] \subseteq store[j]
                      /\ store[j] \ store'[j] \subseteq IF j = k THEN {gone} ELSE {}
  BY <1>0, <1>3, <1>4, DeleteKeysEffect DEF RecordType
<1>6. used'["crashes"] = used["crashes"]
  BY <1>0, <1>3, DeleteNoCrash
<1> HIDE DEF gone
<1>7. \A j \in Kind : /\ InMemory(j)' \subseteq InMemory(j)
                      /\ InMemory(j) \ InMemory(j)' \subseteq IF j = k THEN {gone} ELSE {}
  BY <1>2, <1>3, InMemoryMember, InMemoryMemberNext
<1>8. \A j \in Kind : /\ Held(j)' \subseteq Held(j)
                      /\ Held(j) \ Held(j)' \subseteq IF j = k THEN {gone} ELSE {}
  BY <1>5, <1>7 DEF Held
<1>9. {gone} \in SUBSET Held(k) /\ {} \in SUBSET Held(k)
  BY <1>2, InMemoryMember DEF Held
<1>10. delivered' = [delivered EXCEPT ![k] = @ \cup {}] /\ gone \in discarded'[k]
  BY <1>0, <1>3 DEF RecordType
<1>11. QED
  BY <1>3, <1>6, <1>8, <1>9, <1>10 DEF Settles

(* The server takes or refuses records that stay in hand.                  *)
LEMMA SendSettles ==
  ASSUME LossInv, NEW w \in Workers, SendBatch(w)
  PROVE  Settles(wkind[w])
<1> DEFINE k == wkind[w]
<1>0. TypeOK /\ RecordType /\ k \in Kind
  BY DEF LossInv, TypeOK, ControlType
<1>1. UNCHANGED <<buffer, batch, wkind, store, accepted, volatile, lost>>
  BY DEF SendBatch
<1>2. \E got, out \in SUBSET Ids(batch[w]) :
        /\ delivered' = [delivered EXCEPT ![k] = @ \cup got]
        /\ discarded' = [discarded EXCEPT ![k] = @ \cup out]
  <2>1. CASE SendAccepted(w) \/ SendPermanentDrop(w)
    BY <2>1 DEF SendAccepted, SendPermanentDrop
  <2>2. CASE SendFailed(w)
    <3>1. discarded' = [discarded EXCEPT ![k] = @ \cup {}] /\ {} \in SUBSET Ids(batch[w])
      BY <1>0, <2>2 DEF SendFailed, RecordType
    <3>2. QED
      BY <2>2, <3>1 DEF SendFailed
  <2>3. QED
    BY <2>1, <2>2 DEF SendBatch
<1>3. used'["crashes"] = used["crashes"]
  BY <1>0, FaultNoCrash DEF SendBatch, SendAccepted, SendPermanentDrop, SendFailed
<1>4. Ids(batch[w]) \subseteq Held(k)
  BY DEF Held, InMemory
<1>5. \A j \in Kind : Held(j)' = Held(j)
  BY <1>1, QuietHeld
<1> HIDE DEF k
<1>6. QED
  BY <1>0, <1>1, <1>2, <1>3, <1>4, <1>5 DEF Settles, k

(* A confirmed batch is let go of: its records are settled.                *)
LEMMA ReleaseSettles ==
  ASSUME LossInv, NEW w \in Workers, AccountAccepted(w) \/ ConfirmDropped(w)
  PROVE  Settles(wkind[w])
<1> DEFINE k == wkind[w]
<1>0. TypeOK /\ ItemType /\ ControlType /\ RecordType /\ k \in Kind
  BY DEF LossInv, TypeOK, ControlType
<1>1. /\ pc[w] \in {"account", "confirmDrop"}
      /\ batch' = [batch EXCEPT ![w] = <<>>]
      /\ EndKind(w)
      /\ UNCHANGED <<buffer, accepted, delivered, discarded, volatile, lost>>
      /\ (UNCHANGED <<store, used>>) \/ DeleteKeys(k, LiveKeys(batch[w]))
  BY DEF AccountAccepted, ConfirmDropped
<1>2. Ids(batch[w]) \subseteq delivered[k] \cup discarded[k]
  BY <1>1 DEF LossInv, DeletesSettled
<1>3. \A j \in Kind : /\ store'[j] \subseteq store[j]
                      /\ store[j] \ store'[j] \subseteq IF j = k THEN Ids(batch[w]) ELSE {}
  BY <1>0, <1>1, DeleteKeysEffect, LiveAreIds DEF RecordType
<1>4. used'["crashes"] = used["crashes"]
  BY <1>0, <1>1, DeleteNoCrash
<1>5. /\ batch'[w] = <<>>
      /\ \A v \in Workers \ {w} : wkind'[v] = wkind[v] /\ batch'[v] = batch[v]
  BY <1>0, <1>1, EndKindEffect DEF ItemType
<1>6. \A j \in Kind : /\ InMemory(j) = Ids(buffer[j]) \cup InHand(w, j) \cup Elsewhere(w, j)
                      /\ InMemory(j)' = Ids(buffer[j]) \cup Elsewhere(w, j)
                      /\ InHand(w, j) = IF j = k THEN Ids(batch[w]) ELSE {}
  BY <1>1, <1>5, WorkerMemory, NoIds DEF InHand
<1>7. \A j \in Kind : /\ Held(j)' \subseteq Held(j)
                      /\ Held(j) \ Held(j)' \subseteq IF j = k THEN Ids(batch[w]) ELSE {}
  BY <1>3, <1>6 DEF Held
<1> HIDE DEF k
<1>8. QED
  BY <1>0, <1>1, <1>2, <1>4, <1>7, SettlesOnly DEF k

(* A requeue discards what does not fit.                                   *)
LEMMA RequeueSettles ==
  ASSUME LossInv, NEW w \in Workers, Requeue(w)
  PROVE  Settles(wkind[w])
<1> DEFINE k == wkind[w]
           out == Overflow(batch[w], buffer[k])
           kept == Kept(batch[w], buffer[k])
<1>0. TypeOK /\ ItemType /\ ControlType /\ RecordType /\ k \in Kind
  BY DEF LossInv, TypeOK, ControlType
<1>1. /\ buffer' = [buffer EXCEPT ![k] = kept]
      /\ discarded' = [discarded EXCEPT ![k] = @ \cup Ids(out)]
      /\ batch' = [batch EXCEPT ![w] = <<>>]
      /\ UNCHANGED <<wkind, store, accepted, delivered, volatile, lost, used>>
  BY DEF Requeue
<1>2. Ids(batch[w]) \cup Ids(buffer[k]) = Ids(kept) \cup Ids(out)
  BY <1>0, RequeueSplit DEF ItemType
<1> HIDE DEF out, kept
<1>3. /\ batch'[w] = <<>> /\ buffer'[k] = kept
      /\ \A j \in Kind : j # k => buffer'[j] = buffer[j]
      /\ \A v \in Workers \ {w} : wkind'[v] = wkind[v] /\ batch'[v] = batch[v]
  BY <1>0, <1>1 DEF ItemType
<1>4. \A j \in Kind : /\ InMemory(j) = Ids(buffer[j]) \cup InHand(w, j) \cup Elsewhere(w, j)
                      /\ InMemory(j)' = Ids(buffer'[j]) \cup Elsewhere(w, j)
                      /\ InHand(w, j) = IF j = k THEN Ids(batch[w]) ELSE {}
  BY <1>3, WorkerMemory, NoIds DEF InHand
<1> HIDE DEF k
<1>5. \A j \in Kind : /\ Held(j)' \subseteq Held(j)
                      /\ Held(j) \ Held(j)' \subseteq IF j = k THEN Ids(out) ELSE {}
  <2> TAKE j \in Kind
  <2>1. CASE j = k
    BY <1>1, <1>2, <1>3, <1>4, <2>1 DEF Held
  <2>2. CASE j # k
    BY <1>1, <1>3, <1>4, <2>2 DEF Held
  <2>3. QED
    BY <2>1, <2>2
<1>6. Ids(out) \in SUBSET Held(k) /\ {} \in SUBSET Held(k)
  BY <1>0, <1>2, <1>4 DEF Held
<1>7. delivered' = [delivered EXCEPT ![k] = @ \cup {}] /\ Ids(out) \subseteq discarded'[k]
  BY <1>0, <1>1 DEF RecordType
<1>8. QED
  BY <1>0, <1>1, <1>5, <1>6, <1>7 DEF Settles, k

(* The keys of evicted records belong to records already discarded.        *)
LEMMA ForgetSettles ==
  ASSUME LossInv, NEW w \in Workers, ForgetEvicted(w)
  PROVE  Settles(wkind[w])
<1> DEFINE k == wkind[w]
<1>0. TypeOK /\ ControlType /\ RecordType /\ k \in Kind
  BY DEF LossInv, TypeOK, ControlType
<1>1. /\ pc[w] = "forget"
      /\ DeleteKeys(k, evicted[w])
      /\ EndKind(w)
      /\ UNCHANGED <<buffer, batch, accepted, delivered, discarded, volatile, lost>>
  BY DEF ForgetEvicted
<1>2. evicted[w] \subseteq discarded[k] /\ Ids(batch[w]) = {}
  BY <1>1, NoIds DEF LossInv, DeletesSettled, WorkerShape
<1>3. \A j \in Kind : /\ store'[j] \subseteq store[j]
                      /\ store[j] \ store'[j] \subseteq IF j = k THEN evicted[w] ELSE {}
  BY <1>0, <1>1, DeleteKeysEffect DEF RecordType
<1>4. \A v \in Workers \ {w} : wkind'[v] = wkind[v] /\ batch'[v] = batch[v]
  BY <1>0, <1>1, EndKindEffect
<1>5. \A j \in Kind : InMemory(j)' = InMemory(j)
  <2>1. \A j \in Kind : InHand(w, j) = {} /\ InHand(w, j)' = {}
    BY <1>1, <1>2 DEF InHand
  <2>2. QED
    BY <1>1, <1>4, <2>1, WorkerMemory
<1>6. used'["crashes"] = used["crashes"]
  BY <1>0, <1>1, DeleteNoCrash
<1>7. \A j \in Kind : /\ Held(j)' \subseteq Held(j)
                      /\ Held(j) \ Held(j)' \subseteq IF j = k THEN evicted[w] ELSE {}
  BY <1>3, <1>5 DEF Held
<1> HIDE DEF k
<1>8. QED
  BY <1>0, <1>1, <1>2, <1>6, <1>7, SettlesOnly DEF k

(* A reload brings a stored record back to memory and may push the oldest  *)
(* one out.                                                                *)
LEMMA ReloadSettles ==
  ASSUME LossInv, ReloadKey
  PROVE  Settles(loadKind)
<1> DEFINE r == Min(toLoad)
           rest == IF HasRoom(loadKind) THEN buffer[loadKind] ELSE Tail(buffer[loadKind])
           out == IF HasRoom(loadKind) THEN <<>> ELSE <<Head(buffer[loadKind])>>
           item == [id |-> r, keyed |-> TRUE]
<1>0. TypeOK /\ ItemType /\ ControlType /\ RecordType
  BY DEF LossInv, TypeOK
<1>k. PICK k \in Kind : k = loadKind
  BY <1>0 DEF ControlType
<1>1. r \in store[k] /\ r \in RecordId /\ item \in BufferedItem /\ item.id = r
      /\ buffer[k] \in Seq(BufferedItem)
  BY <1>0, <1>k DEF ItemType, RecordType, ReloadKey, GetKey, BufferedItem
<1>2. rest \in Seq(BufferedItem) /\ Ids(buffer[k]) = Ids(rest) \cup Ids(out)
  <2>1. CASE HasRoom(k)
    BY <1>1, <1>k, <2>1, NoIds
  <2>2. CASE ~HasRoom(k)
    <3>1. buffer[k] # <<>>
      BY <1>1, <2>2, SizeAssumption DEF HasRoom
    <3>2. Ids(<<Head(buffer[k])>>) = {Head(buffer[k]).id}
      BY DEF Ids
    <3>3. QED
      BY <1>1, <1>k, <2>2, <3>1, <3>2, TailItems
  <2>3. QED
    BY <2>1, <2>2
<1>3. LiveKeys(out) \subseteq Ids(out)
  BY LiveAreIds
<1>4. /\ DeleteKeys(k, LiveKeys(out))
      /\ buffer' = [buffer EXCEPT ![k] = Append(rest, item)]
      /\ discarded' = [discarded EXCEPT ![k] = @ \cup Ids(out)]
      /\ UNCHANGED <<batch, wkind, accepted, delivered, volatile, lost>>
  BY <1>k DEF ReloadKey, GetKey
<1> HIDE DEF r, rest, out, item
<1>5. /\ Ids(buffer'[k]) = Ids(rest) \cup {r}
      /\ \A j \in Kind : j # k => buffer'[j] = buffer[j]
  BY <1>0, <1>1, <1>2, <1>4, AppendItem DEF ItemType
<1>6. \A j \in Kind : /\ store'[j] \subseteq store[j]
                      /\ store[j] \ store'[j] \subseteq IF j = k THEN Ids(out) ELSE {}
  BY <1>0, <1>3, <1>4, DeleteKeysEffect DEF RecordType
<1>7. used'["crashes"] = used["crashes"]
  BY <1>0, <1>4, DeleteNoCrash
<1>8. \A j \in Kind :
         /\ InMemory(j)' \subseteq InMemory(j) \cup IF j = k THEN {r} ELSE {}
         /\ InMemory(j) \ InMemory(j)' \subseteq IF j = k THEN Ids(out) ELSE {}
  BY <1>2, <1>4, <1>5, InMemoryMember, InMemoryMemberNext
<1>9. \A j \in Kind : /\ Held(j)' \subseteq Held(j)
                      /\ Held(j) \ Held(j)' \subseteq IF j = k THEN Ids(out) ELSE {}
  BY <1>1, <1>6, <1>8 DEF Held
<1>10. Ids(out) \in SUBSET Held(k) /\ {} \in SUBSET Held(k)
  BY <1>2, InMemoryMember DEF Held
<1>11. delivered' = [delivered EXCEPT ![k] = @ \cup {}] /\ Ids(out) \subseteq discarded'[k]
  BY <1>0, <1>4 DEF RecordType
<1>12. Settles(k)
  BY <1>4, <1>7, <1>9, <1>10, <1>11 DEF Settles
<1>13. QED
  BY <1>k, <1>12
-----------------------------------------------------------------------------
(* Steps that change what is held in other ways.                           *)

(* Leaving memory alone except for a record that is new.                   *)
Accepts(k) ==
    LET n == accepted[k] + 1 IN
    /\ accepted' = [accepted EXCEPT ![k] = n]
    /\ Held(k)' = Held(k) \cup {n}
    /\ \A j \in Kind : j # k => Held(j)' = Held(j)
    /\ volatile' \in {volatile, [volatile EXCEPT ![k] = @ \cup {n}]}
    /\ UNCHANGED <<delivered, discarded, lost>>
    /\ used'["crashes"] = used["crashes"]

(* An insert accepts one record.                                           *)
LEMMA InsertAccepts ==
  ASSUME LossInv, NEW c \in Callers, NEW k \in Kind, Insert(c, k)
  PROVE  Accepts(k)
<1>0. TypeOK /\ ItemType /\ RecordType
  BY DEF LossInv, TypeOK
<1>1. PICK keyed \in BOOLEAN :
        /\ PersistItem(k, accepted[k] + 1, keyed)
        /\ buffer' = [buffer EXCEPT ![k] =
                         Append(@, [id |-> accepted[k] + 1, keyed |-> keyed])]
  BY DEF Insert
<1> DEFINE n == accepted[k] + 1
           item == [id |-> n, keyed |-> keyed]
<1>2. n \in RecordId /\ item \in BufferedItem /\ item.id = n
  BY <1>0 DEF RecordType, RecordId, BufferedItem
<1>3. \A j \in Kind : Ids(buffer'[j]) = Ids(buffer[j]) \cup IF j = k THEN {n} ELSE {}
  BY <1>0, <1>1, <1>2, AppendItem DEF ItemType
<1>4. UNCHANGED <<batch, wkind, delivered, discarded, lost>> /\ accepted' = [accepted EXCEPT ![k] = n]
  BY <1>0 DEF Insert, RecordType
<1>5. /\ \A j \in Kind : /\ store[j] \subseteq store'[j]
                         /\ store'[j] \subseteq store[j] \cup IF j = k THEN {n} ELSE {}
      /\ volatile' \in {volatile, [volatile EXCEPT ![k] = @ \cup {n}]}
      /\ Spend("faults") \/ UNCHANGED used
  BY <1>0, <1>1 DEF PersistItem, SetKey, RecordType
<1>6. used'["crashes"] = used["crashes"]
  BY <1>0, <1>5, FaultNoCrash
<1> HIDE DEF n, item
<1>7. \A j \in Kind : InMemory(j)' = InMemory(j) \cup IF j = k THEN {n} ELSE {}
  <2> TAKE j \in Kind
  <2>1. \A m : m \in InMemory(j)' <=> m \in InMemory(j) \cup IF j = k THEN {n} ELSE {}
    BY <1>3, <1>4, InMemoryMember, InMemoryMemberNext
  <2>2. QED
    BY <2>1
<1>8. \A j \in Kind : Held(j)' = Held(j) \cup IF j = k THEN {n} ELSE {}
  BY <1>5, <1>7 DEF Held
<1>9. QED
  BY <1>4, <1>5, <1>6, <1>8 DEF Accepts, n

(* The TTL of a stored record passes.                                      *)
Expires(k, n) ==
    /\ n \in Held(k)
    /\ volatile' = [volatile EXCEPT ![k] = @ \cup {n}]
    /\ Held(k)' \in {Held(k), Held(k) \ {n}}
    /\ \A j \in Kind : j # k => Held(j)' = Held(j)
    /\ \A j \in Kind : lost'[j] \subseteq lost[j] \cup IF j = k THEN {n} ELSE {}
    /\ UNCHANGED <<accepted, delivered, discarded>>
    /\ used'["crashes"] = used["crashes"]

(* Expiry takes a record that no queue or batch holds from the agent.      *)
LEMMA ExpireExpires ==
  ASSUME LossInv, NEW k \in Kind, NEW n \in store[k], Expire(k, n)
  PROVE  Expires(k, n)
<1>0. TypeOK /\ RecordType
  BY DEF LossInv, TypeOK
<1>1. /\ UNCHANGED <<buffer, batch, wkind, accepted, delivered, discarded>>
      /\ store' = [store EXCEPT ![k] = @ \ {n}]
      /\ volatile' = [volatile EXCEPT ![k] = @ \cup {n}]
      /\ Spend("faults")
  BY DEF Expire
<1>2. \A j \in Kind : /\ InMemory(j)' = InMemory(j)
                      /\ store'[j] = IF j = k THEN store[j] \ {n} ELSE store[j]
                      /\ lost'[j] \subseteq lost[j] \cup IF j = k THEN {n} ELSE {}
  <2>1. \A j \in Kind : InMemory(j)' = InMemory(j)
    BY <1>1 DEF InMemory
  <2>2. \A j \in Kind : store'[j] = IF j = k THEN store[j] \ {n} ELSE store[j]
    BY <1>0, <1>1 DEF RecordType
  <2>3. lost' = [lost EXCEPT ![k] = IF n \in InMemory(k) THEN @ ELSE @ \cup {n}]
    BY DEF Expire
  <2>4. \A j \in Kind : lost'[j] \subseteq lost[j] \cup IF j = k THEN {n} ELSE {}
    BY <1>0, <2>3 DEF RecordType
  <2>5. QED
    BY <2>1, <2>2, <2>4
<1>3. Held(k)' \in {Held(k), Held(k) \ {n}} /\ n \in Held(k)
  <2>1. CASE n \in InMemory(k)
    BY <1>2, <2>1 DEF Held
  <2>2. CASE n \notin InMemory(k)
    BY <1>2, <2>2 DEF Held
  <2>3. QED
    BY <2>1, <2>2
<1>4. \A j \in Kind : j # k => Held(j)' = Held(j)
  BY <1>2 DEF Held
<1>5. QED
  BY <1>0, <1>1, <1>2, <1>3, <1>4, FaultNoCrash DEF Expires

(* A crash leaves what is stored.                                          *)
Dies ==
    /\ used'["crashes"] = used["crashes"] + 1
    /\ \A k \in Kind : /\ Held(k)' \subseteq Held(k)
                       /\ Held(k) \ Held(k)' \subseteq
                             volatile[k] \cup delivered[k] \cup discarded[k]
                       /\ lost'[k] \subseteq lost[k] \cup volatile[k]
    /\ UNCHANGED <<accepted, volatile, delivered, discarded>>

(* What a crash takes was accounted for already.                           *)
LEMMA CrashDies ==
  ASSUME DeliveryInv, Crash
  PROVE  Dies
<1>0. TypeOK /\ RecordType /\ NoSilentLoss
  BY DEF DeliveryInv, LossInv, TypeOK
<1>1. /\ UNCHANGED <<store, accepted, delivered, discarded, volatile>>
      /\ lost' = [k \in Kind |-> lost[k] \cup (InMemory(k) \cap volatile[k])]
      /\ buffer' = [k \in Kind |-> <<>>]
      /\ batch' = [w \in Workers |-> <<>>]
      /\ Spend("crashes")
  BY DEF Crash
<1>2. used'["crashes"] = used["crashes"] + 1
  BY <1>0, <1>1 DEF Spend, TypeOK, CounterType, Cost
<1>3. \A k \in Kind : Held(k)' = store[k]
  <2> TAKE k \in Kind
  <2>1. \A n : n \notin InMemory(k)'
    BY <1>1, NoIds, InMemoryMemberNext
  <2>2. QED
    BY <1>1, <2>1 DEF Held
<1>4. ASSUME NEW k \in Kind, NEW n \in Held(k), n \notin store[k]
      PROVE  n \in volatile[k] \cup delivered[k] \cup discarded[k]
  <2>1. n \in 1..accepted[k] /\ lost[k] \subseteq volatile[k]
    BY DEF DeliveryInv
  <2>2. QED
    BY <1>0, <1>4, <2>1 DEF NoSilentLoss
<1>5. QED
  BY <1>1, <1>2, <1>3, <1>4 DEF Dies, Held

-----------------------------------------------------------------------------
(* Every step is one of these.                                             *)
LEMMA StepMeans ==
  ASSUME Budget.clears = 0, DeliveryInv, [Next]_vars
  PROVE  \/ Stays \/ Dies
         \/ \E k \in Kind : Settles(k) \/ Accepts(k) \/ \E n \in store[k] : Expires(k, n)
<1>0. LossInv /\ ControlType
  BY DEF DeliveryInv, LossInv, TypeOK
<1>1. ASSUME NEW c \in Callers, NEW k \in Kind,
             Submit(c, k) \/ Insert(c, k) \/ EvictOldest(c, k) \/ Reject(c, k)
      PROVE  Stays \/ Settles(k) \/ Accepts(k)
  BY <1>0, <1>1, QuietStays, InsertAccepts, EvictSettles
<1>2. ASSUME NEW w \in Workers,
             \/ FlushTick(w) \/ RunSpawned(w) \/ FlushBuffer(w) \/ FinalFlush(w)
             \/ FlushIfNeeded(w) \/ Backoff(w) \/ ReadGate(w) \/ Drain(w) \/ ConfirmKeys(w)
      PROVE  Stays
  BY <1>0, <1>2, QuietStays, ReadGateStays, DrainStays, ConfirmKeysStays
<1>3. ASSUME NEW w \in Workers,
             \/ SendBatch(w) \/ AccountAccepted(w) \/ ConfirmDropped(w) \/ Requeue(w)
             \/ ForgetEvicted(w)
      PROVE  wkind[w] \in Kind /\ Settles(wkind[w])
  BY <1>0, <1>3, SendSettles, ReleaseSettles, RequeueSettles, ForgetSettles DEF ControlType
<1>4. ASSUME \/ SpawnedSkips \/ AttachRedisHandler \/ Start \/ ConnectRedis
             \/ ReloadBegin \/ ReloadList \/ ReloadSkip \/ ReloadDone \/ Stop
             \/ IntervalElapses \/ UNCHANGED vars
      PROVE  Stays
  BY <1>0, <1>4, QuietStays
<1>5. ASSUME ReloadKey PROVE loadKind \in Kind /\ Settles(loadKind)
  BY <1>0, <1>5, ReloadSettles DEF ControlType
<1>6. ~ClearMemory /\ \A k \in Kind : ~ClearNamespace(k)
  BY <1>0, NoClear
<1>7. ASSUME NEW k \in Kind, GateExpires(k) PROVE Stays
  BY <1>0, <1>7, QuietStays
<1>8. ASSUME NEW k \in Kind, NEW n \in store[k], Expire(k, n) PROVE Expires(k, n)
  BY <1>0, <1>8, ExpireExpires
<1>9. ASSUME Crash PROVE Dies
  BY <1>9, CrashDies
<1>10. QED
  BY <1>1, <1>2, <1>3, <1>4, <1>5, <1>6, <1>7, <1>8, <1>9
     DEF Next, Ingest, FlushStep, Lifecycle, Environment

(* The strengthened invariant holds throughout.                            *)
LEMMA StepDelivery ==
  ASSUME Budget.clears = 0, DeliveryInv, [Next]_vars
  PROVE  DeliveryInv'
<1>0. RecordType /\ RecordType' /\ LossInv'
  BY StepLoss DEF DeliveryInv, LossInv, TypeOK
<1>1. ASSUME NEW k \in Kind PROVE Held(k)' \subseteq 1..accepted'[k] /\ lost'[k] \subseteq volatile'[k]
  <2>0. Held(k) \subseteq 1..accepted[k] /\ lost[k] \subseteq volatile[k] /\ accepted[k] \in Nat
    BY <1>0 DEF DeliveryInv, RecordType
  <2>1. CASE Stays
    BY <2>0, <2>1 DEF Stays
  <2>2. CASE Dies
    BY <2>0, <2>2 DEF Dies
  <2>3. ASSUME NEW j \in Kind, Settles(j) PROVE Held(k)' \subseteq 1..accepted'[k] /\ lost'[k] \subseteq volatile'[k]
    BY <2>0, <2>3 DEF Settles
  <2>4. ASSUME NEW j \in Kind, Accepts(j) PROVE Held(k)' \subseteq 1..accepted'[k] /\ lost'[k] \subseteq volatile'[k]
    <3>1. lost'[k] \subseteq volatile'[k]
      BY <1>0, <2>0, <2>4 DEF Accepts, RecordType
    <3>2. CASE j # k
      BY <1>0, <2>0, <2>4, <3>1, <3>2 DEF Accepts, RecordType
    <3>3. CASE j = k
      <4>1. accepted'[k] = accepted[k] + 1 /\ Held(k)' = Held(k) \cup {accepted[k] + 1}
        BY <1>0, <2>4, <3>3 DEF Accepts, RecordType
      <4>2. 1..accepted'[k] = 1..accepted[k] \cup {accepted[k] + 1}
        BY <2>0, <4>1
      <4>3. QED
        BY <2>0, <3>1, <4>1, <4>2
    <3>4. QED
      BY <3>2, <3>3
  <2>5. ASSUME NEW j \in Kind, NEW n \in store[j], Expires(j, n)
        PROVE  Held(k)' \subseteq 1..accepted'[k] /\ lost'[k] \subseteq volatile'[k]
    <3>1. Held(k)' \subseteq Held(k) /\ accepted' = accepted
      BY <2>5 DEF Expires
    <3>2. lost'[k] \subseteq volatile'[k]
      BY <1>0, <2>0, <2>5 DEF Expires, RecordType
    <3>3. QED
      BY <2>0, <3>1, <3>2
  <2>6. QED
    BY <2>1, <2>2, <2>3, <2>4, <2>5, StepMeans
<1>2. QED
  BY <1>0, <1>1 DEF DeliveryInv

(* A step of the pipeline is a step of Delivery.                           *)
LEMMA StepKeepsPromise ==
  ASSUME Budget.clears = 0, DeliveryInv, [Next]_vars
  PROVE  [Promise!Next]_(Promise!vars)
<1> DEFINE held == [k \in Kind |-> Held(k)]
<1>0. RecordType
  BY DEF DeliveryInv, LossInv, TypeOK
<1>1. ASSUME Stays PROVE UNCHANGED Promise!vars
  BY <1>1 DEF Stays, Promise!vars
<1>2. ASSUME Dies PROVE Promise!Crash
  BY <1>2 DEF Dies, Promise!Crash
<1>3. ASSUME NEW k \in Kind, Settles(k) PROVE Promise!Settle(k)
  <2>1. PICK got, out \in SUBSET Held(k) :
          /\ delivered' = [delivered EXCEPT ![k] = @ \cup got]
          /\ discarded' = [discarded EXCEPT ![k] = @ \cup out]
    BY <1>3 DEF Settles
  <2>2. held' = [held EXCEPT ![k] = @ \ (Held(k) \ Held(k)')]
    BY <1>3 DEF Settles
  <2>3. /\ Held(k) \ Held(k)' \in SUBSET (held[k] \cap (delivered'[k] \cup discarded'[k]))
        /\ held[k] = Held(k)
        /\ UNCHANGED <<accepted, volatile>> /\ used'["crashes"] = used["crashes"]
    BY <1>3 DEF Settles
  <2>4. \E gone \in SUBSET (held[k] \cap (delivered'[k] \cup discarded'[k])) :
           held' = [held EXCEPT ![k] = @ \ gone]
    BY <2>2, <2>3
  <2>5. QED
    BY <2>1, <2>3, <2>4 DEF Promise!Settle
<1>4. ASSUME NEW k \in Kind, Accepts(k) PROVE Promise!Accept(k)
  <2>1. held' = [held EXCEPT ![k] = @ \cup {accepted[k] + 1}]
    BY <1>4 DEF Accepts
  <2>2. QED
    BY <1>4, <2>1 DEF Accepts, Promise!Accept
<1>5. ASSUME NEW k \in Kind, NEW n \in store[k], Expires(k, n) PROVE Promise!Expire(k)
  <2>1. held' \in {held, [held EXCEPT ![k] = @ \ {n}]}
    <3>1. CASE Held(k)' = Held(k)
      BY <1>5, <3>1 DEF Expires
    <3>2. CASE Held(k)' = Held(k) \ {n}
      BY <1>5, <3>2 DEF Expires
    <3>3. QED
      BY <1>5, <3>1, <3>2 DEF Expires
  <2>2. n \in held[k]
    BY <1>5 DEF Expires
  <2>3. QED
    BY <1>5, <2>1, <2>2 DEF Expires, Promise!Expire
<1>6. QED
  BY <1>1, <1>2, <1>3, <1>4, <1>5, StepMeans DEF Promise!Next

(* The agent keeps its promise: as long as clear_buffer is not called, the *)
(* pipeline implements at-least-once delivery, for every number of callers *)
(* and permits, every size, policy and bound on failures and crashes.      *)
THEOREM PipelineDelivers ==
  ASSUME Budget.clears = 0
  PROVE  Spec => AtLeastOnce
<1>1. Init => DeliveryInv /\ Promise!Init
  <2> SUFFICES ASSUME Init PROVE DeliveryInv /\ Promise!Init
    OBVIOUS
  <2>1. LossInv
    BY InitLoss
  <2>2. \A k \in Kind : Held(k) = {}
    <3> TAKE k \in Kind
    <3>1. \A n : n \notin InMemory(k)
      BY NoIds, InMemoryMember DEF Init
    <3>2. QED
      BY <3>1 DEF Held, Init
  <2>3. DeliveryInv
    BY <2>1, <2>2 DEF DeliveryInv, Init
  <2>4. Promise!Init
    BY <2>2 DEF Init, Promise!Init, Promise!None, Cost
  <2>5. QED
    BY <2>3, <2>4
<1>2. DeliveryInv /\ [Next]_vars => DeliveryInv'
  BY StepDelivery
<1>3. DeliveryInv /\ [Next]_vars => [Promise!Next]_(Promise!vars)
  BY StepKeepsPromise
<1>4. QED
  BY <1>1, <1>2, <1>3, PTL DEF Spec, AtLeastOnce, Promise!Spec

=============================================================================
