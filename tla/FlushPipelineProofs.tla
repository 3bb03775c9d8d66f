------------------------ MODULE FlushPipelineProofs ------------------------
(***************************************************************************)
(* Proofs that FlushPipeline keeps its types and that the counters of      *)
(* get_stats add up: what was buffered, sent, dropped and is in flight is  *)
(* what the host handed over.                                              *)
(***************************************************************************)
EXTENDS FlushPipeline, FiniteSetTheorems, TLAPS

-----------------------------------------------------------------------------
(* Lemmas on the sequence operators the actions are built from.            *)

(* Inserting at the back keeps the items and adds one identity.            *)
LEMMA AppendItem ==
  ASSUME NEW s \in Seq(BufferedItem), NEW e \in BufferedItem
  PROVE  /\ Append(s, e) \in Seq(BufferedItem)
         /\ Len(Append(s, e)) = Len(s) + 1
         /\ Ids(Append(s, e)) = Ids(s) \cup {e.id}
<1>1. /\ Append(s, e) \in Seq(BufferedItem)
      /\ Len(Append(s, e)) = Len(s) + 1
      /\ DOMAIN Append(s, e) = 1..(Len(s) + 1)
      /\ DOMAIN s = 1..Len(s)
      /\ \A i \in DOMAIN s : Append(s, e)[i] = s[i]
      /\ Append(s, e)[Len(s) + 1] = e
  OBVIOUS
<1>2. Len(s) \in Nat
  OBVIOUS
<1>3. Ids(Append(s, e)) \subseteq Ids(s) \cup {e.id}
  BY <1>1, <1>2 DEF Ids
<1>4. Ids(s) \cup {e.id} \subseteq Ids(Append(s, e))
  BY <1>1, <1>2 DEF Ids
<1>5. QED
  BY <1>1, <1>3, <1>4

(* Evicting the oldest removes at most its identity.                       *)
LEMMA TailItems ==
  ASSUME NEW s \in Seq(BufferedItem), s # <<>>
  PROVE  /\ Tail(s) \in Seq(BufferedItem)
         /\ Len(Tail(s)) = Len(s) - 1
         /\ Head(s) \in BufferedItem
         /\ Ids(s) = {Head(s).id} \cup Ids(Tail(s))
<1>1. /\ Len(s) \in Nat \ {0}
      /\ DOMAIN s = 1..Len(s)
      /\ Tail(s) \in Seq(BufferedItem)
      /\ Len(Tail(s)) = Len(s) - 1
      /\ DOMAIN Tail(s) = 1..(Len(s) - 1)
      /\ Head(s) = s[1]
      /\ s[1] \in BufferedItem
      /\ \A i \in 1..(Len(s) - 1) : Tail(s)[i] = s[i + 1]
  OBVIOUS
<1>2. Ids(s) \subseteq {Head(s).id} \cup Ids(Tail(s))
  <2> SUFFICES ASSUME NEW i \in 1..Len(s), s[i].id # Head(s).id
               PROVE  s[i].id \in Ids(Tail(s))
    BY <1>1 DEF Ids
  <2>1. /\ i - 1 \in 1..(Len(s) - 1)
        /\ Tail(s)[i - 1] = s[i]
    BY <1>1
  <2>2. QED
    BY <1>1, <2>1 DEF Ids
<1>3. {Head(s).id} \cup Ids(Tail(s)) \subseteq Ids(s)
  <2> SUFFICES ASSUME NEW i \in 1..(Len(s) - 1)
               PROVE  Tail(s)[i].id \in Ids(s)
    BY <1>1 DEF Ids
  <2>1. i + 1 \in 1..Len(s)
    BY <1>1
  <2>2. QED
    BY <1>1, <2>1 DEF Ids
<1>4. QED
  BY <1>1, <1>2, <1>3

(* Positions of a sequence of length n cut at b, with r positions after    *)
(* the cut.                                                                *)
LEMMA SplitArithmetic ==
  ASSUME NEW n \in Nat, NEW b \in Nat, NEW r \in Nat,
         n <= b => r = 0, n > b => r = n - b
  PROVE  /\ \A i \in 1..n : i > b => i - b \in 1..r
         /\ \A i \in 1..r : b + i \in 1..n
OBVIOUS

(* A requeue fits the buffer and splits the records between what it keeps  *)
(* and what it evicts.                                                     *)
LEMMA RequeueSplit ==
  ASSUME NEW s \in Seq(BufferedItem), NEW t \in Seq(BufferedItem)
  PROVE  /\ Kept(s, t) \in Seq(BufferedItem)
         /\ Overflow(s, t) \in Seq(BufferedItem)
         /\ Len(Kept(s, t)) <= BufferSize
         /\ Ids(s) \cup Ids(t) = Ids(Kept(s, t)) \cup Ids(Overflow(s, t))
<1> DEFINE all == s \o t
<1> DEFINE cut == IF Len(all) <= BufferSize THEN Len(all) ELSE BufferSize
<1>1. /\ Len(s) \in Nat /\ Len(t) \in Nat
      /\ all \in Seq(BufferedItem)
      /\ Len(all) = Len(s) + Len(t)
      /\ \A i \in 1..Len(s) : all[i] = s[i]
      /\ \A i \in 1..Len(t) : all[Len(s) + i] = t[i]
      /\ \A i \in 1..Len(all) : i <= Len(s) \/ i - Len(s) \in 1..Len(t)
      /\ \A i \in 1..Len(all) : i > Len(s) => all[i] = t[i - Len(s)]
  OBVIOUS
<1>2. Ids(all) = Ids(s) \cup Ids(t)
  <2>1. ASSUME NEW i \in 1..Len(all) PROVE all[i].id \in Ids(s) \cup Ids(t)
    <3>1. CASE i <= Len(s)
      BY <1>1, <3>1 DEF Ids
    <3>2. CASE i > Len(s)
      BY <1>1, <3>2 DEF Ids
    <3>3. QED
      BY <1>1, <3>1, <3>2
  <2>2. ASSUME NEW i \in 1..Len(s) PROVE s[i].id \in Ids(all)
    <3>1. i \in DOMAIN all /\ all[i] = s[i]
      BY <1>1
    <3>2. QED
      BY <3>1 DEF Ids
  <2>3. ASSUME NEW i \in 1..Len(t) PROVE t[i].id \in Ids(all)
    <3>1. Len(s) + i \in DOMAIN all /\ all[Len(s) + i] = t[i]
      BY <1>1
    <3>2. QED
      BY <3>1 DEF Ids
  <2>4. DOMAIN s = 1..Len(s) /\ DOMAIN t = 1..Len(t) /\ DOMAIN all = 1..Len(all)
    BY <1>1
  <2>5. QED
    BY <2>1, <2>2, <2>3, <2>4 DEF Ids
<1>3. Kept(s, t) = SubSeq(all, 1, cut) /\ Overflow(s, t) = SubSeq(all, BufferSize + 1, Len(all))
  BY DEF Kept, Overflow
<1>4. cut \in 0..Len(all) /\ cut <= BufferSize
  BY <1>1, SizeAssumption
<1> HIDE DEF all, cut
<1>5. /\ SubSeq(all, 1, cut) \in Seq(BufferedItem)
      /\ Len(SubSeq(all, 1, cut)) = cut
      /\ DOMAIN SubSeq(all, 1, cut) = 1..cut
      /\ \A i \in 1..cut : SubSeq(all, 1, cut)[i] = all[i]
  BY <1>1, <1>4
<1> DEFINE rest == SubSeq(all, BufferSize + 1, Len(all))
<1>a. BufferSize \in Nat /\ Len(all) \in Nat
  BY <1>1, SizeAssumption
<1>b. /\ Len(rest) \in Nat
      /\ Len(all) <= BufferSize => Len(rest) = 0
      /\ Len(all) > BufferSize => Len(rest) = Len(all) - BufferSize
  BY <1>1, SizeAssumption
<1>c. /\ \A i \in 1..Len(all) : i > BufferSize => i - BufferSize \in 1..Len(rest)
      /\ \A i \in 1..Len(rest) : BufferSize + i \in 1..Len(all)
  <2> HIDE DEF rest
  <2>1. QED
    BY <1>a, <1>b, SplitArithmetic
<1>6. /\ rest \in Seq(BufferedItem)
      /\ DOMAIN rest = 1..Len(rest)
      /\ Len(rest) = IF Len(all) <= BufferSize THEN 0 ELSE Len(all) - BufferSize
      /\ \A i \in 1..Len(rest) : rest[i] = all[BufferSize + i]
  BY <1>1, SizeAssumption
<1>7. DOMAIN all = 1..Len(all) /\ Len(all) \in Nat
  BY <1>1
<1> DEFINE front == SubSeq(all, 1, cut)
<1> HIDE DEF rest, front
<1>8. /\ DOMAIN front = 1..cut
      /\ \A i \in 1..cut : front[i] = all[i]
  BY <1>5 DEF front
<1>10. ASSUME NEW i \in 1..Len(all) PROVE all[i].id \in Ids(front) \cup Ids(rest)
  <2>1. CASE i <= cut
    BY <1>4, <1>8, <2>1 DEF Ids
  <2>2. CASE ~(i <= cut)
    <3>1. BufferSize < i
      BY <1>7, <1>a, <2>2 DEF cut
    <3>2. i - BufferSize \in 1..Len(rest)
      BY <1>c, <3>1
    <3>3. rest[i - BufferSize] = all[i]
      <4> DEFINE j == i - BufferSize
      <4>1. j \in 1..Len(rest) /\ BufferSize + j = i
        BY <1>7, <1>a, <3>2
      <4> HIDE DEF j
      <4>2. rest[j] = all[BufferSize + j]
        BY <1>6, <4>1
      <4>3. QED
        BY <4>1, <4>2 DEF j
    <3>4. QED
      BY <1>6, <3>2, <3>3 DEF Ids
  <2>3. QED
    BY <2>1, <2>2
<1>11. ASSUME NEW i \in 1..cut PROVE all[i].id \in Ids(all)
  BY <1>4, <1>7 DEF Ids
<1>12. ASSUME NEW i \in 1..Len(rest) PROVE rest[i].id \in Ids(all)
  <2>1. BufferSize + i \in 1..Len(all)
    BY <1>c
  <2>2. QED
    BY <1>6, <1>7, <2>1 DEF Ids
<1>13. Ids(all) \subseteq Ids(front) \cup Ids(rest)
  BY <1>7, <1>10 DEF Ids
<1>14. Ids(front) \cup Ids(rest) \subseteq Ids(all)
  BY <1>6, <1>8, <1>11, <1>12 DEF Ids
<1>15. QED
  BY <1>2, <1>3, <1>4, <1>5, <1>6, <1>13, <1>14 DEF front, rest

-----------------------------------------------------------------------------
(* Type correctness.                                                       *)

USE DEF CommandFails, ForgetKey, ClearKeys, SetLastFlush, Connect, vars, coreVars, statVars,
        workVars, loadVars, fateVars, tallyVars

(* A new process, with an empty queue and store, is well typed.            *)
LEMMA InitType == Init => TypeOK
<1> SUFFICES ASSUME Init PROVE TypeOK
  OBVIOUS
<1>1. ItemType
  BY DEF Init, ItemType
<1>2. FlagType /\ ControlType
  BY DEF Init, FlagType, ControlType, NoneClearing, Kind, PcSet, MainSet
<1>3. CounterType /\ RecordType
  BY DEF Init, CounterType, RecordType
<1>4. QED
  BY <1>1, <1>2, <1>3 DEF TypeOK

(* The identities of well-typed items are record numbers.                  *)
LEMMA IdsType ==
  ASSUME NEW s \in Seq(BufferedItem)
  PROVE  Ids(s) \in SUBSET RecordId /\ LiveKeys(s) \in SUBSET RecordId
<1>1. \A i \in DOMAIN s : s[i] \in BufferedItem
  OBVIOUS
<1>2. \A i \in DOMAIN s : s[i].id \in RecordId
  BY <1>1 DEF BufferedItem
<1>3. QED
  BY <1>2 DEF Ids, LiveKeys

(* Spending from a budget keeps the tally a function into Nat.             *)
LEMMA SpendType ==
  ASSUME used \in [Cost -> Nat], NEW c \in Cost, Spend(c)
  PROVE  used' \in [Cost -> Nat]
BY DEF Spend

(* delete_keys, applied or failed, leaves a typed store.                   *)
LEMMA DeleteKeysType ==
  ASSUME store \in [Kind -> SUBSET RecordId], used \in [Cost -> Nat],
         NEW k \in Kind, NEW keys, DeleteKeys(k, keys)
  PROVE  store' \in [Kind -> SUBSET RecordId] /\ used' \in [Cost -> Nat]
<1>1. "faults" \in Cost
  BY DEF Cost
<1>2. CASE store' = [store EXCEPT ![k] = @ \ keys] /\ UNCHANGED used
  BY <1>2
<1>3. CASE Spend("faults") /\ UNCHANGED store
  BY <1>1, <1>3, SpendType
<1>4. QED
  BY <1>2, <1>3 DEF DeleteKeys

(* The steps of send_event and send_metric keep the types.                 *)
LEMMA IngestType == TypeOK /\ Ingest => TypeOK'
<1> SUFFICES ASSUME TypeOK, NEW c \in Callers, NEW k \in Kind,
                    Submit(c, k) \/ Insert(c, k) \/ EvictOldest(c, k) \/ Reject(c, k)
             PROVE  TypeOK'
  BY DEF Ingest
<1>0. ItemType /\ FlagType /\ CounterType /\ ControlType /\ RecordType
  BY DEF TypeOK
<1>1. CASE Submit(c, k)
  BY <1>0, <1>1 DEF TypeOK, ItemType, FlagType, CounterType, ControlType, RecordType, Submit
<1>2. CASE Insert(c, k)
  <2>1. PICK keyed \in BOOLEAN :
          /\ PersistItem(k, accepted[k] + 1, keyed)
          /\ buffer' = [buffer EXCEPT ![k] =
                           Append(@, [id |-> accepted[k] + 1, keyed |-> keyed])]
    BY <1>2 DEF Insert
  <2>2. accepted[k] \in Nat /\ accepted[k] + 1 \in RecordId
    BY <1>0 DEF RecordType, RecordId
  <2>3. [id |-> accepted[k] + 1, keyed |-> keyed] \in BufferedItem
    BY <2>2 DEF BufferedItem
  <2>4. ItemType'
    BY <1>0, <1>2, <2>1, <2>3, AppendItem DEF ItemType, Insert
  <2>5. /\ store' \in [Kind -> SUBSET RecordId]
        /\ volatile' \in [Kind -> SUBSET RecordId]
        /\ used' \in [Cost -> Nat]
    <3>1. /\ store \in [Kind -> SUBSET RecordId] /\ volatile \in [Kind -> SUBSET RecordId]
          /\ used \in [Cost -> Nat] /\ "faults" \in Cost
      BY <1>0 DEF RecordType, CounterType, Cost
    <3>2. store' \in {store, [store EXCEPT ![k] = @ \cup {accepted[k] + 1}]}
      BY <2>1 DEF PersistItem, SetKey
    <3>3. volatile' \in {volatile, [volatile EXCEPT ![k] = @ \cup {accepted[k] + 1}]}
      BY <2>1 DEF PersistItem, SetKey
    <3>4. Spend("faults") \/ UNCHANGED used
      BY <2>1 DEF PersistItem, SetKey
    <3>5. QED
      BY <2>2, <3>1, <3>2, <3>3, <3>4, SpendType
  <2>6. FlagType' /\ ControlType'
    BY <1>0, <1>2 DEF FlagType, ControlType, Insert
  <2>7. CounterType'
    <3>1. spawned' \in Nat
      BY <1>0, <1>2 DEF CounterType, Insert, SpawnGatedFlush
    <3>2. pushed' \in [Kind -> Int]
      BY <1>0, <1>2 DEF CounterType, Insert
    <3>3. QED
      BY <1>0, <1>2, <2>5, <3>1, <3>2 DEF CounterType, Insert
  <2>8. RecordType'
    <3>1. accepted' \in [Kind -> Nat]
      BY <1>0, <1>2, <2>2 DEF RecordType, Insert
    <3>2. QED
      BY <1>0, <1>2, <2>5, <3>1 DEF RecordType, Insert
  <2>9. QED
    BY <2>4, <2>6, <2>7, <2>8 DEF TypeOK
<1>3. CASE EvictOldest(c, k)
  <2>1. buffer[k] # <<>> /\ buffer[k] \in Seq(BufferedItem)
    BY <1>0, <1>3, SizeAssumption DEF ItemType, EvictOldest, HasRoom
  <2>2. Head(buffer[k]).id \in RecordId
    BY <2>1, TailItems DEF BufferedItem
  <2>3. ItemType'
    BY <1>0, <1>3, <2>1, TailItems DEF ItemType, EvictOldest
  <2>4. store' \in [Kind -> SUBSET RecordId] /\ used' \in [Cost -> Nat]
    BY <1>0, <1>3, DeleteKeysType DEF EvictOldest, RecordType, CounterType
  <2>5. FlagType' /\ ControlType'
    BY <1>0, <1>3 DEF FlagType, ControlType, EvictOldest
  <2>6. CounterType'
    BY <1>0, <1>3, <2>4 DEF CounterType, EvictOldest
  <2>7. RecordType'
    <3>1. discarded' = [discarded EXCEPT ![k] = @ \cup {Head(buffer[k]).id}]
      BY <1>3 DEF EvictOldest
    <3>2. discarded' \in [Kind -> SUBSET RecordId]
      BY <1>0, <2>2, <3>1 DEF RecordType
    <3>3. QED
      BY <1>0, <1>3, <2>4, <3>2 DEF RecordType, EvictOldest
  <2>8. QED
    BY <2>3, <2>5, <2>6, <2>7 DEF TypeOK
<1>4. CASE Reject(c, k)
  BY <1>0, <1>4 DEF TypeOK, ItemType, FlagType, CounterType, ControlType, RecordType, Reject
<1>5. QED
  BY <1>1, <1>2, <1>3, <1>4

(* Taking a permit moves only the control point of its holder.             *)
LEMMA AcquireType ==
  ASSUME TypeOK, NEW w \in Workers,
         FlushTick(w) \/ RunSpawned(w) \/ FlushBuffer(w) \/ FinalFlush(w)
  PROVE  TypeOK'
<1>1. PICK entry \in {"need", "gate"} : Acquire(w, entry)
  BY DEF FlushTick, RunSpawned, FlushBuffer, FinalFlush
<1>2. spawned' \in Nat /\ main' \in MainSet
  BY DEF TypeOK, CounterType, ControlType, MainSet,
         FlushTick, RunSpawned, FlushBuffer, FinalFlush
<1>3. ItemType' /\ FlagType' /\ RecordType'
  BY <1>1 DEF TypeOK, ItemType, FlagType, RecordType, Acquire
<1>4. CounterType' /\ ControlType'
  BY <1>1, <1>2 DEF TypeOK, CounterType, ControlType, PcSet, Acquire
<1>5. QED
  BY <1>3, <1>4 DEF TypeOK

(* The end of one kind's flush moves to the other kind or to idle.         *)
LEMMA EndKindType ==
  ASSUME ControlType, NEW w \in Workers, EndKind(w)
  PROVE  pc' \in [Workers -> PcSet] /\ wkind' \in [Workers -> Kind]
BY DEF ControlType, EndKind, Other, PcSet, Kind

(* Every step of flush_events and flush_metrics keeps the types.           *)
LEMMA FlushStepType ==
  ASSUME TypeOK, NEW w \in Workers, FlushStep(w)
  PROVE  TypeOK'
<1> DEFINE k == wkind[w]
<1>0. ItemType /\ FlagType /\ CounterType /\ ControlType /\ RecordType
  BY DEF TypeOK
<1>k. /\ k \in Kind
      /\ buffer[k] \in Seq(BufferedItem) /\ batch[w] \in Seq(BufferedItem)
      /\ Len(buffer[k]) \in Nat
  BY <1>0 DEF ItemType, ControlType
<1> HIDE DEF k
<1>1. CASE FlushIfNeeded(w)
  <2>1. ItemType' /\ FlagType' /\ CounterType' /\ RecordType'
    BY <1>0, <1>1 DEF ItemType, FlagType, CounterType, RecordType, FlushIfNeeded
  <2>2. ControlType'
    BY <1>0, <1>1 DEF ControlType, FlushIfNeeded, PcSet
  <2>3. QED
    BY <2>1, <2>2 DEF TypeOK
<1>2. CASE ReadGate(w)
  <2>1. ItemType' /\ FlagType' /\ CounterType' /\ RecordType'
    BY <1>0, <1>2 DEF ItemType, FlagType, CounterType, RecordType, ReadGate
  <2>2. pc' \in [Workers -> PcSet] /\ wkind' \in [Workers -> Kind]
    BY <1>0, <1>2, EndKindType DEF ControlType, ReadGate, PcSet
  <2>3. ControlType'
    BY <1>0, <1>2, <2>2 DEF ControlType, ReadGate
  <2>4. QED
    BY <2>1, <2>3 DEF TypeOK
<1>3. CASE Drain(w)
  <2>1. /\ buffer' = [buffer EXCEPT ![k] = <<>>]
        /\ batch' = [batch EXCEPT ![w] = buffer[k]]
        /\ flushed' = [flushed EXCEPT ![k] = @ + Len(buffer[k])]
        /\ count' = [count EXCEPT ![w] = Len(buffer[k])]
    BY <1>3 DEF Drain, LeftByDrain, k
  <2>2. ItemType'
    <3>1. <<>> \in Seq(BufferedItem)
      OBVIOUS
    <3>2. QED
      BY <1>0, <1>k, <2>1, <3>1 DEF ItemType
  <2>3. CounterType'
    <3>1. flushed \in [Kind -> Nat] /\ count \in [Workers -> Nat]
      BY <1>0 DEF CounterType
    <3>2. flushed' \in [Kind -> Nat]
      BY <1>k, <2>1, <3>1
    <3>3. count' \in [Workers -> Nat]
      BY <1>k, <2>1, <3>1
    <3>4. QED
      BY <1>0, <1>3, <3>2, <3>3 DEF CounterType, Drain
  <2>4. FlagType' /\ RecordType'
    BY <1>0, <1>3 DEF FlagType, RecordType, Drain
  <2>5. pc' \in [Workers -> PcSet] /\ wkind' \in [Workers -> Kind]
    BY <1>0, <1>3, EndKindType DEF ControlType, Drain, PcSet
  <2>6. ControlType'
    BY <1>0, <1>3, <2>5 DEF ControlType, Drain
  <2>7. QED
    BY <2>2, <2>3, <2>4, <2>6 DEF TypeOK
<1>4. CASE SendBatch(w)
  <2>1. Ids(batch[w]) \in SUBSET RecordId
    BY <1>k, IdsType
  <2>2. ItemType' /\ FlagType'
    BY <1>0, <1>4 DEF ItemType, FlagType, SendBatch
  <2>3. PICK got \in SUBSET Ids(batch[w]) :
          /\ delivered' = [delivered EXCEPT ![k] = @ \cup got]
          /\ \/ discarded' = [discarded EXCEPT ![k] = @ \cup (Ids(batch[w]) \ got)]
             \/ discarded' = discarded
    BY <1>4 DEF SendBatch, SendAccepted, SendPermanentDrop, SendFailed, k
  <2>4. /\ delivered' \in [Kind -> SUBSET RecordId]
        /\ discarded' \in [Kind -> SUBSET RecordId]
    BY <1>0, <1>k, <2>1, <2>3 DEF RecordType
  <2>5. RecordType'
    BY <1>0, <1>4, <2>4 DEF RecordType, SendBatch
  <2>6. ControlType'
    <3>1. pc' \in {[pc EXCEPT ![w] = "confirm"], [pc EXCEPT ![w] = "confirmDrop"],
                   [pc EXCEPT ![w] = "requeue"]}
      BY <1>4 DEF SendBatch, SendAccepted, SendPermanentDrop, SendFailed
    <3>2. QED
      BY <1>0, <1>4, <3>1 DEF ControlType, SendBatch, PcSet
  <2>7. CounterType'
    <3>1. perm' \in {perm, [perm EXCEPT ![k] = @ + count[w]]}
      BY <1>4 DEF SendBatch, SendAccepted, SendPermanentDrop, SendFailed, k
    <3>2. Spend("failures") \/ UNCHANGED used
      BY <1>4 DEF SendBatch, SendAccepted, SendPermanentDrop, SendFailed
    <3>3. "failures" \in Cost
      BY DEF Cost
    <3>4. used' \in [Cost -> Nat]
      BY <1>0, <3>2, <3>3, SpendType DEF CounterType
    <3>5. perm' \in [Kind -> Nat]
      <4>1. perm \in [Kind -> Nat] /\ perm[k] + count[w] \in Nat
        BY <1>0, <1>k DEF CounterType
      <4>2. QED
        BY <1>k, <3>1, <4>1
    <3>6. QED
      BY <1>0, <1>4, <3>4, <3>5 DEF CounterType, SendBatch
  <2>8. QED
    BY <2>2, <2>5, <2>6, <2>7 DEF TypeOK
<1>5. CASE ConfirmKeys(w)
  <2>1. store' \in [Kind -> SUBSET RecordId] /\ used' \in [Cost -> Nat]
    BY <1>0, <1>5, <1>k, DeleteKeysType DEF ConfirmKeys, RecordType, CounterType, k
  <2>2. ItemType' /\ FlagType'
    BY <1>0, <1>5 DEF ItemType, FlagType, ConfirmKeys
  <2>3. CounterType' /\ RecordType'
    BY <1>0, <1>5, <2>1 DEF CounterType, RecordType, ConfirmKeys
  <2>4. ControlType'
    BY <1>0, <1>5 DEF ControlType, ConfirmKeys, PcSet
  <2>5. QED
    BY <2>2, <2>3, <2>4 DEF TypeOK
<1>6. CASE AccountAccepted(w)
  <2>1. /\ sent' = [sent EXCEPT ![k] = @ + count[w]]
        /\ failureStreak' = [failureStreak EXCEPT ![k] = 0]
        /\ retryAfter' = [retryAfter EXCEPT ![k] = "none"]
        /\ batch' = [batch EXCEPT ![w] = <<>>]
        /\ count' = [count EXCEPT ![w] = 0]
    BY <1>6 DEF AccountAccepted, k
  <2>2. ItemType'
    <3>1. <<>> \in Seq(BufferedItem)
      OBVIOUS
    <3>2. QED
      BY <1>0, <1>6, <2>1, <3>1 DEF ItemType, AccountAccepted
  <2>3. CounterType'
    <3>1. sent' \in [Kind -> Nat] /\ failureStreak' \in [Kind -> Nat] /\ count' \in [Workers -> Nat]
      BY <1>0, <1>k, <2>1 DEF CounterType
    <3>2. QED
      BY <1>0, <1>6, <3>1 DEF CounterType, AccountAccepted
  <2>4. FlagType' /\ RecordType'
    BY <1>0, <1>6 DEF FlagType, RecordType, AccountAccepted
  <2>5. ControlType'
    <3>1. pc' \in [Workers -> PcSet] /\ wkind' \in [Workers -> Kind]
      BY <1>0, <1>6, EndKindType DEF AccountAccepted
    <3>2. QED
      BY <1>0, <1>6, <2>1, <3>1 DEF ControlType, AccountAccepted
  <2>6. QED
    BY <2>2, <2>3, <2>4, <2>5 DEF TypeOK
<1>7. CASE ConfirmDropped(w)
  <2>1. store' \in [Kind -> SUBSET RecordId] /\ used' \in [Cost -> Nat]
    BY <1>0, <1>7, <1>k, DeleteKeysType DEF ConfirmDropped, RecordType, CounterType, k
  <2>2. ItemType'
    <3>1. <<>> \in Seq(BufferedItem)
      OBVIOUS
    <3>2. QED
      BY <1>0, <1>7, <3>1 DEF ItemType, ConfirmDropped
  <2>3. CounterType'
    BY <1>0, <1>7, <2>1 DEF CounterType, ConfirmDropped
  <2>4. FlagType' /\ RecordType'
    BY <1>0, <1>7, <2>1 DEF FlagType, RecordType, ConfirmDropped
  <2>5. ControlType'
    <3>1. pc' \in [Workers -> PcSet] /\ wkind' \in [Workers -> Kind]
      BY <1>0, <1>7, EndKindType DEF ConfirmDropped
    <3>2. QED
      BY <1>0, <1>7, <3>1 DEF ControlType, ConfirmDropped
  <2>6. QED
    BY <2>2, <2>3, <2>4, <2>5 DEF TypeOK
<1>8. CASE Requeue(w)
  <2> DEFINE out == Overflow(batch[w], buffer[k])
             kept == Kept(batch[w], buffer[k])
  <2>1. kept \in Seq(BufferedItem) /\ out \in Seq(BufferedItem)
    BY <1>k, RequeueSplit
  <2>2. Ids(out) \in SUBSET RecordId /\ LiveKeys(out) \in SUBSET RecordId /\ Len(out) \in Nat
    BY <2>1, IdsType
  <2>3. /\ dropped' = [dropped EXCEPT ![k] = @ + Len(out)]
        /\ discarded' = [discarded EXCEPT ![k] = @ \cup Ids(out)]
        /\ evicted' = [evicted EXCEPT ![w] = LiveKeys(out)]
        /\ buffer' = [buffer EXCEPT ![k] = kept]
        /\ batch' = [batch EXCEPT ![w] = <<>>]
    BY <1>8 DEF Requeue, k
  <2> HIDE DEF out, kept
  <2>4. ItemType'
    <3>1. <<>> \in Seq(BufferedItem)
      OBVIOUS
    <3>2. QED
      BY <1>0, <1>k, <2>1, <2>3, <3>1 DEF ItemType
  <2>5. CounterType'
    <3>1. dropped' \in [Kind -> Nat]
      BY <1>0, <1>k, <2>2, <2>3 DEF CounterType
    <3>2. QED
      BY <1>0, <1>8, <3>1 DEF CounterType, Requeue
  <2>6. RecordType'
    <3>1. discarded' \in [Kind -> SUBSET RecordId] /\ evicted' \in [Workers -> SUBSET RecordId]
      BY <1>0, <1>k, <2>2, <2>3 DEF RecordType
    <3>2. QED
      BY <1>0, <1>8, <3>1 DEF RecordType, Requeue
  <2>7. FlagType'
    BY <1>0, <1>8 DEF FlagType, Requeue
  <2>8. ControlType'
    BY <1>0, <1>8 DEF ControlType, Requeue, PcSet
  <2>9. QED
    BY <2>4, <2>5, <2>6, <2>7, <2>8 DEF TypeOK
<1>9. CASE Backoff(w)
  <2>1. /\ failed' = [failed EXCEPT ![k] = @ + count[w]]
        /\ failureStreak' = [failureStreak EXCEPT ![k] = @ + 1]
        /\ retryAfter' = [retryAfter EXCEPT ![k] = "closed"]
    BY <1>9 DEF Backoff, k
  <2>2. CounterType'
    <3>0. count[w] \in Nat /\ failed \in [Kind -> Nat] /\ failureStreak \in [Kind -> Nat]
      BY <1>0 DEF CounterType
    <3>1. failed' \in [Kind -> Nat]
      BY <1>k, <2>1, <3>0
    <3>2. failureStreak' \in [Kind -> Nat]
      BY <1>k, <2>1, <3>0
    <3>3. QED
      BY <1>0, <1>9, <3>1, <3>2 DEF CounterType, Backoff
  <2>3. ControlType'
    BY <1>0, <1>9, <2>1 DEF ControlType, Backoff, PcSet
  <2>4. ItemType' /\ FlagType' /\ RecordType'
    BY <1>0, <1>9 DEF ItemType, FlagType, RecordType, Backoff
  <2>5. QED
    BY <2>2, <2>3, <2>4 DEF TypeOK
<1>10. CASE ForgetEvicted(w)
  <2>1. store' \in [Kind -> SUBSET RecordId] /\ used' \in [Cost -> Nat]
    BY <1>0, <1>10, <1>k, DeleteKeysType DEF ForgetEvicted, RecordType, CounterType, k
  <2>2. ItemType' /\ FlagType'
    BY <1>0, <1>10 DEF ItemType, FlagType, ForgetEvicted
  <2>3. CounterType' /\ RecordType'
    BY <1>0, <1>10, <2>1 DEF CounterType, RecordType, ForgetEvicted
  <2>4. ControlType'
    <3>1. pc' \in [Workers -> PcSet] /\ wkind' \in [Workers -> Kind]
      BY <1>0, <1>10, EndKindType DEF ForgetEvicted
    <3>2. QED
      BY <1>0, <1>10, <3>1 DEF ControlType, ForgetEvicted
  <2>5. QED
    BY <2>2, <2>3, <2>4 DEF TypeOK
<1>11. QED
  BY <1>1, <1>2, <1>3, <1>4, <1>5, <1>6, <1>7, <1>8, <1>9, <1>10 DEF FlushStep

(* Reloading one persisted record keeps the types.                         *)
LEMMA ReloadKeyType == TypeOK /\ ReloadKey => TypeOK'
<1> SUFFICES ASSUME TypeOK, ReloadKey PROVE TypeOK'
  OBVIOUS
<1> DEFINE k == loadKind
           n == Min(toLoad)
           rest == IF HasRoom(k) THEN buffer[k] ELSE Tail(buffer[k])
           out == IF HasRoom(k) THEN <<>> ELSE <<Head(buffer[k])>>
           item == [id |-> n, keyed |-> TRUE]
<1>0. ItemType /\ FlagType /\ CounterType /\ ControlType /\ RecordType
  BY DEF TypeOK
<1>1. k \in Kind /\ buffer[k] \in Seq(BufferedItem) /\ n \in RecordId
  BY <1>0 DEF ItemType, ControlType, RecordType, ReloadKey, GetKey
<1>2. item \in BufferedItem
  BY <1>1 DEF BufferedItem
<1>3. ~HasRoom(k) => buffer[k] # <<>>
  BY SizeAssumption DEF HasRoom
<1>4. rest \in Seq(BufferedItem)
  BY <1>1, <1>3, TailItems
<1>5. out \in Seq(BufferedItem)
  BY <1>1, <1>3, TailItems
<1>6. Ids(out) \in SUBSET RecordId /\ Len(out) \in Nat
  BY <1>5, IdsType
<1>7. /\ DeleteKeys(k, LiveKeys(out))
      /\ buffer' = [buffer EXCEPT ![k] = Append(rest, item)]
      /\ dropped' = [dropped EXCEPT ![k] = @ + Len(out)]
      /\ discarded' = [discarded EXCEPT ![k] = @ \cup Ids(out)]
      /\ pushed' = [pushed EXCEPT ![k] = @ + 1]
      /\ toLoad' = toLoad \ {n}
  BY DEF ReloadKey, GetKey
<1> HIDE DEF k, n, rest, out, item
<1>8. ItemType'
  <2>1. Append(rest, item) \in Seq(BufferedItem)
    BY <1>2, <1>4, AppendItem
  <2>2. QED
    <3>1. buffer' \in [Kind -> Seq(BufferedItem)]
      BY <1>0, <1>7, <2>1 DEF ItemType
    <3>2. batch' = batch
      BY DEF ReloadKey, GetKey
    <3>3. QED
      BY <1>0, <3>1, <3>2 DEF ItemType
<1>9. store' \in [Kind -> SUBSET RecordId] /\ used' \in [Cost -> Nat]
  BY <1>0, <1>1, <1>7, DeleteKeysType DEF RecordType, CounterType
<1>10. FlagType' /\ ControlType'
  BY <1>0 DEF FlagType, ControlType, ReloadKey, GetKey
<1>11. CounterType'
  <2>1. dropped' \in [Kind -> Nat] /\ pushed' \in [Kind -> Int]
    BY <1>0, <1>1, <1>6, <1>7 DEF CounterType
  <2>2. QED
    BY <1>0, <1>9, <2>1 DEF CounterType, ReloadKey, GetKey
<1>12. RecordType'
  <2>1. discarded' \in [Kind -> SUBSET RecordId] /\ toLoad' \in SUBSET RecordId
    BY <1>0, <1>1, <1>6, <1>7 DEF RecordType
  <2>2. QED
    BY <1>0, <1>9, <2>1 DEF RecordType, ReloadKey, GetKey
<1>13. QED
  BY <1>8, <1>10, <1>11, <1>12 DEF TypeOK

(* start with its reload, stop and clear_buffer keep the types.            *)
LEMMA LifecycleType == TypeOK /\ Lifecycle => TypeOK'
<1> SUFFICES ASSUME TypeOK, Lifecycle PROVE TypeOK'
  OBVIOUS
<1>0. ItemType /\ FlagType /\ CounterType /\ ControlType /\ RecordType
  BY DEF TypeOK
<1>c. /\ "faults" \in Cost /\ "stops" \in Cost /\ "restarts" \in Cost /\ "clears" \in Cost
      /\ used \in [Cost -> Nat]
  BY <1>0 DEF Cost, CounterType
<1>1. CASE AttachRedisHandler
  BY <1>0, <1>1 DEF TypeOK, ItemType, FlagType, CounterType, ControlType, RecordType,
                    AttachRedisHandler
<1>2. CASE Start
  <2>1. used' \in [Cost -> Nat]
    BY <1>c, <1>2, SpendType DEF Start
  <2>2. QED
    BY <1>0, <1>2, <2>1 DEF TypeOK, ItemType, FlagType, CounterType, ControlType,
                            RecordType, Start, MainSet
<1>3. CASE ConnectRedis
  BY <1>0, <1>3 DEF TypeOK, ItemType, FlagType, CounterType, ControlType, RecordType,
                    ConnectRedis, MainSet
<1>4. CASE ReloadBegin
  BY <1>0, <1>4 DEF TypeOK, ItemType, FlagType, CounterType, ControlType, RecordType,
                    ReloadBegin, MainSet, Kind
<1>5. CASE ReloadList
  <2>1. used' \in [Cost -> Nat]
    BY <1>c, <1>5, SpendType DEF ReloadList, ListKeys
  <2>2. toLoad' \in SUBSET RecordId
    BY <1>0, <1>5 DEF ReloadList, ListKeys, RecordType, ControlType
  <2>3. ItemType' /\ FlagType' /\ ControlType'
    BY <1>0, <1>5 DEF ItemType, FlagType, ControlType, ReloadList, ListKeys, MainSet
  <2>4. CounterType' /\ RecordType'
    BY <1>0, <1>5, <2>1, <2>2 DEF CounterType, RecordType, ReloadList, ListKeys
  <2>5. QED
    BY <2>3, <2>4 DEF TypeOK
<1>6. CASE ReloadSkip
  <2>1. used' \in [Cost -> Nat]
    BY <1>c, <1>6, SpendType DEF ReloadSkip, GetKey
  <2>2. ItemType' /\ FlagType' /\ ControlType'
    BY <1>0, <1>6 DEF ItemType, FlagType, ControlType, ReloadSkip, GetKey
  <2>3. CounterType' /\ RecordType'
    BY <1>0, <1>6, <2>1 DEF CounterType, RecordType, ReloadSkip, GetKey
  <2>4. QED
    BY <2>2, <2>3 DEF TypeOK
<1>7. CASE ReloadKey
  BY <1>7, ReloadKeyType
<1>8. CASE ReloadDone
  BY <1>0, <1>8 DEF TypeOK, ItemType, FlagType, CounterType, ControlType, RecordType,
                    ReloadDone, MainSet, Other, Kind
<1>9. CASE Stop
  <2>1. used' \in [Cost -> Nat]
    BY <1>c, <1>9, SpendType DEF Stop
  <2>2. QED
    BY <1>0, <1>9, <2>1 DEF TypeOK, ItemType, FlagType, CounterType, ControlType,
                            RecordType, Stop, MainSet
<1>10. CASE ClearMemory
  <2>1. ItemType'
    <3>1. <<>> \in Seq(BufferedItem)
      OBVIOUS
    <3>2. QED
      BY <1>0, <1>10, <3>1 DEF ItemType, ClearMemory
  <2>2. CounterType'
    <3>1. used' \in [Cost -> Nat]
      BY <1>c, <1>10, SpendType DEF ClearMemory
    <3>2. pushed' \in [Kind -> Int]
      <4>1. \A k \in Kind : pushed[k] \in Int /\ Len(buffer[k]) \in Nat
        BY <1>0 DEF ItemType, CounterType
      <4>2. QED
        BY <1>10, <4>1 DEF ClearMemory
    <3>3. QED
      BY <1>0, <1>10, <3>1, <3>2 DEF CounterType, ClearMemory
  <2>3. RecordType'
    <3>1. discarded' \in [Kind -> SUBSET RecordId]
      <4>1. \A k \in Kind : discarded[k] \in SUBSET RecordId /\ 1..accepted[k] \in SUBSET RecordId
        BY <1>0 DEF RecordType, RecordId
      <4>2. QED
        BY <1>10, <4>1 DEF ClearMemory
    <3>2. QED
      BY <1>0, <1>10, <3>1 DEF RecordType, ClearMemory
  <2>4. FlagType' /\ ControlType'
    <3>1. clearing' \in [Kind -> Nat]
      <4>1. /\ clearing \in [Kind -> Nat]
            /\ clearing' = [k \in Kind |-> clearing[k] + (IF handler THEN 1 ELSE 0)]
        BY <1>0, <1>10 DEF ControlType, ClearMemory
      <4>2. QED
        BY <4>1
    <3>2. QED
      BY <1>0, <1>10, <3>1 DEF FlagType, ControlType, ClearMemory
  <2>5. QED
    BY <2>1, <2>2, <2>3, <2>4 DEF TypeOK
<1>11. ASSUME NEW k \in Kind, ClearNamespace(k) PROVE TypeOK'
  <2>1. store' \in [Kind -> SUBSET RecordId] /\ used' \in [Cost -> Nat]
    BY <1>0, <1>11, DeleteKeysType DEF ClearNamespace, RecordType, CounterType
  <2>2. clearing' \in [Kind -> Nat]
    BY <1>0, <1>11 DEF ClearNamespace, ControlType
  <2>3. ItemType' /\ FlagType' /\ CounterType' /\ RecordType'
    BY <1>0, <1>11, <2>1 DEF ItemType, FlagType, CounterType, RecordType, ClearNamespace
  <2>4. ControlType'
    BY <1>0, <1>11, <2>2 DEF ControlType, ClearNamespace
  <2>5. QED
    BY <2>3, <2>4 DEF TypeOK
<1>12. QED
  BY <1>1, <1>2, <1>3, <1>4, <1>5, <1>6, <1>7, <1>8, <1>9, <1>10, <1>11 DEF Lifecycle

(* Expiry, elapsed instants and a crash keep the types.                    *)
LEMMA EnvironmentType == TypeOK /\ Environment => TypeOK'
<1> SUFFICES ASSUME TypeOK, Environment PROVE TypeOK'
  OBVIOUS
<1>0. ItemType /\ FlagType /\ CounterType /\ ControlType /\ RecordType
  BY DEF TypeOK
<1>1. ASSUME NEW k \in Kind, GateExpires(k) PROVE TypeOK'
  BY <1>0, <1>1 DEF TypeOK, ItemType, FlagType, CounterType, ControlType, RecordType,
                    GateExpires
<1>2. ASSUME NEW k \in Kind, NEW n \in store[k], Expire(k, n) PROVE TypeOK'
  <2>1. used' \in [Cost -> Nat]
    BY <1>0, <1>2, SpendType DEF Expire, CounterType, Cost
  <2>2. n \in RecordId
    BY <1>0, <1>2 DEF RecordType
  <2>3. /\ store' \in [Kind -> SUBSET RecordId]
        /\ volatile' \in [Kind -> SUBSET RecordId]
        /\ lost' \in [Kind -> SUBSET RecordId]
    <3>1. lost' \in {lost, [lost EXCEPT ![k] = @ \cup {n}]}
      <4>1. lost' = [lost EXCEPT ![k] = IF n \in InMemory(k) THEN @ ELSE @ \cup {n}]
        BY <1>2 DEF Expire
      <4>2. QED
        BY <1>0, <4>1 DEF RecordType
    <3>2. QED
      BY <1>0, <1>2, <2>2, <3>1 DEF RecordType, Expire
  <2>4. QED
    BY <1>0, <1>2, <2>1, <2>3 DEF TypeOK, ItemType, FlagType, CounterType, ControlType,
                                  RecordType, Expire
<1>3. CASE IntervalElapses
  BY <1>0, <1>3 DEF TypeOK, ItemType, FlagType, CounterType, ControlType, RecordType,
                    IntervalElapses
<1>4. CASE Crash
  <2>1. ItemType'
    BY <1>4 DEF ItemType, Crash
  <2>2. FlagType' /\ ControlType'
    BY <1>4 DEF FlagType, ControlType, Crash, NoneClearing, Kind, PcSet, MainSet
  <2>3. CounterType'
    <3>1. used' \in [Cost -> Nat]
      BY <1>0, <1>4, SpendType DEF Crash, CounterType, Cost
    <3>2. QED
      BY <1>4, <3>1 DEF CounterType, Crash
  <2>4. RecordType'
    <3>1. lost' \in [Kind -> SUBSET RecordId]
      <4>1. lost' = [k \in Kind |-> lost[k] \cup (InMemory(k) \cap volatile[k])]
        BY <1>4 DEF Crash
      <4>2. QED
        BY <1>0, <4>1 DEF RecordType
    <3>2. QED
      BY <1>0, <1>4, <3>1 DEF RecordType, Crash
  <2>5. QED
    BY <2>1, <2>2, <2>3, <2>4 DEF TypeOK
<1>5. QED
  BY <1>1, <1>2, <1>3, <1>4 DEF Environment

(* So does every step of the agent and its environment.                    *)
LEMMA StepType == TypeOK /\ [Next]_vars => TypeOK'
<1> SUFFICES ASSUME TypeOK, [Next]_vars PROVE TypeOK'
  OBVIOUS
<1>1. CASE Ingest
  BY <1>1, IngestType
<1>2. ASSUME NEW w \in Workers,
             FlushTick(w) \/ RunSpawned(w) \/ FlushBuffer(w) \/ FinalFlush(w)
      PROVE  TypeOK'
  BY <1>2, AcquireType
<1>3. ASSUME NEW w \in Workers, FlushStep(w) PROVE TypeOK'
  BY <1>3, FlushStepType
<1>4. CASE SpawnedSkips
  <2>1. ItemType' /\ FlagType' /\ RecordType'
    BY <1>4 DEF TypeOK, ItemType, FlagType, RecordType, SpawnedSkips
  <2>2. spawned' \in Nat
    BY <1>4 DEF TypeOK, CounterType, SpawnedSkips
  <2>3. CounterType' /\ ControlType'
    BY <1>4, <2>2 DEF TypeOK, CounterType, ControlType, SpawnedSkips
  <2>4. QED
    BY <2>1, <2>3 DEF TypeOK
<1>5. CASE Lifecycle
  BY <1>5, LifecycleType
<1>6. CASE Environment
  BY <1>6, EnvironmentType
<1>7. CASE UNCHANGED vars
  BY <1>7 DEF TypeOK, ItemType, FlagType, CounterType, ControlType, RecordType
<1>8. QED
  BY <1>1, <1>2, <1>3, <1>4, <1>5, <1>6, <1>7 DEF Next

(* The state of the agent keeps its types in every behaviour, whatever the *)
(* configuration, the number of callers and permits and the faults.        *)
THEOREM TypeCorrect == Spec => []TypeOK
BY InitType, StepType, PTL DEF Spec

-----------------------------------------------------------------------------
(* The counters.                                                           *)

(* The places of one permit.                                               *)
LEMMA OwnPlaces ==
  ASSUME NEW w, NEW n \in Nat
  PROVE  IsFiniteSet({w} \X (1..n)) /\ Cardinality({w} \X (1..n)) = n
<1>1. IsFiniteSet({w}) /\ Cardinality({w}) = 1
  BY FS_Singleton
<1>2. IsFiniteSet(1..n) /\ Cardinality(1..n) = n
  BY FS_Interval
<1>3. /\ IsFiniteSet({w} \X (1..n))
      /\ Cardinality({w} \X (1..n)) = Cardinality({w}) * Cardinality(1..n)
  BY <1>1, <1>2, FS_Product, Zenon
<1>4. 1 * n = n
  OBVIOUS
<1>5. QED
  BY <1>1, <1>2, <1>3, <1>4, Zenon

(* Finitely many permits have finitely many places.                        *)
LEMMA PlacesFinite ==
  ASSUME NEW size \in [Workers -> Nat], NEW permits \in SUBSET Workers
  PROVE  IsFiniteSet(Places(size, permits))
<1> DEFINE own == [w \in permits |-> {w} \X (1..size[w])]
<1>1. IsFiniteSet(permits)
  BY WorkersAssumption, FS_Subset
<1>2. IsFiniteSet({own[w] : w \in permits})
  <2>1. own \in Surjection(permits, {own[w] : w \in permits})
    BY DEF Surjection
  <2>2. QED
    BY <1>1, <2>1, FS_Surjection
<1>3. \A w \in permits : IsFiniteSet(own[w])
  BY OwnPlaces
<1>4. IsFiniteSet(UNION {own[w] : w \in permits})
  BY <1>2, <1>3, FS_UNION
<1>5. {own[w] : w \in permits} = {{w} \X (1..size[w]) : w \in permits}
  OBVIOUS
<1>6. QED
  BY <1>4, <1>5 DEF Places

(* The places of one permit and those of the others.                       *)
LEMMA PlacesSplit ==
  ASSUME NEW size \in [Workers -> Nat], NEW permits \in SUBSET Workers, NEW w \in Workers
  PROVE  /\ Cardinality(Places(size, permits \ {w})) \in Nat
         /\ Cardinality(Places(size, permits)) =
               Cardinality(Places(size, permits \ {w})) + (IF w \in permits THEN size[w] ELSE 0)
<1> DEFINE rest == Places(size, permits \ {w})
           own == {w} \X (1..size[w])
<1>1. IsFiniteSet(rest) /\ Cardinality(rest) \in Nat
  BY PlacesFinite, FS_CardinalityType
<1>2. IsFiniteSet(own) /\ Cardinality(own) = size[w]
  BY OwnPlaces
<1>3. CASE w \in permits
  <2>1. Places(size, permits) = rest \cup own
    BY <1>3 DEF Places
  <2>2. rest \cap own = {}
    BY DEF Places
  <2> HIDE DEF rest, own
  <2>3. Cardinality(rest \cup own)
           = Cardinality(rest) + Cardinality(own) - Cardinality(rest \cap own)
    BY <1>1, <1>2, FS_Union, Zenon
  <2>4. Cardinality(rest \cap own) = 0
    BY <2>2, FS_EmptySet, Zenon
  <2>5. Cardinality(Places(size, permits)) = Cardinality(rest) + size[w]
    BY <1>1, <1>2, <2>1, <2>3, <2>4
  <2>6. QED
    BY <1>1, <1>3, <2>5 DEF rest
<1>4. CASE w \notin permits
  <2>1. permits \ {w} = permits
    BY <1>4
  <2>2. QED
    BY <1>1, <1>4, <2>1
<1>5. QED
  BY <1>3, <1>4

(* When one permit moves, the count moves by what it has in hand.          *)
LEMMA PlacesMove ==
  ASSUME NEW size \in [Workers -> Nat], NEW permits \in SUBSET Workers,
         NEW next \in [Workers -> Nat], NEW others \in SUBSET Workers,
         NEW w \in Workers, permits \ {w} = others \ {w},
         \A v \in Workers \ {w} : next[v] = size[v]
  PROVE  /\ Cardinality(Places(size, permits)) \in Nat
         /\ Cardinality(Places(next, others)) - (IF w \in others THEN next[w] ELSE 0)
               = Cardinality(Places(size, permits)) - (IF w \in permits THEN size[w] ELSE 0)
<1>1. Places(next, others \ {w}) = Places(size, permits \ {w})
  BY DEF Places
<1>2. /\ Cardinality(Places(size, permits \ {w})) \in Nat
      /\ Cardinality(Places(size, permits)) =
            Cardinality(Places(size, permits \ {w})) + (IF w \in permits THEN size[w] ELSE 0)
      /\ Cardinality(Places(next, others)) =
            Cardinality(Places(next, others \ {w})) + (IF w \in others THEN next[w] ELSE 0)
  BY PlacesSplit
<1>3. QED
  BY <1>1, <1>2

(* What the counters leave for the flushes in flight, and what a permit    *)
(* has in hand of it.                                                      *)
Owed(k) == pushed[k] - (Len(buffer[k]) + sent[k] + dropped[k] + perm[k])
Uncounted(k) == flushed[k] - (sent[k] + failed[k] + perm[k])
Holds(w, k) == IF w \in InFlight(k) THEN Len(batch[w]) ELSE 0
Counts(w, k) == IF w \in InFlight(k) THEN count[w] ELSE 0

(* The count of a batch is kept until a critical section adds it.          *)
Batched == {"send", "confirm", "confirmDrop", "account", "requeue"}
Tallied ==
    \A w \in Workers :
        /\ pc[w] \in Batched => count[w] = Len(batch[w])
        /\ pc[w] \notin Batched => batch[w] = <<>>
        /\ pc[w] \notin Batched \cup {"backoff"} => count[w] = 0

StatsInv == TypeOK /\ StatsAddUp /\ Tallied

Balanced ==
    TypeOK =>
      /\ \A k \in Kind : InBatches(k) \in Nat /\ InCounts(k) \in Nat
      /\ StatsAddUp <=> \A k \in Kind : Owed(k) = InBatches(k) /\ Uncounted(k) = InCounts(k)

(* What is owed and uncounted is natural, and StatsAddUp says it balances. *)
LEMMA Balance == Balanced
<1> SUFFICES ASSUME TypeOK
             PROVE  /\ \A k \in Kind : InBatches(k) \in Nat /\ InCounts(k) \in Nat
                    /\ StatsAddUp <=> \A k \in Kind : /\ Owed(k) = InBatches(k)
                                                      /\ Uncounted(k) = InCounts(k)
  BY DEF Balanced
<1>1. /\ \A k \in Kind : InBatches(k) \in Nat /\ InCounts(k) \in Nat
  <2>1. [w \in Workers |-> Len(batch[w])] \in [Workers -> Nat]
    BY DEF TypeOK, ItemType
  <2>2. \A k \in Kind : InFlight(k) \in SUBSET Workers
    BY DEF InFlight
  <2>3. QED
    BY <2>1, <2>2, PlacesFinite, FS_CardinalityType DEF TypeOK, CounterType, InBatches, InCounts
<1>2. ASSUME NEW k \in Kind
      PROVE  /\ Len(buffer[k]) \in Nat /\ sent[k] \in Nat /\ dropped[k] \in Nat
             /\ perm[k] \in Nat /\ failed[k] \in Nat /\ flushed[k] \in Nat /\ pushed[k] \in Int
  BY DEF TypeOK, ItemType, CounterType
<1>3. ASSUME NEW k \in Kind
      PROVE  /\ pushed[k] = Len(buffer[k]) + sent[k] + dropped[k] + perm[k] + InBatches(k)
                   <=> Owed(k) = InBatches(k)
             /\ flushed[k] = sent[k] + failed[k] + perm[k] + InCounts(k)
                   <=> Uncounted(k) = InCounts(k)
  <2> DEFINE p == pushed[k]
             l == Len(buffer[k])
             s == sent[k]
             d == dropped[k]
             q == perm[k]
             f == failed[k]
             u == flushed[k]
             x == InBatches(k)
             y == InCounts(k)
  <2>1. /\ p \in Int /\ l \in Nat /\ s \in Nat /\ d \in Nat /\ q \in Nat /\ f \in Nat
        /\ u \in Nat /\ x \in Nat /\ y \in Nat
    BY <1>1, <1>2
  <2> HIDE DEF p, l, s, d, q, f, u, x, y
  <2>2. p = l + s + d + q + x <=> p - (l + s + d + q) = x
    BY <2>1
  <2>3. u = s + f + q + y <=> u - (s + f + q) = y
    BY <2>1
  <2>4. QED
    BY <2>2, <2>3, Zenon DEF Owed, Uncounted, p, l, s, d, q, f, u, x, y
<1>4. QED
  BY <1>1, <1>3, Zenon DEF StatsAddUp, GetStats

(* The same of the next state.                                             *)
LEMMA BalanceNext == Balanced'
BY Balance, PTL

(* A requeue keeps and evicts what there is, none of it twice.             *)
LEMMA RequeueLengths ==
  ASSUME NEW s \in Seq(BufferedItem), NEW t \in Seq(BufferedItem)
  PROVE  Len(Kept(s, t)) + Len(Overflow(s, t)) = Len(s) + Len(t)
<1> DEFINE all == s \o t
           cut == IF Len(all) <= BufferSize THEN Len(all) ELSE BufferSize
<1>1. /\ Len(s) \in Nat /\ Len(t) \in Nat
      /\ all \in Seq(BufferedItem) /\ Len(all) = Len(s) + Len(t)
  OBVIOUS
<1>2. cut \in 0..Len(all) /\ Len(all) \in Nat /\ BufferSize \in Nat
  BY <1>1, SizeAssumption
<1>3. Kept(s, t) = SubSeq(all, 1, cut) /\ Overflow(s, t) = SubSeq(all, BufferSize + 1, Len(all))
  BY DEF Kept, Overflow
<1> HIDE DEF all
<1>4. Len(SubSeq(all, 1, cut)) = cut
  BY <1>1, <1>2
<1>5. Len(SubSeq(all, BufferSize + 1, Len(all))) =
         IF Len(all) <= BufferSize THEN 0 ELSE Len(all) - BufferSize
  BY <1>1, <1>2
<1>6. cut + (IF Len(all) <= BufferSize THEN 0 ELSE Len(all) - BufferSize) = Len(all)
  BY <1>2
<1>7. QED
  BY <1>1, <1>3, <1>4, <1>5, <1>6

(* A step of permit w, for the others.                                     *)
Others(w) ==
    \A v \in Workers \ {w} : /\ pc'[v] = pc[v] /\ wkind'[v] = wkind[v]
                             /\ batch'[v] = batch[v] /\ count'[v] = count[v]

(* What the counters gain is what the permit no longer has in hand.        *)
Squares(w) ==
    \A k \in Kind : /\ Owed(k)' - Holds(w, k)' = Owed(k) - Holds(w, k)
                    /\ Uncounted(k)' - Counts(w, k)' = Uncounted(k) - Counts(w, k)

(* A step of one permit that squares its own account keeps StatsAddUp.     *)
LEMMA PermitStats ==
  ASSUME TypeOK, TypeOK', StatsAddUp, NEW w \in Workers, Others(w), Squares(w)
  PROVE  StatsAddUp'
<1> DEFINE lens == [v \in Workers |-> Len(batch[v])]
           lensNext == [v \in Workers |-> Len(batch'[v])]
<1>1. /\ lens \in [Workers -> Nat] /\ lensNext \in [Workers -> Nat]
      /\ count \in [Workers -> Nat] /\ count' \in [Workers -> Nat]
  BY DEF TypeOK, ItemType, CounterType
<1>2. ASSUME NEW k \in Kind
      PROVE  /\ InBatches(k)' - Holds(w, k)' = InBatches(k) - Holds(w, k)
             /\ InCounts(k)' - Counts(w, k)' = InCounts(k) - Counts(w, k)
  <2> DEFINE permits == InFlight(k)
             others == {v \in Workers : wkind'[v] = k /\ pc'[v] # "confirmDrop"}
  <2>1. /\ permits \in SUBSET Workers /\ others \in SUBSET Workers
        /\ permits \ {w} = others \ {w}
    BY DEF InFlight, Others
  <2>2. \A v \in Workers \ {w} : lensNext[v] = lens[v] /\ count'[v] = count[v]
    BY DEF Others
  <2>3. /\ InBatches(k) = Cardinality(Places(lens, permits))
        /\ InCounts(k) = Cardinality(Places(count, permits))
        /\ InBatches(k)' = Cardinality(Places(lensNext, others))
        /\ InCounts(k)' = Cardinality(Places(count', others))
    BY DEF InBatches, InCounts, Places, InFlight
  <2>4. /\ Holds(w, k) = IF w \in permits THEN lens[w] ELSE 0
        /\ Counts(w, k) = IF w \in permits THEN count[w] ELSE 0
        /\ Holds(w, k)' = IF w \in others THEN lensNext[w] ELSE 0
        /\ Counts(w, k)' = IF w \in others THEN count'[w] ELSE 0
    BY DEF Holds, Counts, InFlight
  <2> HIDE DEF lens, lensNext, permits, others
  <2>5. Cardinality(Places(lensNext, others)) - (IF w \in others THEN lensNext[w] ELSE 0)
           = Cardinality(Places(lens, permits)) - (IF w \in permits THEN lens[w] ELSE 0)
    BY <1>1, <2>1, <2>2, PlacesMove
  <2>6. Cardinality(Places(count', others)) - (IF w \in others THEN count'[w] ELSE 0)
           = Cardinality(Places(count, permits)) - (IF w \in permits THEN count[w] ELSE 0)
    BY <1>1, <2>1, <2>2, PlacesMove
  <2>7. QED
    BY <2>3, <2>4, <2>5, <2>6, Zenon
<1>3. \A k \in Kind : /\ Owed(k) = InBatches(k) /\ Uncounted(k) = InCounts(k)
                      /\ InBatches(k)' \in Nat /\ InCounts(k)' \in Nat
  BY Balance, BalanceNext DEF Balanced
<1>s. /\ \A p \in Int, l, s, d, q \in Nat : p - (l + s + d + q) \in Int
      /\ \A p, s, d, q \in Nat : p - (s + d + q) \in Int
  OBVIOUS
<1>4. ASSUME NEW k \in Kind
      PROVE  /\ Owed(k) \in Int /\ Uncounted(k) \in Int
             /\ Owed(k)' \in Int /\ Uncounted(k)' \in Int
             /\ Holds(w, k) \in Nat /\ Counts(w, k) \in Nat
             /\ Holds(w, k)' \in Nat /\ Counts(w, k)' \in Nat
  <2>1. Owed(k) \in Int /\ Uncounted(k) \in Int
    <3>1. /\ Len(buffer[k]) \in Nat /\ sent[k] \in Nat /\ dropped[k] \in Nat
          /\ perm[k] \in Nat /\ failed[k] \in Nat /\ flushed[k] \in Nat /\ pushed[k] \in Int
      BY DEF TypeOK, ItemType, CounterType
    <3>2. QED
      BY <1>s, <3>1, Zenon DEF Owed, Uncounted
  <2>2. Owed(k)' \in Int /\ Uncounted(k)' \in Int
    <3>1. /\ Len(buffer'[k]) \in Nat /\ sent'[k] \in Nat /\ dropped'[k] \in Nat
          /\ perm'[k] \in Nat /\ failed'[k] \in Nat /\ flushed'[k] \in Nat /\ pushed'[k] \in Int
      BY DEF TypeOK, ItemType, CounterType
    <3>2. QED
      BY <1>s, <3>1, Zenon DEF Owed, Uncounted
  <2>3. Holds(w, k) \in Nat /\ Counts(w, k) \in Nat
    BY <1>1 DEF TypeOK, ItemType, Holds, Counts
  <2>4. Holds(w, k)' \in Nat /\ Counts(w, k)' \in Nat
    BY <1>1 DEF TypeOK, ItemType, Holds, Counts
  <2>5. QED
    BY <2>1, <2>2, <2>3, <2>4
<1>5. ASSUME NEW k \in Kind
      PROVE  Owed(k)' = InBatches(k)' /\ Uncounted(k)' = InCounts(k)'
  <2>1. /\ Owed(k)' - Holds(w, k)' = Owed(k) - Holds(w, k)
        /\ Uncounted(k)' - Counts(w, k)' = Uncounted(k) - Counts(w, k)
    BY DEF Squares
  <2>3. Owed(k)' = (Owed(k) - Holds(w, k)) + Holds(w, k)'
    BY <1>4, <2>1
  <2>4. InBatches(k)' = (Owed(k) - Holds(w, k)) + Holds(w, k)'
    BY <1>2, <1>3, <1>4
  <2>5. Uncounted(k)' = (Uncounted(k) - Counts(w, k)) + Counts(w, k)'
    BY <1>4, <2>1
  <2>6. InCounts(k)' = (Uncounted(k) - Counts(w, k)) + Counts(w, k)'
    BY <1>2, <1>3, <1>4
  <2>7. QED
    BY <2>3, <2>4, <2>5, <2>6
<1>6. QED
  BY <1>5, BalanceNext DEF Balanced

(* A step of a permit with nothing in hand that leaves it so.              *)
LEMMA EmptyHanded ==
  ASSUME StatsInv, TypeOK', NEW w \in Workers, Others(w),
         UNCHANGED <<buffer, flushed, sent, failed, dropped, tallyVars, batch, count>>,
         pc[w] \notin Batched \cup {"backoff"}, pc'[w] \notin Batched \cup {"backoff"}
  PROVE  StatsInv'
<1>0. TypeOK /\ StatsAddUp /\ Tallied
  BY DEF StatsInv
<1>1. batch[w] = <<>> /\ count[w] = 0 /\ Len(<<>>) = 0
  BY <1>0 DEF Tallied
<1>2. Squares(w)
  BY <1>1 DEF Squares, Owed, Uncounted, Holds, Counts
<1>3. Tallied'
  BY <1>0, <1>1 DEF Tallied, Others
<1>4. QED
  BY <1>0, <1>2, <1>3, PermitStats DEF StatsInv

(* The sending and the deletion of the keys keep the batch in hand.        *)
LEMMA InHandStats ==
  ASSUME StatsInv, TypeOK', NEW w \in Workers, Others(w),
         UNCHANGED <<buffer, flushed, sent, failed, dropped, tallyVars, wkind, batch, count>>,
         pc[w] \in Batched \ {"confirmDrop"}, pc'[w] \in Batched \ {"confirmDrop"}
  PROVE  StatsInv'
<1>0. TypeOK /\ StatsAddUp /\ Tallied
  BY DEF StatsInv
<1>1. Squares(w)
  BY DEF Squares, Owed, Uncounted, Holds, Counts, InFlight
<1>2. Tallied'
  BY <1>0 DEF Tallied, Others
<1>3. QED
  BY <1>0, <1>1, <1>2, PermitStats DEF StatsInv

(* A flush step changes the entries of its own permit only.               *)
LEMMA PermitAlone ==
  ASSUME TypeOK, NEW w \in Workers, FlushStep(w)
  PROVE  Others(w)
<1>0. w \in DOMAIN pc /\ w \in DOMAIN wkind /\ w \in DOMAIN batch /\ w \in DOMAIN count
      /\ DOMAIN pc = Workers /\ DOMAIN wkind = Workers /\ DOMAIN batch = Workers
      /\ DOMAIN count = Workers
  BY DEF TypeOK, ItemType, CounterType, ControlType
<1>1. /\ \/ UNCHANGED pc
         \/ \E x : pc' = [pc EXCEPT ![w] = x]
      /\ \/ UNCHANGED wkind
         \/ \E x : wkind' = [wkind EXCEPT ![w] = x]
      /\ \/ UNCHANGED batch
         \/ \E x : batch' = [batch EXCEPT ![w] = x]
      /\ \/ UNCHANGED count
         \/ \E x : count' = [count EXCEPT ![w] = x]
  BY Zenon DEF FlushStep, FlushIfNeeded, ReadGate, Drain, SendBatch, SendAccepted, SendPermanentDrop,
         SendFailed, ConfirmKeys, AccountAccepted, ConfirmDropped, Requeue, Backoff,
         ForgetEvicted, EndKind
<1>2. QED
  BY <1>0, <1>1 DEF Others

(* Every step of a flush.                                                  *)
LEMMA FlushStepStats ==
  ASSUME StatsInv, TypeOK', NEW w \in Workers, FlushStep(w)
  PROVE  StatsInv'
<1> DEFINE k == wkind[w]
<1>0. TypeOK /\ StatsAddUp /\ Tallied
  BY DEF StatsInv
<1>a. Others(w)
  BY <1>0, PermitAlone
<1>b. /\ pc \in [Workers -> PcSet] /\ wkind \in [Workers -> Kind]
      /\ batch \in [Workers -> Seq(BufferedItem)] /\ count \in [Workers -> Nat]
      /\ buffer \in [Kind -> Seq(BufferedItem)] /\ k \in Kind
      /\ buffer[k] \in Seq(BufferedItem) /\ batch[w] \in Seq(BufferedItem)
  BY <1>0 DEF TypeOK, ControlType, ItemType, CounterType
<1>c. /\ flushed \in [Kind -> Nat] /\ sent \in [Kind -> Nat] /\ failed \in [Kind -> Nat]
      /\ dropped \in [Kind -> Nat] /\ perm \in [Kind -> Nat] /\ pushed \in [Kind -> Int]
  BY <1>0 DEF TypeOK, CounterType
<1>e. Len(<<>>) = 0
  OBVIOUS
<1>1. CASE FlushIfNeeded(w)
  <2>1. pc[w] = "need" /\ pc'[w] \in {"gate", "idle"}
    BY <1>1, <1>b DEF FlushIfNeeded
  <2>2. QED
    BY <1>1, <1>a, <2>1, EmptyHanded DEF FlushIfNeeded, Batched
<1>2. CASE ReadGate(w)
  <2>1. pc[w] = "gate" /\ pc'[w] \in {"gate", "idle", "drain"}
    BY <1>2, <1>b DEF ReadGate, EndKind
  <2>2. QED
    BY <1>2, <1>a, <2>1, EmptyHanded DEF ReadGate, Batched
<1>3. CASE ForgetEvicted(w)
  <2>1. pc[w] = "forget" /\ pc'[w] \in {"gate", "idle"}
    BY <1>3, <1>b DEF ForgetEvicted, EndKind
  <2>2. QED
    BY <1>3, <1>a, <2>1, EmptyHanded DEF ForgetEvicted, Batched
<1>4. CASE ConfirmKeys(w)
  <2>1. pc[w] = "confirm" /\ pc'[w] = "account"
    BY <1>4, <1>b DEF ConfirmKeys
  <2>2. QED
    BY <1>4, <1>a, <2>1, InHandStats DEF ConfirmKeys, Batched
<1>5. CASE SendBatch(w) /\ ~SendPermanentDrop(w)
  <2>1. pc[w] = "send" /\ pc'[w] \in {"confirm", "requeue"}
    BY <1>5, <1>b DEF SendBatch, SendAccepted, SendFailed
  <2>2. UNCHANGED <<buffer, flushed, sent, failed, dropped, tallyVars, wkind, batch, count>>
    BY <1>5 DEF SendBatch, SendAccepted, SendFailed
  <2>3. QED
    BY <1>a, <2>1, <2>2, InHandStats DEF Batched
<1>6. CASE SendBatch(w) /\ SendPermanentDrop(w)
  <2>1. /\ pc[w] = "send" /\ pc'[w] = "confirmDrop"
        /\ perm' = [perm EXCEPT ![k] = @ + count[w]]
        /\ UNCHANGED <<buffer, flushed, sent, failed, dropped, pushed, wkind, batch, count>>
    BY <1>6, <1>b DEF SendBatch, SendPermanentDrop
  <2>2. count[w] = Len(batch[w])
    BY <1>0, <2>1 DEF Tallied, Batched
  <2>3. ASSUME NEW j \in Kind
        PROVE  /\ Owed(j)' - Holds(w, j)' = Owed(j) - Holds(w, j)
               /\ Uncounted(j)' - Counts(w, j)' = Uncounted(j) - Counts(w, j)
    <3>1. Holds(w, j)' = 0 /\ Counts(w, j)' = 0
      BY <2>1 DEF Holds, Counts, InFlight
    <3>2. CASE j = k
      <4>1. Holds(w, j) = count[w] /\ Counts(w, j) = count[w]
        BY <2>1, <2>2, <3>2 DEF Holds, Counts, InFlight
      <4>2. perm'[j] = perm[j] + count[w]
        BY <1>c, <2>1, <3>2
      <4> DEFINE p == pushed[j]
                 l == Len(buffer[j])
                 s == sent[j]
                 d == dropped[j]
                 q == perm[j]
                 f == failed[j]
                 u == flushed[j]
                 n == count[w]
      <4>3. /\ l \in Nat /\ s \in Nat /\ d \in Nat /\ q \in Nat /\ f \in Nat
            /\ u \in Int /\ p \in Int /\ n \in Nat
        BY <1>b, <1>c
      <4>4. Owed(j) = p - (l + s + d + q) /\ Uncounted(j) = u - (s + f + q)
        BY DEF Owed, Uncounted
      <4>5. Owed(j)' = p - (l + s + d + (q + n)) /\ Uncounted(j)' = u - (s + f + (q + n))
        BY <2>1, <4>2 DEF Owed, Uncounted
      <4>6. /\ Holds(w, j) = n /\ Counts(w, j) = n
            /\ Holds(w, j)' = 0 /\ Counts(w, j)' = 0
        BY <3>1, <4>1
      <4> HIDE DEF p, l, s, d, q, f, u, n
      <4>7. QED
        BY <4>3, <4>4, <4>5, <4>6
    <3>3. CASE j # k
      <4>1. Holds(w, j) = 0 /\ Counts(w, j) = 0 /\ perm'[j] = perm[j]
        BY <1>c, <2>1, <3>3 DEF Holds, Counts, InFlight
      <4>2. QED
        BY <2>1, <3>1, <4>1 DEF Owed, Uncounted
    <3>4. QED
      BY <3>2, <3>3
  <2>4. Tallied'
    BY <1>0, <1>a, <2>1, <2>2 DEF Tallied, Others, Batched
  <2>5. QED
    BY <1>0, <1>a, <2>3, <2>4, PermitStats DEF StatsInv, Squares
<1>7. CASE AccountAccepted(w)
  <2>1. /\ pc[w] = "account" /\ pc'[w] \in {"gate", "idle"}
        /\ sent' = [sent EXCEPT ![k] = @ + count[w]]
        /\ batch'[w] = <<>> /\ count'[w] = 0
        /\ UNCHANGED <<buffer, flushed, failed, dropped, pushed, perm>>
    BY <1>7, <1>b DEF AccountAccepted, EndKind
  <2>2. count[w] = Len(batch[w])
    BY <1>0, <2>1 DEF Tallied, Batched
  <2>3. ASSUME NEW j \in Kind
        PROVE  /\ Owed(j)' - Holds(w, j)' = Owed(j) - Holds(w, j)
               /\ Uncounted(j)' - Counts(w, j)' = Uncounted(j) - Counts(w, j)
    <3>1. Holds(w, j)' = 0 /\ Counts(w, j)' = 0
      BY <1>e, <2>1 DEF Holds, Counts
    <3>2. CASE j = k
      <4>1. Holds(w, j) = count[w] /\ Counts(w, j) = count[w]
        BY <2>1, <2>2, <3>2 DEF Holds, Counts, InFlight
      <4>2. sent'[j] = sent[j] + count[w]
        BY <1>c, <2>1, <3>2
      <4> DEFINE p == pushed[j]
                 l == Len(buffer[j])
                 s == sent[j]
                 d == dropped[j]
                 q == perm[j]
                 f == failed[j]
                 u == flushed[j]
                 n == count[w]
      <4>3. /\ l \in Nat /\ s \in Nat /\ d \in Nat /\ q \in Nat /\ f \in Nat
            /\ u \in Int /\ p \in Int /\ n \in Nat
        BY <1>b, <1>c
      <4>4. Owed(j) = p - (l + s + d + q) /\ Uncounted(j) = u - (s + f + q)
        BY DEF Owed, Uncounted
      <4>5. Owed(j)' = p - (l + (s + n) + d + q) /\ Uncounted(j)' = u - ((s + n) + f + q)
        BY <2>1, <4>2 DEF Owed, Uncounted
      <4>6. /\ Holds(w, j) = n /\ Counts(w, j) = n
            /\ Holds(w, j)' = 0 /\ Counts(w, j)' = 0
        BY <3>1, <4>1
      <4> HIDE DEF p, l, s, d, q, f, u, n
      <4>7. QED
        BY <4>3, <4>4, <4>5, <4>6
    <3>3. CASE j # k
      <4>1. Holds(w, j) = 0 /\ Counts(w, j) = 0 /\ sent'[j] = sent[j]
        BY <1>c, <2>1, <3>3 DEF Holds, Counts, InFlight
      <4>2. QED
        BY <2>1, <3>1, <4>1 DEF Owed, Uncounted
    <3>4. QED
      BY <3>2, <3>3
  <2>4. Tallied'
    BY <1>0, <1>a, <1>e, <2>1, <2>2 DEF Tallied, Others, Batched
  <2>5. QED
    BY <1>0, <1>a, <2>3, <2>4, PermitStats DEF StatsInv, Squares
<1>8. CASE ConfirmDropped(w)
  <2>1. /\ pc[w] = "confirmDrop" /\ pc'[w] \in {"gate", "idle"}
        /\ batch'[w] = <<>> /\ count'[w] = 0
        /\ UNCHANGED <<buffer, flushed, sent, failed, dropped, pushed, perm>>
    BY <1>8, <1>b DEF ConfirmDropped, EndKind
  <2>2. \A j \in Kind : /\ Holds(w, j) = 0 /\ Counts(w, j) = 0
                        /\ Holds(w, j)' = 0 /\ Counts(w, j)' = 0
    BY <1>e, <2>1 DEF Holds, Counts, InFlight
  <2>3. Squares(w)
    BY <2>1, <2>2 DEF Squares, Owed, Uncounted
  <2>4. Tallied'
    BY <1>0, <1>a, <1>e, <2>1 DEF Tallied, Others, Batched
  <2>5. QED
    BY <1>0, <1>a, <2>3, <2>4, PermitStats DEF StatsInv
<1>9. CASE Requeue(w)
  <2> DEFINE out == Overflow(batch[w], buffer[k])
             kept == Kept(batch[w], buffer[k])
  <2>1. /\ pc[w] = "requeue" /\ pc'[w] = "backoff"
        /\ buffer' = [buffer EXCEPT ![k] = kept]
        /\ dropped' = [dropped EXCEPT ![k] = @ + Len(out)]
        /\ batch'[w] = <<>> /\ count'[w] = count[w]
        /\ UNCHANGED <<flushed, sent, failed, pushed, perm, wkind>>
    BY <1>9, <1>b DEF Requeue
  <2>2. count[w] = Len(batch[w])
    BY <1>0, <2>1 DEF Tallied, Batched
  <2>3. /\ Len(kept) + Len(out) = Len(batch[w]) + Len(buffer[k])
        /\ Len(kept) \in Nat /\ Len(out) \in Nat
    <3>1. kept \in Seq(BufferedItem) /\ out \in Seq(BufferedItem)
      BY <1>b, RequeueSplit
    <3>2. Len(kept) + Len(out) = Len(batch[w]) + Len(buffer[k])
      BY <1>b, RequeueLengths
    <3> HIDE DEF kept, out
    <3>3. Len(kept) \in Nat /\ Len(out) \in Nat
      BY <3>1
    <3>4. QED
      BY <3>2, <3>3
  <2> HIDE DEF out, kept
  <2>4. ASSUME NEW j \in Kind
        PROVE  /\ Owed(j)' - Holds(w, j)' = Owed(j) - Holds(w, j)
               /\ Uncounted(j)' - Counts(w, j)' = Uncounted(j) - Counts(w, j)
    <3>1. Holds(w, j)' = 0 /\ Counts(w, j)' = Counts(w, j)
      BY <1>e, <2>1 DEF Holds, Counts, InFlight
    <3>2. CASE j = k
      <4>1. Holds(w, j) = count[w]
        BY <2>1, <2>2, <3>2 DEF Holds, InFlight
      <4>2. /\ dropped'[j] = dropped[j] + Len(out) /\ Len(buffer'[j]) = Len(kept)
            /\ Len(kept) + Len(out) = count[w] + Len(buffer[j])
        BY <1>b, <1>c, <2>1, <2>2, <2>3, <3>2
      <4> DEFINE p == pushed[j]
                 l == Len(buffer[j])
                 s == sent[j]
                 d == dropped[j]
                 q == perm[j]
                 f == failed[j]
                 u == flushed[j]
                 n == count[w]
                 m == Len(kept)
                 o == Len(out)
      <4>3. /\ l \in Nat /\ s \in Nat /\ d \in Nat /\ q \in Nat /\ f \in Nat
            /\ u \in Int /\ p \in Int /\ n \in Nat /\ m \in Nat /\ o \in Nat
        BY <1>b, <1>c, <2>3
      <4>4. Owed(j) = p - (l + s + d + q) /\ Uncounted(j) = u - (s + f + q)
        BY DEF Owed, Uncounted
      <4>5. Owed(j)' = p - (m + s + (d + o) + q) /\ Uncounted(j)' = Uncounted(j)
        BY <2>1, <4>2 DEF Owed, Uncounted
      <4>6. /\ Holds(w, j) = n /\ Holds(w, j)' = 0 /\ Counts(w, j)' = Counts(w, j)
            /\ m + o = n + l
        BY <3>1, <4>1, <4>2
      <4> HIDE DEF p, l, s, d, q, f, u, n, m, o
      <4>7. QED
        BY <4>3, <4>4, <4>5, <4>6
    <3>3. CASE j # k
      <4>1. Holds(w, j) = 0 /\ dropped'[j] = dropped[j] /\ buffer'[j] = buffer[j]
        BY <1>b, <1>c, <2>1, <3>3 DEF Holds, InFlight
      <4>2. QED
        BY <2>1, <3>1, <4>1 DEF Owed, Uncounted
    <3>4. QED
      BY <3>2, <3>3
  <2>5. Tallied'
    BY <1>0, <1>a, <1>e, <2>1, <2>2 DEF Tallied, Others, Batched
  <2>6. QED
    BY <1>0, <1>a, <2>4, <2>5, PermitStats DEF StatsInv, Squares
<1>10. CASE Backoff(w)
  <2>1. /\ pc[w] = "backoff" /\ pc'[w] = "forget"
        /\ failed' = [failed EXCEPT ![k] = @ + count[w]]
        /\ batch'[w] = batch[w] /\ count'[w] = 0
        /\ UNCHANGED <<buffer, flushed, sent, dropped, pushed, perm, wkind>>
    BY <1>10, <1>b DEF Backoff
  <2>2. batch[w] = <<>>
    BY <1>0, <2>1 DEF Tallied, Batched
  <2>3. ASSUME NEW j \in Kind
        PROVE  /\ Owed(j)' - Holds(w, j)' = Owed(j) - Holds(w, j)
               /\ Uncounted(j)' - Counts(w, j)' = Uncounted(j) - Counts(w, j)
    <3>1. Holds(w, j)' = Holds(w, j) /\ Counts(w, j)' = 0
      BY <1>e, <2>1, <2>2 DEF Holds, Counts
    <3>2. CASE j = k
      <4>1. Counts(w, j) = count[w]
        BY <2>1, <3>2 DEF Counts, InFlight
      <4>2. failed'[j] = failed[j] + count[w]
        BY <1>c, <2>1, <3>2
      <4>3. /\ sent[j] \in Nat /\ perm[j] \in Nat
            /\ failed[j] \in Nat /\ flushed[j] \in Nat /\ count[w] \in Nat
        BY <1>b, <1>c
      <4>4. QED
        BY <2>1, <3>1, <4>1, <4>2, <4>3 DEF Owed, Uncounted
    <3>3. CASE j # k
      <4>1. Counts(w, j) = 0 /\ failed'[j] = failed[j]
        BY <1>c, <2>1, <3>3 DEF Counts, InFlight
      <4>2. QED
        BY <2>1, <3>1, <4>1 DEF Owed, Uncounted
    <3>4. QED
      BY <3>2, <3>3
  <2>4. Tallied'
    BY <1>0, <1>a, <1>e, <2>1, <2>2 DEF Tallied, Others, Batched
  <2>5. QED
    BY <1>0, <1>a, <2>3, <2>4, PermitStats DEF StatsInv, Squares
<1>11. CASE Drain(w)
  <2>1. /\ pc[w] = "drain"
        /\ flushed' = [flushed EXCEPT ![k] = @ + Len(buffer[k])]
        /\ buffer' = [buffer EXCEPT ![k] = <<>>]
        /\ batch'[w] = buffer[k] /\ count'[w] = Len(buffer[k])
        /\ buffer[k] = <<>> => pc'[w] \in {"gate", "idle"}
        /\ buffer[k] # <<>> => pc'[w] = "send" /\ wkind'[w] = k
        /\ UNCHANGED <<sent, failed, dropped, pushed, perm>>
    BY <1>11, <1>b DEF Drain, LeftByDrain, EndKind
  <2>2. batch[w] = <<>> /\ count[w] = 0
    BY <1>0, <2>1 DEF Tallied, Batched
  <2>3. ASSUME NEW j \in Kind
        PROVE  /\ Owed(j)' - Holds(w, j)' = Owed(j) - Holds(w, j)
               /\ Uncounted(j)' - Counts(w, j)' = Uncounted(j) - Counts(w, j)
    <3>1. Holds(w, j) = 0 /\ Counts(w, j) = 0
      BY <1>e, <2>2 DEF Holds, Counts
    <3>2. CASE j = k
      <4>1. Holds(w, j)' = Len(buffer[k]) /\ Counts(w, j)' = Len(buffer[k])
        <5>1. CASE buffer[k] = <<>>
          BY <1>e, <2>1, <5>1 DEF Holds, Counts
        <5>2. CASE buffer[k] # <<>>
          BY <2>1, <3>2, <5>2 DEF Holds, Counts, InFlight
        <5>3. QED
          BY <5>1, <5>2
      <4>2. flushed'[j] = flushed[j] + Len(buffer[k]) /\ Len(buffer'[j]) = 0
        BY <1>b, <1>c, <1>e, <2>1, <3>2
      <4> DEFINE p == pushed[j]
                 l == Len(buffer[j])
                 s == sent[j]
                 d == dropped[j]
                 q == perm[j]
                 f == failed[j]
                 u == flushed[j]
      <4>3. /\ l \in Nat /\ s \in Nat /\ d \in Nat /\ q \in Nat /\ f \in Nat
            /\ u \in Int /\ p \in Int
        BY <1>b, <1>c
      <4>4. Owed(j) = p - (l + s + d + q) /\ Uncounted(j) = u - (s + f + q)
        BY DEF Owed, Uncounted
      <4>5. Owed(j)' = p - (0 + s + d + q) /\ Uncounted(j)' = (u + l) - (s + f + q)
        BY <2>1, <3>2, <4>2 DEF Owed, Uncounted
      <4>6. /\ Holds(w, j) = 0 /\ Counts(w, j) = 0
            /\ Holds(w, j)' = l /\ Counts(w, j)' = l
        BY <3>1, <3>2, <4>1
      <4> HIDE DEF p, l, s, d, q, f, u
      <4>7. QED
        BY <4>3, <4>4, <4>5, <4>6
    <3>3. CASE j # k
      <4>1. Holds(w, j)' = 0 /\ Counts(w, j)' = 0
        <5>1. CASE buffer[k] = <<>>
          BY <1>e, <2>1, <5>1 DEF Holds, Counts
        <5>2. CASE buffer[k] # <<>>
          BY <2>1, <3>3, <5>2 DEF Holds, Counts, InFlight
        <5>3. QED
          BY <5>1, <5>2
      <4>2. flushed'[j] = flushed[j] /\ buffer'[j] = buffer[j]
        BY <1>b, <1>c, <2>1, <3>3
      <4>3. QED
        BY <2>1, <3>1, <4>1, <4>2 DEF Owed, Uncounted
    <3>4. QED
      BY <3>2, <3>3
  <2>4. Tallied'
    BY <1>0, <1>a, <1>e, <2>1 DEF Tallied, Others, Batched
  <2>5. QED
    BY <1>0, <1>a, <2>3, <2>4, PermitStats DEF StatsInv, Squares
<1>12. QED
  BY <1>1, <1>2, <1>3, <1>4, <1>5, <1>6, <1>7, <1>8, <1>9, <1>10, <1>11 DEF FlushStep

(* A step of no permit that leaves the counters and the queues level.      *)
LEMMA LevelStats ==
  ASSUME StatsInv, TypeOK', UNCHANGED <<pc, wkind, batch, count>>,
         \A k \in Kind : Owed(k)' = Owed(k) /\ Uncounted(k)' = Uncounted(k)
  PROVE  StatsInv'
<1>0. TypeOK /\ StatsAddUp /\ Tallied
  BY DEF StatsInv
<1>1. \A k \in Kind : InBatches(k)' = InBatches(k) /\ InCounts(k)' = InCounts(k)
  BY DEF InBatches, InCounts, InFlight, Places
<1>2. \A k \in Kind : Owed(k) = InBatches(k) /\ Uncounted(k) = InCounts(k)
  BY <1>0, Balance DEF Balanced
<1>3. \A k \in Kind : Owed(k)' = InBatches(k)' /\ Uncounted(k)' = InCounts(k)'
  BY <1>1, <1>2
<1>4. StatsAddUp'
  BY <1>3, BalanceNext DEF Balanced
<1>5. Tallied'
  BY <1>0 DEF Tallied
<1>6. QED
  BY <1>4, <1>5 DEF StatsInv

(* So does one that changes neither counters nor queues.                   *)
LEMMA QuietStats ==
  ASSUME StatsInv, TypeOK',
         UNCHANGED <<buffer, flushed, sent, failed, dropped, tallyVars, pc, wkind, batch, count>>
  PROVE  StatsInv'
<1>1. \A k \in Kind : Owed(k)' = Owed(k) /\ Uncounted(k)' = Uncounted(k)
  BY DEF Owed, Uncounted
<1>2. QED
  BY <1>1, LevelStats

(* A record that enters a queue, or leaves it for the drops, is counted.   *)
LEMMA QueueStats ==
  ASSUME StatsInv, TypeOK', NEW k \in Kind, NEW queue \in Seq(BufferedItem),
         NEW more \in Nat, NEW out \in Nat, Len(queue) + out = Len(buffer[k]) + more,
         buffer' = [buffer EXCEPT ![k] = queue],
         pushed' = [pushed EXCEPT ![k] = @ + more],
         dropped' = [dropped EXCEPT ![k] = @ + out],
         UNCHANGED <<flushed, sent, failed, perm, pc, wkind, batch, count>>
  PROVE  StatsInv'
<1>0. TypeOK
  BY DEF StatsInv
<1>1. /\ buffer \in [Kind -> Seq(BufferedItem)] /\ pushed \in [Kind -> Int]
      /\ dropped \in [Kind -> Nat] /\ sent \in [Kind -> Nat] /\ perm \in [Kind -> Nat]
  BY <1>0 DEF TypeOK, ItemType, CounterType
<1>2. ASSUME NEW j \in Kind PROVE Owed(j)' = Owed(j) /\ Uncounted(j)' = Uncounted(j)
  <2>1. Uncounted(j)' = Uncounted(j)
    BY DEF Uncounted
  <2>2. CASE j = k
    <3> DEFINE p == pushed[k]
               l == Len(buffer[k])
               s == sent[k]
               d == dropped[k]
               q == perm[k]
               m == Len(queue)
    <3>1. /\ p \in Int /\ l \in Nat /\ s \in Nat /\ d \in Nat /\ q \in Nat /\ m \in Nat
      <4>1. l \in Nat /\ m \in Nat
        <5>1. buffer[k] \in Seq(BufferedItem)
          BY <1>1
        <5>2. QED
          BY <5>1
      <4>2. p \in Int /\ s \in Nat /\ d \in Nat /\ q \in Nat
        BY <1>1
      <4>3. QED
        BY <4>1, <4>2
    <3>2. Owed(j) = p - (l + s + d + q)
      BY <2>2 DEF Owed
    <3>a. /\ pushed'[k] = p + more /\ buffer'[k] = queue /\ dropped'[k] = d + out
          /\ sent'[k] = s /\ perm'[k] = q
      BY <1>1
    <3>3. Owed(j)' = (p + more) - (m + s + (d + out) + q)
      BY <2>2, <3>a DEF Owed
    <3>4. m + out = l + more
      OBVIOUS
    <3> HIDE DEF p, l, s, d, q, m
    <3>5. QED
      BY <2>1, <3>1, <3>2, <3>3, <3>4
  <2>3. CASE j # k
    <3>1. buffer'[j] = buffer[j] /\ pushed'[j] = pushed[j] /\ dropped'[j] = dropped[j]
      BY <1>1, <2>3
    <3>2. QED
      BY <2>1, <3>1 DEF Owed
  <2>4. QED
    BY <2>2, <2>3
<1>3. QED
  BY <1>2, LevelStats

(* What a caller does to a queue is counted at once.                       *)
LEMMA IngestStats ==
  ASSUME StatsInv, TypeOK', Ingest
  PROVE  StatsInv'
<1>0. TypeOK
  BY DEF StatsInv
<1>1. PICK c \in Callers, k \in Kind :
         Submit(c, k) \/ Insert(c, k) \/ EvictOldest(c, k) \/ Reject(c, k)
  BY DEF Ingest
<1>2. buffer[k] \in Seq(BufferedItem) /\ pushed \in [Kind -> Int] /\ dropped \in [Kind -> Nat]
  BY <1>0 DEF TypeOK, ItemType, CounterType
<1>3. CASE Submit(c, k) \/ Reject(c, k)
  BY <1>3, QuietStats DEF Submit, Reject
<1>4. CASE Insert(c, k)
  <2>1. PICK e : buffer' = [buffer EXCEPT ![k] = Append(@, e)]
    BY <1>4 DEF Insert
  <2>2. buffer' \in [Kind -> Seq(BufferedItem)] /\ buffer \in [Kind -> Seq(BufferedItem)]
    BY <1>0 DEF TypeOK, ItemType
  <2>3. buffer'[k] = Append(buffer[k], e) /\ buffer'[k] \in Seq(BufferedItem)
    BY <2>1, <2>2
  <2> DEFINE queue == buffer'[k]
  <2>4. Len(queue) + 0 = Len(buffer[k]) + 1
    BY <1>2, <2>3
  <2>5. dropped' = [dropped EXCEPT ![k] = @ + 0]
    BY <1>2, <1>4 DEF Insert
  <2>6. buffer' = [buffer EXCEPT ![k] = queue]
    BY <2>1, <2>3
  <2>7. /\ pushed' = [pushed EXCEPT ![k] = @ + 1]
        /\ UNCHANGED <<flushed, sent, failed, perm, pc, wkind, batch, count>>
    BY <1>4 DEF Insert
  <2> HIDE DEF queue
  <2>8. queue \in Seq(BufferedItem)
    BY <2>3 DEF queue
  <2>9. QED
    BY <2>4, <2>5, <2>6, <2>7, <2>8, QueueStats
<1>5. CASE EvictOldest(c, k)
  <2>1. buffer[k] # <<>>
    BY <1>5, <1>2, SizeAssumption DEF EvictOldest, HasRoom
  <2>2. Tail(buffer[k]) \in Seq(BufferedItem) /\ Len(Tail(buffer[k])) = Len(buffer[k]) - 1
    BY <1>2, <2>1, TailItems
  <2>3. Len(Tail(buffer[k])) + 1 = Len(buffer[k]) + 0
    BY <1>2, <2>2
  <2>4. pushed' = [pushed EXCEPT ![k] = @ + 0]
    BY <1>2, <1>5 DEF EvictOldest
  <2>5. /\ buffer' = [buffer EXCEPT ![k] = Tail(buffer[k])]
        /\ dropped' = [dropped EXCEPT ![k] = @ + 1]
        /\ UNCHANGED <<flushed, sent, failed, perm, pc, wkind, batch, count>>
    BY <1>5 DEF EvictOldest
  <2>6. QED
    BY <2>2, <2>3, <2>4, <2>5, QueueStats
<1>6. QED
  BY <1>1, <1>3, <1>4, <1>5

(* So is a record that the reload puts into a queue, or finds no room for. *)
LEMMA ReloadKeyStats ==
  ASSUME StatsInv, TypeOK', ReloadKey
  PROVE  StatsInv'
<1> DEFINE k == loadKind
           e == [id |-> Min(toLoad), keyed |-> TRUE]
<1>0. TypeOK
  BY DEF StatsInv
<1>1. /\ k \in Kind /\ buffer \in [Kind -> Seq(BufferedItem)] /\ buffer[k] \in Seq(BufferedItem)
      /\ buffer' \in [Kind -> Seq(BufferedItem)] /\ dropped \in [Kind -> Nat]
  BY <1>0 DEF TypeOK, ItemType, CounterType, ControlType
<1>2. /\ pushed' = [pushed EXCEPT ![k] = @ + 1]
      /\ UNCHANGED <<flushed, sent, failed, perm, pc, wkind, batch, count>>
  BY DEF ReloadKey
<1>3. CASE HasRoom(k)
  <2>1. buffer' = [buffer EXCEPT ![k] = Append(buffer[k], e)]
        /\ dropped' = [dropped EXCEPT ![k] = @ + Len(<<>>)]
    BY <1>3 DEF ReloadKey
  <2>2. Append(buffer[k], e) \in Seq(BufferedItem)
    BY <1>1, <2>1
  <2>3. Len(Append(buffer[k], e)) + 0 = Len(buffer[k]) + 1 /\ Len(<<>>) = 0
    BY <1>1
  <2>4. QED
    BY <1>1, <1>2, <2>1, <2>2, <2>3, QueueStats
<1>4. CASE ~HasRoom(k)
  <2>1. buffer' = [buffer EXCEPT ![k] = Append(Tail(buffer[k]), e)]
        /\ dropped' = [dropped EXCEPT ![k] = @ + Len(<<Head(buffer[k])>>)]
    BY <1>4 DEF ReloadKey
  <2>2. buffer[k] # <<>>
    BY <1>1, <1>4, SizeAssumption DEF HasRoom
  <2>3. /\ Tail(buffer[k]) \in Seq(BufferedItem) /\ Len(Tail(buffer[k])) = Len(buffer[k]) - 1
        /\ Len(buffer[k]) \in Nat
    BY <1>1, <2>2, TailItems
  <2>4. Append(Tail(buffer[k]), e) \in Seq(BufferedItem)
    BY <1>1, <2>1
  <2>5. Len(Append(Tail(buffer[k]), e)) + 1 = Len(buffer[k]) + 1
    BY <2>3
  <2>6. Len(<<Head(buffer[k])>>) = 1
    OBVIOUS
  <2>7. QED
    BY <1>1, <1>2, <2>1, <2>4, <2>5, <2>6, QueueStats
<1>5. QED
  BY <1>3, <1>4

(* clear_buffer takes what it clears out of the sum.                       *)
LEMMA ClearStats ==
  ASSUME StatsInv, TypeOK', ClearMemory
  PROVE  StatsInv'
<1>0. TypeOK
  BY DEF StatsInv
<1>1. /\ buffer' = [k \in Kind |-> <<>>]
      /\ pushed' = [k \in Kind |-> pushed[k] - Len(buffer[k])]
      /\ UNCHANGED <<flushed, sent, failed, dropped, perm, pc, wkind, batch, count>>
  BY DEF ClearMemory
<1>2. ASSUME NEW k \in Kind PROVE Owed(k)' = Owed(k) /\ Uncounted(k)' = Uncounted(k)
  <2> DEFINE p == pushed[k]
             l == Len(buffer[k])
             s == sent[k]
             d == dropped[k]
             q == perm[k]
  <2>1. p \in Int /\ l \in Nat /\ s \in Nat /\ d \in Nat /\ q \in Nat
    BY <1>0 DEF TypeOK, ItemType, CounterType
  <2>2. Owed(k) = p - (l + s + d + q)
    BY DEF Owed
  <2>3. Owed(k)' = (p - l) - (0 + s + d + q)
    <3>1. Len(<<>>) = 0
      OBVIOUS
    <3>2. QED
      BY <1>1, <3>1 DEF Owed
  <2>4. Uncounted(k)' = Uncounted(k)
    BY <1>1 DEF Uncounted
  <2> HIDE DEF p, l, s, d, q
  <2>5. QED
    BY <2>1, <2>2, <2>3, <2>4
<1>3. QED
  BY <1>1, <1>2, LevelStats

(* A new process begins with nothing counted and nothing in hand.          *)
LEMMA FreshStats ==
  ASSUME TypeOK, buffer = [k \in Kind |-> <<>>], batch = [w \in Workers |-> <<>>],
         count = [w \in Workers |-> 0], pc = [w \in Workers |-> "idle"],
         flushed = [k \in Kind |-> 0], sent = [k \in Kind |-> 0], failed = [k \in Kind |-> 0],
         dropped = [k \in Kind |-> 0], pushed = [k \in Kind |-> 0], perm = [k \in Kind |-> 0]
  PROVE  StatsInv
<1>1. Len(<<>>) = 0 /\ 1..0 = {}
  OBVIOUS
<1>2. ASSUME NEW k \in Kind PROVE InBatches(k) = 0 /\ InCounts(k) = 0
  <2>1. \A w \in InFlight(k) : {w} \X (1..0) = {}
    BY <1>1
  <2>2. /\ Places([w \in Workers |-> Len(batch[w])], InFlight(k)) = {}
        /\ Places(count, InFlight(k)) = {}
    BY <1>1, <2>1 DEF Places, InFlight
  <2>3. QED
    BY <2>2, FS_EmptySet DEF InBatches, InCounts
<1>3. StatsAddUp
  BY <1>1, <1>2 DEF StatsAddUp, GetStats
<1>4. Tallied
  BY DEF Tallied, Batched
<1>5. QED
  BY <1>3, <1>4 DEF StatsInv

NewDraw ==
  TypeOK /\ buffer = [k \in Kind |-> <<>>] /\ batch = [w \in Workers |-> <<>>]
  /\ count = [w \in Workers |-> 0] /\ pc = [w \in Workers |-> "idle"]
  /\ flushed = [k \in Kind |-> 0] /\ sent = [k \in Kind |-> 0] /\ failed = [k \in Kind |-> 0]
  /\ dropped = [k \in Kind |-> 0] /\ pushed = [k \in Kind |-> 0] /\ perm = [k \in Kind |-> 0]
    => StatsInv

(* A process that has counted nothing has its counters in balance.         *)
LEMMA Freshly == NewDraw
BY FreshStats DEF NewDraw

(* The same of the next state, for a crash.                                *)
LEMMA FreshlyNext == NewDraw'
BY Freshly, PTL

(* The counters add up at the start.                                       *)
LEMMA InitStats == Init => StatsInv
BY InitType, FreshStats DEF Init

(* They do after every step of the agent and its environment.              *)
LEMMA StepStats == StatsInv /\ [Next]_vars => StatsInv'
<1> SUFFICES ASSUME StatsInv, [Next]_vars PROVE StatsInv'
  OBVIOUS
<1>0. TypeOK /\ TypeOK'
  BY StepType DEF StatsInv
<1>1. CASE Ingest
  BY <1>0, <1>1, IngestStats
<1>2. ASSUME NEW w \in Workers,
             FlushTick(w) \/ RunSpawned(w) \/ FlushBuffer(w) \/ FinalFlush(w)
      PROVE  StatsInv'
  <2>1. PICK entry \in {"need", "gate"} : Acquire(w, entry)
    BY <1>2 DEF FlushTick, RunSpawned, FlushBuffer, FinalFlush
  <2>2. pc[w] = "idle" /\ pc' = [pc EXCEPT ![w] = entry]
        /\ UNCHANGED <<buffer, flushed, sent, failed, dropped, tallyVars, wkind, batch, count>>
    BY <2>1 DEF Acquire
  <2>3. Others(w) /\ pc'[w] = entry
    BY <1>0, <2>2 DEF Others, TypeOK, ControlType
  <2>4. QED
    BY <1>0, <2>2, <2>3, EmptyHanded DEF Batched
<1>3. ASSUME NEW w \in Workers, FlushStep(w) PROVE StatsInv'
  BY <1>0, <1>3, FlushStepStats
<1>4. CASE SpawnedSkips
  BY <1>0, <1>4, QuietStats DEF SpawnedSkips
<1>5. CASE Lifecycle
  <2>1. CASE ReloadKey
    BY <1>0, <2>1, ReloadKeyStats
  <2>2. CASE ClearMemory
    BY <1>0, <2>2, ClearStats
  <2>3. CASE AttachRedisHandler \/ Start \/ ConnectRedis \/ ReloadBegin \/ ReloadList
             \/ ReloadSkip \/ ReloadDone \/ Stop
    <3>1. UNCHANGED <<buffer, flushed, sent, failed, dropped, tallyVars, pc, wkind, batch, count>>
      BY <2>3 DEF AttachRedisHandler, Start, ConnectRedis, ReloadBegin, ReloadList, ReloadSkip,
                  ReloadDone, Stop
    <3>2. QED
      BY <1>0, <3>1, QuietStats
  <2>4. ASSUME NEW k \in Kind, ClearNamespace(k) PROVE StatsInv'
    BY <1>0, <2>4, QuietStats DEF ClearNamespace
  <2>5. QED
    BY <1>5, <2>1, <2>2, <2>3, <2>4 DEF Lifecycle
<1>6. CASE Environment
  <2>1. ASSUME NEW k \in Kind, GateExpires(k) PROVE StatsInv'
    BY <1>0, <2>1, QuietStats DEF GateExpires
  <2>2. ASSUME NEW k \in Kind, NEW n \in store[k], Expire(k, n) PROVE StatsInv'
    BY <1>0, <2>2, QuietStats DEF Expire
  <2>3. CASE IntervalElapses
    BY <1>0, <2>3, QuietStats DEF IntervalElapses
  <2>4. CASE Crash
    BY <1>0, <2>4, FreshlyNext DEF NewDraw, Crash
  <2>5. QED
    BY <1>6, <2>1, <2>2, <2>3, <2>4 DEF Environment
<1>7. CASE UNCHANGED vars
  BY <1>0, <1>7, QuietStats
<1>8. QED
  BY <1>1, <1>2, <1>3, <1>4, <1>5, <1>6, <1>7 DEF Next

(* The counters of get_stats add up at every step, with any number of      *)
(* flushes at once, through evictions, requeues, reloads, clear_buffer and *)
(* crashes.                                                                *)
THEOREM CountersAddUp == Spec => []StatsAddUp
<1>1. StatsInv => StatsAddUp
  BY DEF StatsInv
<1>2. QED
  BY <1>1, InitStats, StepStats, PTL DEF Spec
=============================================================================
