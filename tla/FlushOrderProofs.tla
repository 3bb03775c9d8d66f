------------------------- MODULE FlushOrderProofs -------------------------
(***************************************************************************)
(* Proofs of what FlushPipeline promises of an agent whose callers submit  *)
(* only once start() has reloaded, that is not started again after a stop  *)
(* and whose buffer nobody clears: no record is held twice in memory, and  *)
(* a record keeps its durable copy until its batch is confirmed.           *)
(***************************************************************************)
EXTENDS FlushSafetyProofs, WellFoundedInduction

USE DEF CommandFails, ForgetKey, ClearKeys, SetLastFlush, Connect, vars, coreVars, statVars,
        workVars, loadVars, fateVars, tallyVars

-----------------------------------------------------------------------------
(* The inductive invariant.                                                *)

(* No two places of a queue or of a batch hold the same record.            *)
Distinct(items) == \A i, j \in DOMAIN items : i # j => items[i].id # items[j].id

AllDistinct == /\ \A k \in Kind : Distinct(buffer[k])
               /\ \A w \in Workers : Distinct(batch[w])

(* Two permits, or a permit and the queue, hold different records.         *)
Apart ==
    \A w \in Workers :
        /\ Ids(batch[w]) \cap Ids(buffer[wkind[w]]) = {}
        /\ \A v \in Workers : v # w /\ wkind[v] = wkind[w] =>
              Ids(batch[v]) \cap Ids(batch[w]) = {}

(* The records whose keys a requeue is about to delete are in no queue and *)
(* in no batch.                                                            *)
Gone ==
    \A w \in Workers :
        /\ evicted[w] \cap Ids(buffer[wkind[w]]) = {}
        /\ \A v \in Workers : wkind[v] = wkind[w] =>
              evicted[w] \cap Ids(batch[v]) = {}

(* Every record that is queued, in flight, being forgotten or stored was   *)
(* accepted: the next number is new.                                       *)
Known ==
    /\ \A k \in Kind : Ids(buffer[k]) \cup store[k] \subseteq 1..accepted[k]
    /\ \A w \in Workers :
          Ids(batch[w]) \cup evicted[w] \subseteq 1..accepted[wkind[w]]

(* Until the reload is over no caller is inside enqueue and no permit has  *)
(* got past an empty drain; the queues fill up with what the reload found, *)
(* events first, and what it has still to load is in neither.              *)
Early == main \notin {"up", "stopping", "stopped"}

Fresh ==
    Early =>
        /\ \A c \in Callers : pending[c] = "none"
        /\ \A w \in Workers : pc[w] \in {"idle", "need", "gate", "drain"}
        /\ main \notin {"list", "load"} => \A k \in Kind : buffer[k] = <<>>
        /\ main = "list" => buffer[loadKind] = <<>>
        /\ loadKind = "events" => buffer["metrics"] = <<>>
        /\ main = "load" => toLoad \cap Ids(buffer[loadKind]) = {}

PlacesInv == AllDistinct /\ Apart /\ Gone /\ Known

HeldInv == LossInv /\ PlacesInv /\ Fresh /\ DurableUntilConfirmed

-----------------------------------------------------------------------------
(* Lemmas on the operators the steps are built from.                       *)

(* The reload takes the listed records smallest key first.                 *)
LEMMA MinLeast ==
  ASSUME NEW T \in SUBSET Nat, T # {}
  PROVE  Min(T) \in T /\ \A n \in T : Min(T) <= n
<1>1. IsWellFoundedOn(OpToRel(<, Nat), Nat)
  BY NatLessThanWellFounded, Zenon
<1>2. PICK x \in T : \A y \in T : ~(<<y, x>> \in OpToRel(<, Nat))
  BY <1>1, WFMin, Zenon
<1>3. \A y \in T : ~(y < x)
  BY <1>2 DEF OpToRel
<1>4. \E m \in T : \A n \in T : m <= n
  BY <1>3
<1>5. QED
  BY <1>4 DEF Min

(* A record with a new number keeps a queue free of duplicates.            *)
LEMMA DistinctAppend ==
  ASSUME NEW s \in Seq(BufferedItem), NEW e \in BufferedItem
  PROVE  /\ Distinct(s) /\ e.id \notin Ids(s) => Distinct(Append(s, e))
         /\ LiveKeys(Append(s, e)) \subseteq LiveKeys(s) \cup IF e.keyed THEN {e.id} ELSE {}
<1>1. /\ DOMAIN Append(s, e) = 1..(Len(s) + 1)
      /\ DOMAIN s = 1..Len(s)
      /\ Len(s) \in Nat
      /\ \A i \in DOMAIN s : Append(s, e)[i] = s[i]
      /\ Append(s, e)[Len(s) + 1] = e
  OBVIOUS
<1>2. \A i \in DOMAIN Append(s, e) : i \in DOMAIN s \/ i = Len(s) + 1
  BY <1>1
<1>3. ASSUME Distinct(s), e.id \notin Ids(s) PROVE Distinct(Append(s, e))
  <2> SUFFICES ASSUME NEW i \in DOMAIN Append(s, e), NEW j \in DOMAIN Append(s, e), i # j
               PROVE  Append(s, e)[i].id # Append(s, e)[j].id
    BY DEF Distinct
  <2>1. \A m \in DOMAIN s : s[m].id # e.id
    BY <1>3 DEF Ids
  <2>2. QED
    BY <1>1, <1>2, <1>3, <2>1 DEF Distinct
<1>4. LiveKeys(Append(s, e)) \subseteq LiveKeys(s) \cup IF e.keyed THEN {e.id} ELSE {}
  <2> SUFFICES ASSUME NEW i \in DOMAIN Append(s, e), Append(s, e)[i].keyed
               PROVE  Append(s, e)[i].id \in LiveKeys(s) \cup IF e.keyed THEN {e.id} ELSE {}
    BY DEF LiveKeys
  <2>1. CASE i \in DOMAIN s
    BY <1>1, <2>1 DEF LiveKeys
  <2>2. CASE i = Len(s) + 1
    BY <1>1, <2>2
  <2>3. QED
    BY <1>2, <2>1, <2>2
<1>5. QED
  BY <1>3, <1>4

(* What is left after the oldest record is evicted.                        *)
LEMMA DistinctTail ==
  ASSUME NEW s \in Seq(BufferedItem), s # <<>>
  PROVE  /\ Distinct(s) => Distinct(Tail(s)) /\ Head(s).id \notin Ids(Tail(s))
         /\ LiveKeys(Tail(s)) \subseteq LiveKeys(s)
<1>1. /\ Len(s) \in Nat \ {0}
      /\ DOMAIN s = 1..Len(s)
      /\ DOMAIN Tail(s) = 1..(Len(s) - 1)
      /\ Head(s) = s[1]
      /\ \A i \in 1..(Len(s) - 1) : Tail(s)[i] = s[i + 1]
  OBVIOUS
<1>2. 1 \in DOMAIN s /\ \A i \in DOMAIN Tail(s) : /\ i + 1 \in DOMAIN s
                                                  /\ i + 1 # 1
                                                  /\ Tail(s)[i] = s[i + 1]
  BY <1>1
<1>3. \A i, j \in DOMAIN Tail(s) : i # j => i + 1 # j + 1
  BY <1>1
<1>4. ASSUME Distinct(s) PROVE Distinct(Tail(s))
  BY <1>2, <1>3, <1>4 DEF Distinct
<1>5. ASSUME Distinct(s) PROVE Head(s).id \notin Ids(Tail(s))
  BY <1>1, <1>2, <1>5 DEF Distinct, Ids
<1>6. LiveKeys(Tail(s)) \subseteq LiveKeys(s)
  BY <1>2 DEF LiveKeys
<1>7. QED
  BY <1>4, <1>5, <1>6

(* Where the items of a requeue come from: what is kept is a prefix of the *)
(* batch followed by the queue, what is evicted comes after it.            *)
LEMMA RequeuePlaces ==
  ASSUME NEW s \in Seq(BufferedItem), NEW t \in Seq(BufferedItem)
  PROVE  /\ \A i \in DOMAIN Kept(s, t) : i \in DOMAIN (s \o t) /\ Kept(s, t)[i] = (s \o t)[i]
         /\ \A i \in DOMAIN Overflow(s, t) :
               /\ BufferSize + i \in DOMAIN (s \o t)
               /\ Overflow(s, t)[i] = (s \o t)[BufferSize + i]
         /\ \A i \in DOMAIN Kept(s, t) : \A j \in DOMAIN Overflow(s, t) : i < BufferSize + j
         /\ DOMAIN Kept(s, t) \in SUBSET Nat /\ DOMAIN Overflow(s, t) \in SUBSET Nat
<1> DEFINE all == s \o t
           cut == IF Len(all) <= BufferSize THEN Len(all) ELSE BufferSize
<1>1. DOMAIN all = 1..Len(all)
  OBVIOUS
<1>a. all \in Seq(BufferedItem) /\ Len(all) \in Nat
  OBVIOUS
<1>n. Len(all) \in Nat /\ BufferSize \in Nat
  BY <1>a, SizeAssumption
<1>2. Kept(s, t) = SubSeq(all, 1, cut) /\ Overflow(s, t) = SubSeq(all, BufferSize + 1, Len(all))
  BY DEF Kept, Overflow
<1>3. cut \in 0..Len(all) /\ cut \in Nat /\ cut <= BufferSize /\ BufferSize \in Nat
  BY <1>n
<1> HIDE DEF all, cut
<1>4. /\ DOMAIN SubSeq(all, 1, cut) = 1..cut
      /\ \A i \in 1..cut : SubSeq(all, 1, cut)[i] = all[i]
  BY <1>a, <1>3
<1> DEFINE rest == SubSeq(all, BufferSize + 1, Len(all))
<1>5. /\ Len(rest) \in Nat
      /\ Len(all) <= BufferSize => Len(rest) = 0
      /\ Len(all) > BufferSize => Len(rest) = Len(all) - BufferSize
  BY <1>a, <1>n
<1>b. /\ rest \in Seq(BufferedItem) /\ DOMAIN rest = 1..Len(rest)
      /\ Len(rest) = IF Len(all) <= BufferSize THEN 0 ELSE Len(all) - BufferSize
      /\ \A i \in 1..Len(rest) : rest[i] = all[BufferSize + i]
  BY <1>a, <1>n
<1> HIDE DEF rest
<1>6. \A i \in 1..Len(rest) : BufferSize + i \in 1..Len(all)
  BY <1>n, <1>5, SplitArithmetic
<1>7. \A i \in 1..cut : i \in 1..Len(all)
  BY <1>n, <1>3
<1>8. \A i \in 1..cut : \A j \in 1..Len(rest) : i < BufferSize + j
  <2>1. cut \in Nat /\ cut <= BufferSize /\ BufferSize \in Nat /\ Len(rest) \in Nat
    BY <1>3, <1>5
  <2>2. QED
    BY <2>1
<1>9. Kept(s, t) = SubSeq(all, 1, cut) /\ Overflow(s, t) = rest
  BY <1>2 DEF rest
<1>10. 1..cut \subseteq Nat /\ 1..Len(rest) \subseteq Nat
  OBVIOUS
<1>11. /\ DOMAIN Kept(s, t) = 1..cut /\ DOMAIN Overflow(s, t) = 1..Len(rest)
       /\ \A i \in 1..cut : Kept(s, t)[i] = all[i]
       /\ \A i \in 1..Len(rest) : Overflow(s, t)[i] = all[BufferSize + i]
  BY <1>4, <1>9, <1>b
<1> HIDE DEF rest
<1>12. QED
  BY <1>1, <1>6, <1>7, <1>8, <1>10, <1>11 DEF all

(* A batch and a queue without common records, one after the other.        *)
LEMMA DistinctConcat ==
  ASSUME NEW s \in Seq(BufferedItem), NEW t \in Seq(BufferedItem)
  PROVE  /\ Distinct(s) /\ Distinct(t) /\ Ids(s) \cap Ids(t) = {} => Distinct(s \o t)
         /\ LiveKeys(s \o t) \subseteq LiveKeys(s) \cup LiveKeys(t)
<1> DEFINE all == s \o t
<1>1. /\ Len(s) \in Nat /\ Len(t) \in Nat
      /\ DOMAIN s = 1..Len(s) /\ DOMAIN t = 1..Len(t)
      /\ DOMAIN all = 1..(Len(s) + Len(t))
      /\ \A i \in 1..Len(s) : all[i] = s[i]
      /\ \A i \in 1..(Len(s) + Len(t)) : i > Len(s) => all[i] = t[i - Len(s)]
  OBVIOUS
<1> HIDE DEF all
<1>2. \A i \in DOMAIN all : \/ i \in DOMAIN s /\ all[i] = s[i]
                            \/ i - Len(s) \in DOMAIN t /\ all[i] = t[i - Len(s)]
  <2> TAKE i \in DOMAIN all
  <2>1. i \in 1..Len(s) \/ (i > Len(s) /\ i - Len(s) \in 1..Len(t))
    BY <1>1
  <2>2. QED
    BY <1>1, <2>1
<1>3. \A i, j \in DOMAIN all : i # j => i - Len(s) # j - Len(s)
  BY <1>1
<1>4. ASSUME Distinct(s), Distinct(t), Ids(s) \cap Ids(t) = {} PROVE Distinct(all)
  <2>1. \A i \in DOMAIN s : \A j \in DOMAIN t : s[i].id # t[j].id
    BY <1>4 DEF Ids
  <2>2. QED
    BY <1>2, <1>3, <1>4, <2>1 DEF Distinct
<1>5. LiveKeys(all) \subseteq LiveKeys(s) \cup LiveKeys(t)
  BY <1>2 DEF LiveKeys
<1>6. QED
  BY <1>4, <1>5 DEF all

(* A requeue of a batch keeps the queue free of duplicates, and what it    *)
(* evicts is not what it keeps.                                            *)
LEMMA DistinctRequeue ==
  ASSUME NEW s \in Seq(BufferedItem), NEW t \in Seq(BufferedItem),
         Distinct(s), Distinct(t), Ids(s) \cap Ids(t) = {}
  PROVE  /\ Distinct(Kept(s, t))
         /\ Ids(Kept(s, t)) \cap Ids(Overflow(s, t)) = {}
         /\ LiveKeys(Kept(s, t)) \subseteq LiveKeys(s) \cup LiveKeys(t)
<1>1. Distinct(s \o t) /\ LiveKeys(s \o t) \subseteq LiveKeys(s) \cup LiveKeys(t)
  BY DistinctConcat
<1>2. /\ \A i \in DOMAIN Kept(s, t) : i \in DOMAIN (s \o t) /\ Kept(s, t)[i] = (s \o t)[i]
      /\ \A i \in DOMAIN Overflow(s, t) :
            /\ BufferSize + i \in DOMAIN (s \o t)
            /\ Overflow(s, t)[i] = (s \o t)[BufferSize + i]
      /\ \A i \in DOMAIN Kept(s, t) : \A j \in DOMAIN Overflow(s, t) : i < BufferSize + j
      /\ DOMAIN Kept(s, t) \in SUBSET Nat /\ DOMAIN Overflow(s, t) \in SUBSET Nat
  BY RequeuePlaces
<1>3. Distinct(Kept(s, t))
  BY <1>1, <1>2 DEF Distinct
<1>4. LiveKeys(Kept(s, t)) \subseteq LiveKeys(s \o t)
  BY <1>2 DEF LiveKeys
<1>5. ASSUME NEW i \in DOMAIN Kept(s, t), NEW j \in DOMAIN Overflow(s, t)
      PROVE  Kept(s, t)[i].id # Overflow(s, t)[j].id
  <2>1. i # BufferSize + j
    <3>1. i < BufferSize + j /\ i \in Nat /\ j \in Nat /\ BufferSize \in Nat
      BY <1>2, SizeAssumption
    <3>2. QED
      BY <3>1
  <2>2. /\ i \in DOMAIN (s \o t) /\ Kept(s, t)[i] = (s \o t)[i]
        /\ BufferSize + j \in DOMAIN (s \o t) /\ Overflow(s, t)[j] = (s \o t)[BufferSize + j]
    BY <1>2, Zenon
  <2>3. (s \o t)[i].id # (s \o t)[BufferSize + j].id
    BY <1>1, <2>1, <2>2 DEF Distinct
  <2>4. QED
    BY <2>2, <2>3
<1>6. Ids(Kept(s, t)) \cap Ids(Overflow(s, t)) = {}
  BY <1>5 DEF Ids
<1>7. QED
  BY <1>1, <1>3, <1>4, <1>6

-----------------------------------------------------------------------------
(* Who holds what.                                                         *)

(* A step of permit w moves records between its queue and its batch, or    *)
(* out of both: no permit and no queue comes to share a record.            *)
LEMMA PermitPlaces ==
  ASSUME TypeOK, TypeOK', PlacesInv, NEW w \in Workers, NEW k \in Kind, wkind[w] = k,
         \A v \in Workers \ {w} : /\ wkind'[v] = wkind[v] /\ batch'[v] = batch[v]
                                  /\ evicted'[v] = evicted[v],
         \A j \in Kind : j # k => buffer'[j] = buffer[j],
         Distinct(buffer'[k]), Distinct(batch'[w]),
         Ids(buffer'[k]) \subseteq Ids(buffer[k]) \cup Ids(batch[w]),
         Ids(batch'[w]) \subseteq Ids(buffer[k]) \cup Ids(batch[w]),
         evicted'[w] \subseteq Ids(buffer[k]) \cup Ids(batch[w]) \cup evicted[w],
         Ids(batch'[w]) \cap Ids(buffer'[k]) = {},
         evicted'[w] \cap Ids(batch'[w]) = {}, evicted'[w] \cap Ids(buffer'[k]) = {},
         wkind'[w] = k \/ (batch'[w] = <<>> /\ evicted'[w] = {}),
         \A j \in Kind : store'[j] \subseteq store[j],
         UNCHANGED accepted
  PROVE  PlacesInv'
<1>0. wkind \in [Workers -> Kind] /\ wkind' \in [Workers -> Kind]
  BY DEF TypeOK, ControlType
<1>1. AllDistinct /\ Apart /\ Gone /\ Known
  BY DEF PlacesInv
<1>2. AllDistinct'
  BY <1>1 DEF AllDistinct
<1>3. \A v \in Workers \ {w} : wkind[v] = k =>
         /\ Ids(batch[v]) \cap Ids(buffer[k]) = {}
         /\ Ids(batch[v]) \cap Ids(batch[w]) = {}
         /\ evicted[v] \cap Ids(buffer[k]) = {}
         /\ evicted[v] \cap Ids(batch[w]) = {}
         /\ evicted[w] \cap Ids(batch[v]) = {}
  BY <1>1 DEF Apart, Gone
<1>4. \A v \in Workers \ {w} : wkind[v] = k =>
         /\ Ids(batch[v]) \cap Ids(buffer'[k]) = {}
         /\ Ids(batch[v]) \cap Ids(batch'[w]) = {}
         /\ evicted[v] \cap Ids(buffer'[k]) = {}
         /\ evicted[v] \cap Ids(batch'[w]) = {}
         /\ evicted'[w] \cap Ids(batch[v]) = {}
  BY <1>3
<1>5. wkind'[w] # k => Ids(batch'[w]) = {} /\ evicted'[w] = {}
  BY NoIds
<1>6. Apart'
  <2> SUFFICES ASSUME NEW v \in Workers
               PROVE  /\ Ids(batch'[v]) \cap Ids(buffer'[wkind'[v]]) = {}
                      /\ \A u \in Workers : u # v /\ wkind'[u] = wkind'[v] =>
                            Ids(batch'[u]) \cap Ids(batch'[v]) = {}
    BY DEF Apart
  <2>1. CASE v = w
    BY <1>0, <1>4, <1>5, <2>1
  <2>2. CASE v # w
    <3>1. /\ Ids(batch[v]) \cap Ids(buffer[wkind[v]]) = {}
          /\ \A u \in Workers : u # v /\ wkind[u] = wkind[v] =>
                Ids(batch[u]) \cap Ids(batch[v]) = {}
      BY <1>1, <2>2 DEF Apart
    <3>2. Ids(batch'[v]) \cap Ids(buffer'[wkind'[v]]) = {}
      BY <1>0, <1>4, <2>2, <3>1
    <3>3. ASSUME NEW u \in Workers, u # v, wkind'[u] = wkind'[v]
          PROVE  Ids(batch'[u]) \cap Ids(batch'[v]) = {}
      BY <1>0, <1>4, <1>5, <2>2, <3>1, <3>3
    <3>4. QED
      BY <3>2, <3>3
  <2>3. QED
    BY <2>1, <2>2
<1>7. Gone'
  <2> SUFFICES ASSUME NEW v \in Workers
               PROVE  /\ evicted'[v] \cap Ids(buffer'[wkind'[v]]) = {}
                      /\ \A u \in Workers : wkind'[u] = wkind'[v] =>
                            evicted'[v] \cap Ids(batch'[u]) = {}
    BY DEF Gone
  <2>1. CASE v = w
    BY <1>0, <1>4, <1>5, <2>1
  <2>2. CASE v # w
    <3>1. /\ evicted[v] \cap Ids(buffer[wkind[v]]) = {}
          /\ \A u \in Workers : wkind[u] = wkind[v] => evicted[v] \cap Ids(batch[u]) = {}
      BY <1>1, <2>2 DEF Gone
    <3>2. evicted'[v] \cap Ids(buffer'[wkind'[v]]) = {}
      BY <1>0, <1>4, <2>2, <3>1
    <3>3. ASSUME NEW u \in Workers, wkind'[u] = wkind'[v]
          PROVE  evicted'[v] \cap Ids(batch'[u]) = {}
      BY <1>0, <1>4, <1>5, <2>2, <3>1, <3>3
    <3>4. QED
      BY <3>2, <3>3
  <2>3. QED
    BY <2>1, <2>2
<1>8. Known'
  <2>1. Ids(buffer[k]) \cup Ids(batch[w]) \cup evicted[w] \subseteq 1..accepted[k]
    BY <1>1 DEF Known
  <2>2. \A j \in Kind : Ids(buffer'[j]) \cup store'[j] \subseteq 1..accepted'[j]
    BY <1>1, <2>1 DEF Known
  <2>3. \A v \in Workers : Ids(batch'[v]) \cup evicted'[v] \subseteq 1..accepted'[wkind'[v]]
    <3> TAKE v \in Workers
    <3>1. CASE v = w
      BY <1>5, <2>1, <3>1
    <3>2. CASE v # w
      BY <1>1, <3>2 DEF Known
    <3>3. QED
      BY <3>1, <3>2
  <2>4. QED
    BY <2>2, <2>3 DEF Known
<1>9. QED
  BY <1>2, <1>6, <1>7, <1>8 DEF PlacesInv

(* A step that lets no permit move and adds to one queue only records that *)
(* nobody holds.                                                           *)
LEMMA QueuePlaces ==
  ASSUME TypeOK, TypeOK', PlacesInv, NEW k \in Kind,
         UNCHANGED <<batch, wkind, evicted>>,
         \A j \in Kind : j # k => buffer'[j] = buffer[j],
         Distinct(buffer'[k]),
         \A n \in Ids(buffer'[k]) \ Ids(buffer[k]) :
            /\ n \in 1..accepted'[k]
            /\ \A w \in Workers : wkind[w] = k => n \notin Ids(batch[w]) /\ n \notin evicted[w],
         \A j \in Kind : 1..accepted[j] \subseteq 1..accepted'[j],
         \A j \in Kind : store'[j] \subseteq 1..accepted'[j]
  PROVE  PlacesInv'
<1>0. wkind \in [Workers -> Kind] /\ \A w \in Workers : wkind'[w] = wkind[w]
  BY DEF TypeOK, ControlType
<1>1. AllDistinct /\ Apart /\ Gone /\ Known
  BY DEF PlacesInv
<1>2. AllDistinct'
  BY <1>1 DEF AllDistinct
<1>3. Apart'
  BY <1>0, <1>1 DEF Apart
<1>4. Gone'
  BY <1>0, <1>1 DEF Gone
<1>5. Known'
  BY <1>0, <1>1 DEF Known
<1>6. QED
  BY <1>2, <1>3, <1>4, <1>5 DEF PlacesInv

-----------------------------------------------------------------------------
(* Durable copies.                                                         *)

(* Membership in the unconfirmed records, before and after a step.         *)
LEMMA UnconfirmedMember ==
  \A k, n : n \in Unconfirmed(k) <=>
     \/ n \in LiveKeys(buffer[k])
     \/ \E w \in Workers : /\ wkind[w] = k /\ pc[w] \in {"send", "requeue"}
                           /\ n \in LiveKeys(batch[w])
BY DEF Unconfirmed

(* The same after the step.                                                *)
LEMMA UnconfirmedMemberNext ==
  \A k, n : n \in Unconfirmed(k)' <=>
     \/ n \in LiveKeys(buffer'[k])
     \/ \E w \in Workers : /\ wkind'[w] = k /\ pc'[w] \in {"send", "requeue"}
                           /\ n \in LiveKeys(batch'[w])
BY DEF Unconfirmed

(* An unconfirmed record is in memory.                                     *)
LEMMA UnconfirmedHeld ==
  ASSUME NEW k \in Kind, NEW n \in Unconfirmed(k)
  PROVE  \/ n \in Ids(buffer[k])
         \/ \E w \in Workers : /\ wkind[w] = k /\ pc[w] \in {"send", "requeue"}
                               /\ n \in Ids(batch[w])
<1>1. LiveKeys(buffer[k]) \subseteq Ids(buffer[k])
      /\ \A w \in Workers : LiveKeys(batch[w]) \subseteq Ids(batch[w])
  BY LiveAreIds
<1>2. QED
  BY <1>1, UnconfirmedMember

(* A record that a step makes or leaves unconfirmed must be stored, or     *)
(* have been unconfirmed and kept what copy it had.                        *)
LEMMA DurableStep ==
  ASSUME DurableUntilConfirmed,
         \A k \in Kind : \A n \in Unconfirmed(k)' :
            \/ n \in store'[k]
            \/ n \in Unconfirmed(k) /\ n \notin store[k] \ store'[k],
         \A k \in Kind : volatile[k] \subseteq volatile'[k]
  PROVE  DurableUntilConfirmed'
BY DEF DurableUntilConfirmed

(* A permit's step brings no record into the unconfirmed ones.             *)
LEMMA PermitUnconfirmed ==
  ASSUME NEW w \in Workers, NEW k \in Kind, wkind[w] = k,
         \A v \in Workers \ {w} : /\ wkind'[v] = wkind[v] /\ batch'[v] = batch[v]
                                  /\ pc'[v] = pc[v],
         \A j \in Kind : j # k => buffer'[j] = buffer[j],
         \/ LiveKeys(buffer'[k]) \subseteq LiveKeys(buffer[k])
         \/ /\ pc[w] \in {"send", "requeue"}
            /\ LiveKeys(buffer'[k]) \subseteq LiveKeys(buffer[k]) \cup LiveKeys(batch[w]),
         pc'[w] \in {"send", "requeue"} =>
            /\ wkind'[w] = k
            /\ \/ LiveKeys(batch'[w]) \subseteq LiveKeys(buffer[k])
               \/ pc[w] \in {"send", "requeue"} /\ batch'[w] = batch[w]
  PROVE  \A j \in Kind : Unconfirmed(j)' \subseteq Unconfirmed(j)
<1> SUFFICES ASSUME NEW j \in Kind, NEW n \in Unconfirmed(j)' PROVE n \in Unconfirmed(j)
  OBVIOUS
<1>1. CASE n \in LiveKeys(buffer'[j])
  BY <1>1, UnconfirmedMember
<1>2. ASSUME NEW v \in Workers, wkind'[v] = j, pc'[v] \in {"send", "requeue"},
             n \in LiveKeys(batch'[v])
      PROVE  n \in Unconfirmed(j)
  <2>1. CASE v = w
    BY <1>2, <2>1, UnconfirmedMember
  <2>2. CASE v # w
    BY <1>2, <2>2, UnconfirmedMember
  <2>3. QED
    BY <2>1, <2>2
<1>3. QED
  BY <1>1, <1>2, UnconfirmedMemberNext

-----------------------------------------------------------------------------
(* The steps of callers.                                                   *)

(* What a step must show besides the types and the absence of loss.        *)
HeldCore == PlacesInv /\ DurableUntilConfirmed

(* enqueue gives the record a number nobody has seen, and a key only when  *)
(* the store has acknowledged it.                                          *)
LEMMA InsertHeld ==
  ASSUME HeldInv, TypeOK', NEW c \in Callers, NEW k \in Kind, Insert(c, k)
  PROVE  HeldCore'
<1>0. TypeOK /\ ItemType /\ ControlType /\ RecordType /\ PlacesInv /\ DurableUntilConfirmed
  BY DEF HeldInv, LossInv, TypeOK
<1>1. PICK keyed \in BOOLEAN :
        /\ PersistItem(k, accepted[k] + 1, keyed)
        /\ buffer' = [buffer EXCEPT ![k] =
                         Append(@, [id |-> accepted[k] + 1, keyed |-> keyed])]
  BY DEF Insert
<1> DEFINE n == accepted[k] + 1
           item == [id |-> n, keyed |-> keyed]
<1>2. n \in RecordId /\ item \in BufferedItem /\ item.id = n /\ item.keyed = keyed
  BY <1>0 DEF RecordType, RecordId, BufferedItem
<1>3. buffer[k] \in Seq(BufferedItem) /\ buffer'[k] = Append(buffer[k], item)
      /\ \A j \in Kind : j # k => buffer'[j] = buffer[j]
  BY <1>0, <1>1 DEF ItemType
<1>4. UNCHANGED <<batch, wkind, pc, evicted>>
  BY DEF Insert
<1>5. accepted[k] \in Nat /\ accepted' = [accepted EXCEPT ![k] = n]
  BY <1>0 DEF Insert, RecordType
<1>6. \A j \in Kind : 1..accepted[j] \subseteq 1..accepted'[j]
  BY <1>0, <1>5 DEF RecordType
<1>7. n \in 1..accepted'[k] /\ n \notin 1..accepted[k]
  BY <1>0, <1>5 DEF RecordType
<1>8. \A j \in Kind : /\ store[j] \subseteq store'[j]
                      /\ store'[j] \subseteq store[j] \cup IF j = k THEN {n} ELSE {}
                      /\ volatile[j] \subseteq volatile'[j]
  BY <1>0, <1>1 DEF PersistItem, SetKey, RecordType
<1>9. keyed => n \in store'[k]
  BY <1>0, <1>1 DEF PersistItem, SetKey, RecordType
<1> HIDE DEF n
<1>10. Ids(buffer'[k]) = Ids(buffer[k]) \cup {n}
       /\ LiveKeys(buffer'[k]) \subseteq LiveKeys(buffer[k]) \cup IF keyed THEN {n} ELSE {}
  BY <1>2, <1>3, AppendItem, DistinctAppend
<1> HIDE DEF item
<1>11. Known /\ AllDistinct
  BY <1>0 DEF PlacesInv
<1>12. Distinct(buffer'[k])
  <2>1. n \notin Ids(buffer[k]) /\ Distinct(buffer[k])
    BY <1>7, <1>11 DEF Known, AllDistinct
  <2>2. QED
    BY <1>2, <1>3, <2>1, DistinctAppend
<1>13. \A w \in Workers : wkind[w] = k => n \notin Ids(batch[w]) /\ n \notin evicted[w]
  BY <1>7, <1>11 DEF Known
<1>14. \A j \in Kind : store'[j] \subseteq 1..accepted'[j]
  BY <1>6, <1>7, <1>8, <1>11 DEF Known
<1>15. PlacesInv'
  <2>1. \A m \in Ids(buffer'[k]) \ Ids(buffer[k]) :
           /\ m \in 1..accepted'[k]
           /\ \A w \in Workers : wkind[w] = k => m \notin Ids(batch[w]) /\ m \notin evicted[w]
    BY <1>7, <1>10, <1>13
  <2>2. QED
    BY <1>0, <1>3, <1>4, <1>6, <1>12, <1>14, <2>1, QueuePlaces
<1>16. \A j \in Kind : \A m \in Unconfirmed(j)' : m \in store'[j] \/ m \in Unconfirmed(j)
  <2> SUFFICES ASSUME NEW j \in Kind, NEW m \in Unconfirmed(j)'
               PROVE  m \in store'[j] \/ m \in Unconfirmed(j)
    OBVIOUS
  <2>1. CASE m \in LiveKeys(buffer'[j])
    <3>1. m \in LiveKeys(buffer[j]) \/ (j = k /\ keyed /\ m = n)
      BY <1>3, <1>10, <2>1
    <3>2. QED
      BY <1>9, <3>1, UnconfirmedMember
  <2>2. CASE \E w \in Workers : /\ wkind'[w] = j /\ pc'[w] \in {"send", "requeue"}
                                /\ m \in LiveKeys(batch'[w])
    BY <1>4, <2>2, UnconfirmedMember
  <2>3. QED
    BY <2>1, <2>2, UnconfirmedMemberNext
<1>17. DurableUntilConfirmed'
  BY <1>0, <1>8, <1>16, DurableStep
<1>18. QED
  BY <1>15, <1>17 DEF HeldCore

(* enqueue under Drop deletes the key of the record it takes out, which no *)
(* other place holds.                                                      *)
LEMMA EvictOldestHeld ==
  ASSUME HeldInv, TypeOK', NEW c \in Callers, NEW k \in Kind, EvictOldest(c, k)
  PROVE  HeldCore'
<1> DEFINE gone == Head(buffer[k]).id
<1>0. TypeOK /\ ItemType /\ ControlType /\ RecordType /\ PlacesInv /\ DurableUntilConfirmed
  BY DEF HeldInv, LossInv, TypeOK
<1>1. buffer[k] # <<>> /\ buffer[k] \in Seq(BufferedItem)
  BY <1>0, SizeAssumption DEF ItemType, EvictOldest, HasRoom
<1>2. buffer'[k] = Tail(buffer[k]) /\ \A j \in Kind : j # k => buffer'[j] = buffer[j]
  BY <1>0 DEF EvictOldest, ItemType
<1>3. UNCHANGED <<batch, wkind, pc, evicted, volatile, accepted>>
  BY DEF EvictOldest
<1>4. \A j \in Kind : /\ store[j] \ store'[j] \subseteq IF j = k THEN {gone} ELSE {}
                      /\ store'[j] \subseteq store[j]
  <2>1. Ids(<<Head(buffer[k])>>) = {gone}
    BY DEF Ids
  <2>2. LiveKeys(<<Head(buffer[k])>>) \subseteq {gone}
    BY <2>1, LiveAreIds
  <2>3. DeleteKeys(k, LiveKeys(<<Head(buffer[k])>>))
    BY DEF EvictOldest
  <2>4. QED
    BY <1>0, <2>2, <2>3, DeleteKeysEffect DEF RecordType
<1>5. AllDistinct /\ Apart /\ Known
  BY <1>0 DEF PlacesInv
<1>6. Distinct(buffer'[k]) /\ gone \notin Ids(buffer'[k])
      /\ LiveKeys(buffer'[k]) \subseteq LiveKeys(buffer[k])
      /\ Ids(buffer[k]) = {gone} \cup Ids(buffer'[k])
  BY <1>1, <1>2, <1>5, DistinctTail, TailItems DEF AllDistinct
<1> HIDE DEF gone
<1>7. PlacesInv'
  <2>2. \A j \in Kind : /\ 1..accepted[j] \subseteq 1..accepted'[j]
                        /\ store'[j] \subseteq 1..accepted'[j]
    BY <1>3, <1>4, <1>5 DEF Known
  <2>3. Ids(buffer'[k]) \ Ids(buffer[k]) = {}
    BY <1>6
  <2>4. QED
    BY <1>0, <1>2, <1>3, <1>6, <2>2, <2>3, QueuePlaces
<1>8. \A j \in Kind : \A m \in Unconfirmed(j)' : m \in Unconfirmed(j) /\ m \notin store[j] \ store'[j]
  <2> SUFFICES ASSUME NEW j \in Kind, NEW m \in Unconfirmed(j)'
               PROVE  m \in Unconfirmed(j) /\ (j = k => m # gone)
    BY <1>4
  <2>1. CASE m \in LiveKeys(buffer'[j])
    <3>1. m \in Ids(buffer'[j])
      BY <2>1, LiveAreIds
    <3>2. QED
      BY <1>2, <1>6, <2>1, <3>1, UnconfirmedMember
  <2>2. ASSUME NEW w \in Workers, wkind'[w] = j, pc'[w] \in {"send", "requeue"},
               m \in LiveKeys(batch'[w])
        PROVE  m \in Unconfirmed(j) /\ (j = k => m # gone)
    <3>1. m \in Ids(batch[w]) /\ wkind[w] = j
      BY <1>3, <2>2, LiveAreIds
    <3>2. j = k => gone \in Ids(buffer[wkind[w]])
      BY <1>6, <3>1
    <3>3. Ids(batch[w]) \cap Ids(buffer[wkind[w]]) = {}
      BY <1>5 DEF Apart
    <3>4. m \in Unconfirmed(j)
      BY <1>3, <2>2, UnconfirmedMember
    <3>5. QED
      BY <3>1, <3>2, <3>3, <3>4
  <2>3. QED
    BY <2>1, <2>2, UnconfirmedMemberNext
<1>9. DurableUntilConfirmed'
  BY <1>0, <1>3, <1>8, DurableStep
<1>10. QED
  BY <1>7, <1>9 DEF HeldCore

-----------------------------------------------------------------------------
(* The steps of a flush.                                                   *)

(* What the step lemmas below start from.                                  *)
LEMMA HeldParts ==
  ASSUME HeldInv, NEW w \in Workers
  PROVE  /\ TypeOK /\ ItemType /\ ControlType /\ RecordType
         /\ PlacesInv /\ AllDistinct /\ Apart /\ Gone /\ Known /\ WorkerShape
         /\ DurableUntilConfirmed
         /\ wkind[w] \in Kind /\ buffer[wkind[w]] \in Seq(BufferedItem)
         /\ batch[w] \in Seq(BufferedItem)
         /\ Distinct(buffer[wkind[w]]) /\ Distinct(batch[w])
         /\ Ids(batch[w]) \cap Ids(buffer[wkind[w]]) = {}
         /\ evicted[w] \cap Ids(batch[w]) = {} /\ evicted[w] \cap Ids(buffer[wkind[w]]) = {}
<1>1. TypeOK /\ ItemType /\ ControlType /\ RecordType /\ PlacesInv /\ WorkerShape
      /\ DurableUntilConfirmed
  BY DEF HeldInv, LossInv, TypeOK
<1>2. AllDistinct /\ Apart /\ Gone /\ Known
  BY <1>1 DEF PlacesInv
<1>3. wkind[w] \in Kind /\ buffer[wkind[w]] \in Seq(BufferedItem)
      /\ batch[w] \in Seq(BufferedItem)
  BY <1>1 DEF ItemType, ControlType
<1>4. Distinct(buffer[wkind[w]]) /\ Distinct(batch[w])
  BY <1>2, <1>3 DEF AllDistinct
<1>5. Ids(batch[w]) \cap Ids(buffer[wkind[w]]) = {}
  BY <1>2 DEF Apart
<1>6. evicted[w] \cap Ids(batch[w]) = {} /\ evicted[w] \cap Ids(buffer[wkind[w]]) = {}
  BY <1>2 DEF Gone
<1>7. QED
  BY <1>1, <1>2, <1>3, <1>4, <1>5, <1>6

(* A permit that moves no record: taking it, reading the gate, sending,    *)
(* deleting keys.  Keys it deletes must belong to no unconfirmed record.   *)
LEMMA PermitOnly ==
  ASSUME HeldInv, TypeOK', NEW w \in Workers,
         UNCHANGED <<buffer, batch, evicted, accepted>>,
         \A v \in Workers \ {w} : wkind'[v] = wkind[v] /\ pc'[v] = pc[v],
         wkind'[w] = wkind[w] \/ (batch[w] = <<>> /\ evicted[w] = {}),
         pc'[w] \in {"send", "requeue"} => pc[w] \in {"send", "requeue"} /\ wkind'[w] = wkind[w],
         \A j \in Kind : /\ store'[j] \subseteq store[j]
                         /\ \A n \in store[j] \ store'[j] : n \notin Unconfirmed(j),
         UNCHANGED volatile
  PROVE  HeldCore'
<1> DEFINE k == wkind[w]
<1>0. /\ TypeOK /\ PlacesInv /\ DurableUntilConfirmed /\ k \in Kind
      /\ Distinct(buffer[k]) /\ Distinct(batch[w])
      /\ Ids(batch[w]) \cap Ids(buffer[k]) = {}
      /\ evicted[w] \cap Ids(batch[w]) = {} /\ evicted[w] \cap Ids(buffer[k]) = {}
  BY HeldParts
<1> HIDE DEF k
<1>1. wkind[w] = k /\ (wkind'[w] = k \/ (batch'[w] = <<>> /\ evicted'[w] = {}))
  BY DEF k
<1>2. PlacesInv'
  BY <1>0, <1>1, PermitPlaces
<1>3. \A j \in Kind : Unconfirmed(j)' \subseteq Unconfirmed(j)
  BY <1>0, <1>1, PermitUnconfirmed
<1>4. DurableUntilConfirmed'
  BY <1>0, <1>3, DurableStep
<1>5. QED
  BY <1>2, <1>4 DEF HeldCore

(* Taking a permit, the need for a flush, the gate, the backoff.           *)
LEMMA IdleHeld ==
  ASSUME HeldInv, TypeOK', NEW w \in Workers,
         \/ FlushTick(w) \/ RunSpawned(w) \/ FlushBuffer(w) \/ FinalFlush(w)
         \/ FlushIfNeeded(w) \/ ReadGate(w) \/ Backoff(w)
  PROVE  HeldCore'
<1>0. ControlType /\ WorkerShape
  BY HeldParts
<1>1. UNCHANGED <<buffer, batch, evicted, accepted, store, volatile>>
  BY DEF FlushTick, RunSpawned, FlushBuffer, FinalFlush, Acquire, FlushIfNeeded, ReadGate, Backoff
<1>2. /\ \A v \in Workers \ {w} : wkind'[v] = wkind[v] /\ pc'[v] = pc[v]
      /\ pc'[w] \in {"idle", "need", "gate", "drain", "forget"}
  BY <1>0, EndKindEffect DEF ControlType, FlushTick, RunSpawned, FlushBuffer, FinalFlush,
     Acquire, FlushIfNeeded, ReadGate, Backoff
<1>3. wkind'[w] = wkind[w] \/ pc[w] = "gate"
  BY DEF FlushTick, RunSpawned, FlushBuffer, FinalFlush, Acquire, FlushIfNeeded, ReadGate, Backoff
<1>4. wkind'[w] = wkind[w] \/ (batch[w] = <<>> /\ evicted[w] = {})
  BY <1>0, <1>3 DEF WorkerShape
<1>5. QED
  BY <1>1, <1>2, <1>4, PermitOnly

(* send_batch moves nothing, whatever its outcome.                         *)
LEMMA SendBatchHeld ==
  ASSUME HeldInv, TypeOK', NEW w \in Workers, SendBatch(w)
  PROVE  HeldCore'
<1>0. ControlType
  BY HeldParts
<1>1. UNCHANGED <<buffer, batch, wkind, evicted, accepted, store, volatile>>
  BY DEF SendBatch
<1>2. pc[w] = "send" /\ \A v \in Workers \ {w} : pc'[v] = pc[v]
  BY <1>0 DEF ControlType, SendBatch, SendAccepted, SendPermanentDrop, SendFailed
<1>3. QED
  BY <1>1, <1>2, PermitOnly

(* confirm_keys deletes the keys of its own batch, which is settled.       *)
LEMMA ConfirmedApart ==
  ASSUME HeldInv, NEW w \in Workers, pc[w] \notin {"send", "requeue"}
  PROVE  \A n \in LiveKeys(batch[w]) \cup evicted[w] : n \notin Unconfirmed(wkind[w])
<1>0. Apart /\ Gone /\ wkind[w] \in Kind
  BY HeldParts
<1> SUFFICES ASSUME NEW n \in Ids(batch[w]) \cup evicted[w], n \in Unconfirmed(wkind[w])
             PROVE  FALSE
  BY LiveAreIds
<1>1. n \notin Ids(buffer[wkind[w]])
  BY <1>0 DEF Apart, Gone
<1>2. ASSUME NEW v \in Workers, wkind[v] = wkind[w], pc[v] \in {"send", "requeue"},
             n \in Ids(batch[v])
      PROVE  FALSE
  <2>1. v # w
    BY <1>2
  <2>2. Ids(batch[v]) \cap Ids(batch[w]) = {} /\ evicted[w] \cap Ids(batch[v]) = {}
    BY <1>0, <1>2, <2>1 DEF Apart, Gone
  <2>3. QED
    BY <1>2, <2>2
<1>3. QED
  BY <1>0, <1>1, <1>2, UnconfirmedHeld

(* confirm_keys after an accepted batch.                                   *)
LEMMA ConfirmKeysHeld ==
  ASSUME HeldInv, TypeOK', NEW w \in Workers, ConfirmKeys(w)
  PROVE  HeldCore'
<1>0. ControlType /\ RecordType /\ wkind[w] \in Kind
  BY HeldParts
<1>1. UNCHANGED <<buffer, batch, wkind, evicted, accepted, volatile>>
  BY DEF ConfirmKeys
<1>2. pc[w] = "confirm" /\ pc'[w] = "account" /\ \A v \in Workers \ {w} : pc'[v] = pc[v]
  BY <1>0 DEF ControlType, ConfirmKeys
<1>3. DeleteKeys(wkind[w], LiveKeys(batch[w]))
  BY DEF ConfirmKeys
<1>4. \A j \in Kind : /\ store[j] \ store'[j] \subseteq IF j = wkind[w] THEN LiveKeys(batch[w]) ELSE {}
                      /\ store'[j] \subseteq store[j]
  BY <1>0, <1>3, DeleteKeysEffect DEF RecordType
<1>5. \A n \in LiveKeys(batch[w]) : n \notin Unconfirmed(wkind[w])
  BY <1>2, ConfirmedApart
<1>6. QED
  BY <1>0, <1>1, <1>2, <1>4, <1>5, PermitOnly

(* drain moves the whole queue into an empty batch.                        *)
LEMMA DrainHeld ==
  ASSUME HeldInv, TypeOK', NEW w \in Workers, Drain(w)
  PROVE  HeldCore'
<1> DEFINE k == wkind[w]
<1>0. /\ TypeOK /\ ItemType /\ ControlType /\ PlacesInv /\ WorkerShape /\ DurableUntilConfirmed
      /\ k \in Kind /\ Distinct(buffer[k])
  BY HeldParts
<1>1. /\ pc[w] = "drain"
      /\ buffer' = [buffer EXCEPT ![k] = <<>>]
      /\ batch' = [batch EXCEPT ![w] = buffer[k]]
      /\ UNCHANGED <<evicted, store, accepted, volatile>>
  BY DEF Drain, LeftByDrain
<1>2. batch[w] = <<>> /\ evicted[w] = {}
  BY <1>0, <1>1 DEF WorkerShape
<1>3. \A v \in Workers \ {w} : /\ pc'[v] = pc[v] /\ wkind'[v] = wkind[v]
                               /\ batch'[v] = batch[v] /\ evicted'[v] = evicted[v]
  BY <1>0, <1>1, EndKindEffect DEF Drain, ControlType, ItemType
<1>4. \/ buffer[k] = <<>> /\ pc'[w] \in {"gate", "idle"}
      \/ buffer[k] # <<>> /\ pc'[w] = "send" /\ wkind'[w] = k
  BY <1>0, EndKindEffect DEF Drain, ControlType
<1>5. batch'[w] = buffer[k] /\ buffer'[k] = <<>> /\ evicted'[w] = {}
      /\ \A j \in Kind : j # k => buffer'[j] = buffer[j]
  BY <1>0, <1>1, <1>2 DEF ItemType
<1>6. wkind[w] = k
  OBVIOUS
<1>7. Distinct(<<>>) /\ Ids(<<>>) = {} /\ LiveKeys(<<>>) = {}
  BY NoIds DEF Distinct
<1> HIDE DEF k
<1>8. PlacesInv'
  <2>1. Distinct(buffer'[k]) /\ Distinct(batch'[w])
    BY <1>0, <1>5, <1>7
  <2>2. /\ Ids(buffer'[k]) = {} /\ Ids(batch'[w]) \subseteq Ids(buffer[k]) \cup Ids(batch[w])
        /\ wkind'[w] = k \/ (batch'[w] = <<>> /\ evicted'[w] = {})
    BY <1>4, <1>5, <1>7
  <2>3. \A j \in Kind : store'[j] \subseteq store[j]
    BY <1>1
  <2>4. evicted'[w] \cap Ids(batch'[w]) = {} /\ evicted'[w] \cap Ids(buffer'[k]) = {}
        /\ Ids(batch'[w]) \cap Ids(buffer'[k]) = {}
        /\ evicted'[w] \subseteq Ids(buffer[k]) \cup Ids(batch[w]) \cup evicted[w]
        /\ Ids(buffer'[k]) \subseteq Ids(buffer[k]) \cup Ids(batch[w])
    BY <1>5, <2>2
  <2>5. UNCHANGED accepted
    BY <1>1
  <2>6. QED
    BY <1>0, <1>3, <1>5, <1>6, <2>1, <2>2, <2>3, <2>4, <2>5, PermitPlaces
<1>9. \A j \in Kind : Unconfirmed(j)' \subseteq Unconfirmed(j)
  <2>1. LiveKeys(buffer'[k]) \subseteq LiveKeys(buffer[k])
        /\ LiveKeys(batch'[w]) \subseteq LiveKeys(buffer[k])
    BY <1>5, <1>7
  <2>2. QED
    BY <1>0, <1>3, <1>4, <1>5, <1>6, <2>1, PermitUnconfirmed
<1>10. DurableUntilConfirmed'
  BY <1>0, <1>1, <1>9, DurableStep
<1>11. QED
  BY <1>8, <1>10 DEF HeldCore

(* A permit lets its settled batch go, and deletes at most the keys of the *)
(* records it alone holds.                                                 *)
LEMMA ReleaseHeld ==
  ASSUME HeldInv, TypeOK', NEW w \in Workers,
         AccountAccepted(w) \/ ConfirmDropped(w) \/ ForgetEvicted(w)
  PROVE  HeldCore'
<1> DEFINE k == wkind[w]
           keys == LiveKeys(batch[w]) \cup evicted[w]
<1>0. /\ TypeOK /\ ItemType /\ ControlType /\ RecordType /\ PlacesInv /\ WorkerShape
      /\ DurableUntilConfirmed /\ k \in Kind /\ Distinct(buffer[k])
  BY HeldParts
<1>1. /\ pc[w] \in {"account", "confirmDrop", "forget"}
      /\ UNCHANGED <<buffer, accepted, volatile>>
  BY DEF AccountAccepted, ConfirmDropped, ForgetEvicted
<1>2. EndKind(w)
  BY DEF AccountAccepted, ConfirmDropped, ForgetEvicted
<1>3. batch'[w] = <<>> /\ evicted'[w] = {}
  <2>1. CASE AccountAccepted(w) \/ ConfirmDropped(w)
    <3>1. batch' = [batch EXCEPT ![w] = <<>>] /\ UNCHANGED evicted /\ evicted[w] = {}
      BY <1>0, <2>1 DEF AccountAccepted, ConfirmDropped, WorkerShape
    <3>2. QED
      BY <1>0, <3>1 DEF ItemType
  <2>2. CASE ForgetEvicted(w)
    <3>1. evicted' = [evicted EXCEPT ![w] = {}] /\ UNCHANGED batch /\ batch[w] = <<>>
      BY <1>0, <2>2 DEF ForgetEvicted, WorkerShape
    <3>2. QED
      BY <1>0, <3>1 DEF RecordType
  <2>3. QED
    BY <2>1, <2>2
<1>4. \A v \in Workers \ {w} : batch'[v] = batch[v] /\ evicted'[v] = evicted[v]
  BY <1>0 DEF AccountAccepted, ConfirmDropped, ForgetEvicted, ItemType, RecordType
<1>5. /\ pc'[w] \in {"gate", "idle"}
      /\ \A v \in Workers \ {w} : pc'[v] = pc[v] /\ wkind'[v] = wkind[v]
  BY <1>0, <1>2, EndKindEffect
<1>6. \A j \in Kind : /\ store[j] \ store'[j] \subseteq IF j = k THEN keys ELSE {}
                      /\ store'[j] \subseteq store[j]
  <2>1. CASE AccountAccepted(w)
    BY <2>1 DEF AccountAccepted
  <2>2. CASE ConfirmDropped(w) \/ ForgetEvicted(w)
    <3>1. PICK gone : gone \subseteq keys /\ DeleteKeys(k, gone)
      BY <2>2 DEF ConfirmDropped, ForgetEvicted
    <3>2. QED
      BY <1>0, <3>1, DeleteKeysEffect DEF RecordType
  <2>3. QED
    BY <2>1, <2>2
<1>7. \A n \in keys : n \notin Unconfirmed(k)
  BY <1>1, ConfirmedApart
<1>8. wkind[w] = k
  OBVIOUS
<1>9. Distinct(<<>>) /\ Ids(<<>>) = {} /\ LiveKeys(<<>>) = {}
  BY NoIds DEF Distinct
<1> HIDE DEF k, keys
<1>10. PlacesInv'
  <2>1. /\ Distinct(buffer'[k]) /\ Distinct(batch'[w]) /\ Ids(batch'[w]) = {}
        /\ Ids(buffer'[k]) \subseteq Ids(buffer[k]) \cup Ids(batch[w])
        /\ \A j \in Kind : j # k => buffer'[j] = buffer[j]
        /\ \A j \in Kind : store'[j] \subseteq store[j]
        /\ UNCHANGED accepted
    BY <1>0, <1>1, <1>3, <1>6, <1>9
  <2>2. QED
    BY <1>0, <1>3, <1>4, <1>5, <1>8, <2>1, PermitPlaces
<1>11. \A j \in Kind : Unconfirmed(j)' \subseteq Unconfirmed(j)
  <2>1. LiveKeys(buffer'[k]) \subseteq LiveKeys(buffer[k])
        /\ \A j \in Kind : j # k => buffer'[j] = buffer[j]
    BY <1>1
  <2>2. QED
    BY <1>0, <1>4, <1>5, <1>8, <2>1, PermitUnconfirmed
<1>12. DurableUntilConfirmed'
  BY <1>0, <1>1, <1>6, <1>7, <1>11, DurableStep
<1>13. QED
  BY <1>10, <1>12 DEF HeldCore

(* A requeue puts the batch before the queue; what falls off the end is in *)
(* no place any more, so its keys may go.                                  *)
LEMMA RequeueHeld ==
  ASSUME HeldInv, TypeOK', NEW w \in Workers, Requeue(w)
  PROVE  HeldCore'
<1> DEFINE k == wkind[w]
           out == Overflow(batch[w], buffer[k])
<1>0. /\ TypeOK /\ ItemType /\ ControlType /\ RecordType /\ PlacesInv /\ WorkerShape
      /\ DurableUntilConfirmed /\ k \in Kind
      /\ buffer[k] \in Seq(BufferedItem) /\ batch[w] \in Seq(BufferedItem)
      /\ Distinct(buffer[k]) /\ Distinct(batch[w]) /\ Ids(batch[w]) \cap Ids(buffer[k]) = {}
  BY HeldParts
<1>1. /\ pc[w] = "requeue"
      /\ buffer' = [buffer EXCEPT ![k] = Kept(batch[w], buffer[k])]
      /\ evicted' = [evicted EXCEPT ![w] = LiveKeys(out)]
      /\ batch' = [batch EXCEPT ![w] = <<>>]
      /\ pc' = [pc EXCEPT ![w] = "backoff"]
      /\ UNCHANGED <<wkind, store, accepted, volatile>>
  BY DEF Requeue
<1>2. /\ batch'[w] = <<>> /\ buffer'[k] = Kept(batch[w], buffer[k])
      /\ evicted'[w] = LiveKeys(out) /\ pc'[w] = "backoff" /\ wkind'[w] = k /\ wkind[w] = k
      /\ \A j \in Kind : j # k => buffer'[j] = buffer[j]
  BY <1>0, <1>1 DEF ItemType, ControlType, RecordType
<1>3. \A v \in Workers \ {w} : /\ pc'[v] = pc[v] /\ wkind'[v] = wkind[v]
                               /\ batch'[v] = batch[v] /\ evicted'[v] = evicted[v]
  BY <1>0, <1>1 DEF ItemType, ControlType, RecordType
<1>4. /\ Distinct(buffer'[k])
      /\ Ids(buffer'[k]) \cap Ids(out) = {}
      /\ LiveKeys(buffer'[k]) \subseteq LiveKeys(batch[w]) \cup LiveKeys(buffer[k])
  BY <1>0, <1>2, DistinctRequeue
<1>5. Ids(batch[w]) \cup Ids(buffer[k]) = Ids(buffer'[k]) \cup Ids(out)
  BY <1>0, <1>2, RequeueSplit
<1> HIDE DEF k, out
<1>6. evicted'[w] \subseteq Ids(out)
  BY <1>2, LiveAreIds
<1>7. Distinct(<<>>) /\ Ids(<<>>) = {} /\ LiveKeys(<<>>) = {}
  BY NoIds DEF Distinct
<1>8. PlacesInv'
  <2>1. /\ Distinct(batch'[w]) /\ Ids(batch'[w]) = {}
        /\ Ids(buffer'[k]) \subseteq Ids(buffer[k]) \cup Ids(batch[w])
        /\ evicted'[w] \subseteq Ids(buffer[k]) \cup Ids(batch[w]) \cup evicted[w]
        /\ evicted'[w] \cap Ids(buffer'[k]) = {}
    BY <1>2, <1>4, <1>5, <1>6, <1>7
  <2>2. (\A j \in Kind : store'[j] \subseteq store[j]) /\ UNCHANGED accepted
    BY <1>1
  <2>3. QED
    BY <1>0, <1>2, <1>3, <1>4, <2>1, <2>2, PermitPlaces
<1>9. \A j \in Kind : Unconfirmed(j)' \subseteq Unconfirmed(j)
  <2>1. LiveKeys(buffer'[k]) \subseteq LiveKeys(buffer[k]) \cup LiveKeys(batch[w])
        /\ pc[w] \in {"send", "requeue"} /\ pc'[w] \notin {"send", "requeue"}
    BY <1>1, <1>2, <1>4
  <2>2. QED
    BY <1>0, <1>2, <1>3, <2>1, PermitUnconfirmed
<1>10. DurableUntilConfirmed'
  BY <1>0, <1>1, <1>9, DurableStep
<1>11. QED
  BY <1>8, <1>10 DEF HeldCore

-----------------------------------------------------------------------------
(* The reload, expiry and crashes.                                         *)

(* The steps that move no record and no permit.                            *)
LEMMA QuietHeldStep ==
  ASSUME HeldInv, UNCHANGED <<buffer, batch, wkind, evicted, accepted, pc>>,
         \A j \in Kind : /\ store'[j] \subseteq store[j]
                         /\ volatile[j] \subseteq volatile'[j]
                         /\ store[j] \ store'[j] \subseteq volatile'[j]
  PROVE  HeldCore'
<1>0. AllDistinct /\ Apart /\ Gone /\ Known /\ DurableUntilConfirmed
  BY DEF HeldInv, PlacesInv
<1>1. AllDistinct' /\ Apart' /\ Gone'
  BY <1>0 DEF AllDistinct, Apart, Gone
<1>2. Known'
  BY <1>0 DEF Known
<1>3. \A k : Unconfirmed(k)' = Unconfirmed(k)
  BY DEF Unconfirmed
<1>4. DurableUntilConfirmed'
  BY <1>0, <1>3 DEF DurableUntilConfirmed
<1>5. QED
  BY <1>1, <1>2, <1>4 DEF HeldCore, PlacesInv

(* The TTL of a record passes: from then on it counts as volatile.         *)
LEMMA ExpireHeld ==
  ASSUME HeldInv, NEW k \in Kind, NEW n \in store[k], Expire(k, n)
  PROVE  HeldCore'
<1>0. RecordType
  BY DEF HeldInv, LossInv, TypeOK
<1>1. UNCHANGED <<buffer, batch, wkind, evicted, accepted, pc>>
  BY DEF Expire
<1>2. store' = [store EXCEPT ![k] = @ \ {n}] /\ volatile' = [volatile EXCEPT ![k] = @ \cup {n}]
  BY DEF Expire
<1>3. \A j \in Kind : /\ store'[j] = IF j = k THEN store[j] \ {n} ELSE store[j]
                      /\ volatile'[j] = IF j = k THEN volatile[j] \cup {n} ELSE volatile[j]
  BY <1>0, <1>2 DEF RecordType
<1>4. \A j \in Kind : /\ store'[j] \subseteq store[j]
                      /\ volatile[j] \subseteq volatile'[j]
                      /\ store[j] \ store'[j] \subseteq volatile'[j]
  BY <1>3
<1>5. QED
  BY <1>1, <1>4, QuietHeldStep

(* After a crash nothing is held.                                          *)
LEMMA CrashHeld ==
  ASSUME HeldInv, Crash
  PROVE  HeldCore'
<1>0. Known
  BY DEF HeldInv, PlacesInv
<1>1. /\ buffer' = [k \in Kind |-> <<>>] /\ batch' = [w \in Workers |-> <<>>]
      /\ evicted' = [w \in Workers |-> {}] /\ UNCHANGED <<store, accepted>>
  BY DEF Crash
<1>2. /\ \A k \in Kind : buffer'[k] = <<>>
      /\ \A w \in Workers : batch'[w] = <<>> /\ evicted'[w] = {}
  BY <1>1
<1>3. Distinct(<<>>) /\ Ids(<<>>) = {} /\ LiveKeys(<<>>) = {}
  BY NoIds DEF Distinct
<1>4. AllDistinct' /\ Apart' /\ Gone'
  BY <1>2, <1>3 DEF AllDistinct, Apart, Gone
<1>5. Known'
  BY <1>0, <1>1, <1>2, <1>3 DEF Known
<1>6. \A k \in Kind : \A n : n \notin Unconfirmed(k)'
  BY <1>2, <1>3, UnconfirmedMemberNext
<1>7. DurableUntilConfirmed'
  BY <1>6 DEF DurableUntilConfirmed
<1>8. QED
  BY <1>4, <1>5, <1>7 DEF HeldCore, PlacesInv

(* The reload deletes the key of the record it pushes out of a full queue, *)
(* never that of the record it takes in.                                   *)
LEMMA ReloadKeyHeld ==
  ASSUME HeldInv, TypeOK', ReloadKey
  PROVE  HeldCore' /\ toLoad' \cap Ids(buffer'[loadKind]) = {}
<1> DEFINE r == Min(toLoad)
           rest == IF HasRoom(loadKind) THEN buffer[loadKind] ELSE Tail(buffer[loadKind])
           out == IF HasRoom(loadKind) THEN <<>> ELSE <<Head(buffer[loadKind])>>
           item == [id |-> r, keyed |-> TRUE]
<1>0. /\ TypeOK /\ ItemType /\ ControlType /\ RecordType /\ PlacesInv /\ WorkerShape /\ Fresh
      /\ DurableUntilConfirmed
  BY DEF HeldInv, LossInv, TypeOK
<1>p. AllDistinct /\ Apart /\ Gone /\ Known
  BY <1>0 DEF PlacesInv
<1>k. PICK k \in Kind : k = loadKind
  BY <1>0 DEF ControlType
<1>1. /\ main = "load" /\ toLoad # {} /\ r \in store[k] /\ toLoad' = toLoad \ {r}
      /\ DeleteKeys(k, LiveKeys(out))
      /\ buffer' = [buffer EXCEPT ![k] = Append(rest, item)]
      /\ UNCHANGED <<batch, wkind, pc, evicted, accepted, volatile>>
  BY <1>k DEF ReloadKey, GetKey
<1>2. r \in RecordId /\ item \in BufferedItem /\ buffer[k] \in Seq(BufferedItem)
      /\ item.id = r /\ item.keyed
  BY <1>0, <1>1 DEF ItemType, RecordType, BufferedItem
<1>3. r \in toLoad
  <2>1. toLoad \in SUBSET Nat
    BY <1>0 DEF RecordType, RecordId
  <2>2. QED
    BY <1>1, <2>1, MinLeast
<1>4. toLoad \cap Ids(buffer[k]) = {}
      /\ \A w \in Workers : batch[w] = <<>> /\ evicted[w] = {}
  <2>1. \A w \in Workers : pc[w] \in {"idle", "need", "gate", "drain"}
    BY <1>0, <1>1 DEF Fresh, Early
  <2>2. \A w \in Workers : batch[w] = <<>> /\ evicted[w] = {}
    BY <1>0, <2>1 DEF WorkerShape
  <2>3. QED
    BY <1>0, <1>1, <1>k, <2>2 DEF Fresh, Early
<1>5. /\ rest \in Seq(BufferedItem) /\ Distinct(rest)
      /\ Ids(buffer[k]) = Ids(rest) \cup Ids(out) /\ Ids(rest) \cap Ids(out) = {}
      /\ LiveKeys(rest) \subseteq LiveKeys(buffer[k])
  <2>1. CASE HasRoom(k)
    BY <1>2, <1>k, <1>p, <2>1, NoIds DEF AllDistinct
  <2>2. CASE ~HasRoom(k)
    <3>1. buffer[k] # <<>>
      BY <1>2, <2>2, SizeAssumption DEF HasRoom
    <3>2. Ids(<<Head(buffer[k])>>) = {Head(buffer[k]).id}
      BY DEF Ids
    <3>3. Distinct(buffer[k])
      BY <1>p DEF AllDistinct
    <3>4. rest = Tail(buffer[k]) /\ out = <<Head(buffer[k])>>
      BY <1>k, <2>2
    <3> HIDE DEF rest, out
    <3>5. /\ Tail(buffer[k]) \in Seq(BufferedItem) /\ Distinct(Tail(buffer[k]))
          /\ Ids(buffer[k]) = {Head(buffer[k]).id} \cup Ids(Tail(buffer[k]))
          /\ Head(buffer[k]).id \notin Ids(Tail(buffer[k]))
          /\ LiveKeys(Tail(buffer[k])) \subseteq LiveKeys(buffer[k])
      BY <1>2, <3>1, <3>3, TailItems, DistinctTail
    <3>6. QED
      BY <3>2, <3>4, <3>5
  <2>3. QED
    BY <2>1, <2>2
<1>6. LiveKeys(out) \subseteq Ids(out)
  BY LiveAreIds
<1> HIDE DEF r, rest, out
<1>7. r \notin Ids(rest) /\ r \notin Ids(out)
  BY <1>3, <1>4, <1>5
<1>8. buffer'[k] = Append(rest, item) /\ \A j \in Kind : j # k => buffer'[j] = buffer[j]
  BY <1>0, <1>1 DEF ItemType
<1> HIDE DEF item
<1>9. /\ Distinct(buffer'[k]) /\ Ids(buffer'[k]) = Ids(rest) \cup {r}
      /\ LiveKeys(buffer'[k]) \subseteq LiveKeys(rest) \cup {r}
  <2>1. Distinct(buffer'[k]) /\ LiveKeys(buffer'[k]) \subseteq LiveKeys(rest) \cup {r}
    BY <1>2, <1>5, <1>7, <1>8, DistinctAppend
  <2>2. Ids(buffer'[k]) = Ids(rest) \cup {r}
    BY <1>2, <1>5, <1>8, AppendItem
  <2>3. QED
    BY <2>1, <2>2
<1>10. \A j \in Kind : /\ store[j] \ store'[j] \subseteq IF j = k THEN LiveKeys(out) ELSE {}
                       /\ store'[j] \subseteq store[j]
  BY <1>0, <1>1, DeleteKeysEffect DEF RecordType
<1>11. r \in store'[k] /\ r \in 1..accepted[k]
  BY <1>1, <1>6, <1>7, <1>10, <1>p DEF Known
<1>12. PlacesInv'
  <2>1. \A m \in Ids(buffer'[k]) \ Ids(buffer[k]) :
           /\ m \in 1..accepted'[k]
           /\ \A w \in Workers : wkind[w] = k => m \notin Ids(batch[w]) /\ m \notin evicted[w]
    BY <1>1, <1>4, <1>5, <1>9, <1>11, NoIds
  <2>2. \A j \in Kind : /\ 1..accepted[j] \subseteq 1..accepted'[j]
                        /\ store'[j] \subseteq 1..accepted'[j]
    BY <1>1, <1>10, <1>p DEF Known
  <2>3. QED
    BY <1>0, <1>1, <1>8, <1>9, <2>1, <2>2, QueuePlaces
<1>13. \A j \in Kind : \A m \in Unconfirmed(j)' :
          m \in store'[j] \/ (m \in Unconfirmed(j) /\ m \notin store[j] \ store'[j])
  <2> SUFFICES ASSUME NEW j \in Kind, NEW m \in Unconfirmed(j)'
               PROVE  m \in store'[j] \/ (m \in Unconfirmed(j) /\ m \notin store[j] \ store'[j])
    OBVIOUS
  <2>1. m \in LiveKeys(buffer'[j])
    BY <1>1, <1>4, NoIds, UnconfirmedMemberNext
  <2>2. CASE j # k
    BY <1>8, <1>10, <2>1, <2>2, UnconfirmedMember
  <2>3. CASE j = k /\ m = r
    BY <1>11, <2>3
  <2>4. CASE j = k /\ m # r
    <3>1. m \in LiveKeys(rest) /\ m \in Ids(rest)
      BY <1>9, <2>1, <2>4, LiveAreIds
    <3>2. m \in Unconfirmed(j) /\ m \notin LiveKeys(out)
      BY <1>5, <1>6, <2>4, <3>1, UnconfirmedMember
    <3>3. QED
      BY <1>10, <2>4, <3>2
  <2>5. QED
    BY <2>2, <2>3, <2>4
<1>14. DurableUntilConfirmed'
  BY <1>0, <1>1, <1>13, DurableStep
<1>15. toLoad' \cap Ids(buffer'[k]) = {}
  BY <1>1, <1>4, <1>5, <1>9
<1>16. QED
  BY <1>12, <1>14, <1>15, <1>k DEF HeldCore

-----------------------------------------------------------------------------
(* The start.                                                              *)

(* While the agent starts, permits hold nothing.                           *)
LEMMA EarlyPermits ==
  ASSUME HeldInv, Early
  PROVE  \A w \in Workers : /\ pc[w] \in {"idle", "need", "gate", "drain"}
                            /\ batch[w] = <<>> /\ evicted[w] = {}
BY DEF HeldInv, LossInv, Fresh, WorkerShape

(* What Fresh says is not disturbed by a step that leaves the start alone. *)
freshVars == <<main, loadKind, toLoad, pending, buffer>>

(* Without a budget for it, nobody starts a stopped agent.                 *)
LEMMA NoRestart ==
  ASSUME TypeOK, Budget.restarts = 0, Start
  PROVE  main = "new"
<1>1. used["restarts"] \in Nat /\ Budget["restarts"] = 0
  BY DEF TypeOK, CounterType, Cost
<1>2. ~Spend("restarts")
  BY <1>1 DEF Spend
<1>3. QED
  BY <1>2 DEF Start

(* A flush that begins while the agent starts finds nothing.               *)
LEMMA PermitFresh ==
  ASSUME HeldInv, NEW w \in Workers, Early', Early,
         \/ FlushTick(w) \/ RunSpawned(w) \/ FlushBuffer(w) \/ FinalFlush(w) \/ FlushStep(w)
  PROVE  Fresh'
<1>0. ControlType /\ ItemType /\ Fresh /\ pc[w] \in {"idle", "need", "gate", "drain"}
  BY EarlyPermits DEF HeldInv, LossInv, TypeOK
<1>1. \/ FlushTick(w) \/ RunSpawned(w) \/ FlushBuffer(w) \/ FinalFlush(w)
      \/ FlushIfNeeded(w) \/ ReadGate(w) \/ Drain(w)
  BY <1>0 DEF FlushStep, SendBatch, SendAccepted, SendPermanentDrop, SendFailed, ConfirmKeys,
     AccountAccepted, ConfirmDropped, Requeue, Backoff, ForgetEvicted
<1>2. UNCHANGED <<main, loadKind, toLoad, pending>>
  BY <1>1 DEF FlushTick, RunSpawned, FlushBuffer, FinalFlush, Acquire, FlushIfNeeded, ReadGate,
     Drain, Early
<1>3. UNCHANGED buffer
  <2>1. CASE Drain(w)
    <3>1. main \notin {"list", "load"} /\ wkind[w] \in Kind
      BY <1>0, <2>1 DEF Drain, CoreFree, ControlType
    <3>2. buffer[wkind[w]] = <<>>
      BY <1>0, <3>1 DEF Fresh
    <3>3. buffer' = [buffer EXCEPT ![wkind[w]] = <<>>]
      BY <2>1 DEF Drain, LeftByDrain
    <3>4. QED
      BY <1>0, <3>1, <3>2, <3>3 DEF ItemType
  <2>2. CASE ~Drain(w)
    BY <1>1, <2>2 DEF FlushTick, RunSpawned, FlushBuffer, FinalFlush, Acquire, FlushIfNeeded,
       ReadGate
  <2>3. QED
    BY <2>1, <2>2
<1>4. pc'[w] \in {"idle", "need", "gate", "drain"} /\ \A v \in Workers \ {w} : pc'[v] = pc[v]
  <2>1. CASE Drain(w)
    <3>1. main \notin {"list", "load"} /\ wkind[w] \in Kind
      BY <1>0, <2>1 DEF Drain, CoreFree, ControlType
    <3>2. buffer[wkind[w]] = <<>>
      BY <1>0, <3>1 DEF Fresh
    <3>3. EndKind(w)
      BY <2>1, <3>2 DEF Drain
    <3>4. QED
      BY <1>0, <3>3, EndKindEffect
  <2>2. CASE ReadGate(w)
    BY <1>0, <2>2, EndKindEffect DEF ReadGate, ControlType
  <2>3. CASE ~Drain(w) /\ ~ReadGate(w)
    BY <1>0, <1>1, <2>3 DEF FlushTick, RunSpawned, FlushBuffer, FinalFlush, Acquire,
       FlushIfNeeded, ControlType
  <2>4. QED
    BY <2>1, <2>2, <2>3
<1>5. QED
  BY <1>0, <1>2, <1>3, <1>4 DEF Fresh, Early

(* The agent's start: the queues are empty, then fill in key order.        *)
LEMMA ReloadFresh ==
  ASSUME HeldInv, Budget.restarts = 0,
         \/ Start \/ ConnectRedis \/ ReloadBegin \/ ReloadList \/ ReloadSkip \/ ReloadDone
  PROVE  Fresh'
<1>0. TypeOK /\ Fresh /\ main \in MainSet /\ loadKind \in Kind
  BY DEF HeldInv, LossInv, TypeOK, ControlType
<1>1. UNCHANGED <<pc, pending, buffer>>
  BY DEF Start, ConnectRedis, ReloadBegin, ReloadList, ReloadSkip, ReloadDone
<1>2. Early
  BY <1>0, NoRestart DEF Early, Start, ConnectRedis, ReloadBegin, ReloadList, ReloadSkip, ReloadDone
<1>3. CASE Start \/ ConnectRedis
  <2>1. main \in {"new", "connect"} /\ main' \in {"connect", "reload"} /\ UNCHANGED loadKind
    BY <1>0, <1>3, NoRestart DEF Start, ConnectRedis
  <2>2. QED
    BY <1>0, <1>1, <1>2, <2>1 DEF Fresh, Early
<1>4. CASE ReloadBegin
  <2>1. main = "reload" /\ main' \in {"list", "up"} /\ loadKind' = "events"
    BY <1>4 DEF ReloadBegin
  <2>2. QED
    BY <1>0, <1>1, <1>2, <2>1 DEF Fresh, Early, Kind
<1>5. CASE ReloadList
  <2>1. main = "list" /\ main' = "load" /\ UNCHANGED loadKind
    BY <1>5 DEF ReloadList
  <2>2. Ids(buffer[loadKind]) = {}
    BY <1>0, <1>2, <2>1, NoIds DEF Fresh
  <2>3. QED
    BY <1>0, <1>1, <1>2, <2>1, <2>2 DEF Fresh, Early
<1>6. CASE ReloadSkip
  <2>1. main = "load" /\ UNCHANGED <<main, loadKind>> /\ toLoad' \subseteq toLoad
    BY <1>6 DEF ReloadSkip
  <2>2. QED
    BY <1>0, <1>1, <1>2, <2>1 DEF Fresh, Early
<1>7. CASE ReloadDone
  <2>1. /\ main = "load"
        /\ \/ loadKind = "events" /\ main' = "list" /\ loadKind' = "metrics"
           \/ main' = "up"
    BY <1>7 DEF ReloadDone, Other
  <2>2. QED
    BY <1>0, <1>1, <1>2, <2>1 DEF Fresh, Early
<1>8. QED
  BY <1>3, <1>4, <1>5, <1>6, <1>7

(* Callers are let in only when the start is over.                         *)
LEMMA CallerFresh ==
  ASSUME HeldInv, EarlyIngest = FALSE, Ingest
  PROVE  ~Early /\ ~Early'
<1>0. Fresh
  BY DEF HeldInv
<1>1. PICK c \in Callers, k \in Kind :
         Submit(c, k) \/ Insert(c, k) \/ EvictOldest(c, k) \/ Reject(c, k)
  BY DEF Ingest
<1>2. k # "none"
  BY DEF Kind
<1>3. ~Early
  BY <1>0, <1>1, <1>2 DEF Fresh, Early, Submit, Insert, EvictOldest, Reject
<1>4. UNCHANGED main
  BY <1>1 DEF Submit, Insert, EvictOldest, Reject
<1>5. QED
  BY <1>3, <1>4 DEF Early

(* Every step keeps what is known of the start.                            *)
LEMMA StepFresh ==
  ASSUME HeldInv, EarlyIngest = FALSE, Budget.restarts = 0, Budget.clears = 0, [Next]_vars,
         TypeOK'
  PROVE  Fresh'
<1>0. Fresh /\ LossInv /\ TypeOK
  BY DEF HeldInv, LossInv
<1>1. CASE Ingest
  BY <1>1, CallerFresh DEF Fresh
<1>2. ASSUME NEW w \in Workers,
             \/ FlushTick(w) \/ RunSpawned(w) \/ FlushBuffer(w) \/ FinalFlush(w) \/ FlushStep(w)
      PROVE  Fresh'
  <2>1. CASE Early /\ Early'
    BY <1>2, <2>1, PermitFresh
  <2>2. CASE ~Early'
    BY <2>2 DEF Fresh
  <2>3. CASE ~Early /\ Early'
    <3>1. UNCHANGED main \/ main' = "stopped"
      BY <1>2 DEF FlushTick, RunSpawned, FlushBuffer, FinalFlush, FlushStep, Acquire,
         FlushIfNeeded, ReadGate, Drain, SendBatch, ConfirmKeys, AccountAccepted,
         ConfirmDropped, Requeue, Backoff, ForgetEvicted
    <3>2. QED
      BY <2>3, <3>1 DEF Early
  <2>4. QED
    BY <2>1, <2>2, <2>3
<1>3. CASE \/ SpawnedSkips \/ AttachRedisHandler \/ IntervalElapses \/ UNCHANGED vars
           \/ \E k \in Kind : GateExpires(k) \/ \E n \in store[k] : Expire(k, n)
  <2>1. UNCHANGED freshVars /\ UNCHANGED pc
    BY <1>3 DEF freshVars, SpawnedSkips, AttachRedisHandler, IntervalElapses, GateExpires, Expire
  <2>2. QED
    BY <1>0, <2>1 DEF Fresh, Early, freshVars
<1>4. CASE \/ Start \/ ConnectRedis \/ ReloadBegin \/ ReloadList \/ ReloadSkip \/ ReloadDone
  BY <1>4, ReloadFresh
<1>5. CASE ReloadKey
  <2>1. /\ main = "load" /\ UNCHANGED <<main, loadKind, pending, pc>>
        /\ toLoad' \cap Ids(buffer'[loadKind]) = {} /\ loadKind \in Kind
    BY <1>0, <1>5, ReloadKeyHeld DEF ReloadKey, GetKey, TypeOK, ControlType
  <2>2. loadKind = "events" => buffer'["metrics"] = buffer["metrics"]
    <3>1. PICK e : buffer' = [buffer EXCEPT ![loadKind] = e]
      BY <1>5 DEF ReloadKey, GetKey
    <3>2. QED
      BY <1>0, <3>1 DEF TypeOK, ItemType, Kind
  <2>3. QED
    BY <1>0, <2>1, <2>2 DEF Fresh, Early
<1>6. CASE Stop
  BY <1>6 DEF Stop, Fresh, Early
<1>7. CASE ClearMemory \/ \E k \in Kind : ClearNamespace(k)
  BY <1>0, <1>7, NoClear
<1>8. CASE Crash
  <2>1. /\ main' = "new" /\ buffer' = [k \in Kind |-> <<>>] /\ pending' = [c \in Callers |-> "none"]
        /\ pc' = [w \in Workers |-> "idle"]
    BY <1>8 DEF Crash
  <2>2. QED
    BY <2>1 DEF Fresh, Early, Kind
<1>9. QED
  BY <1>1, <1>2, <1>3, <1>4, <1>5, <1>6, <1>7, <1>8 DEF Next, Lifecycle, Environment

-----------------------------------------------------------------------------
(* The theorems.                                                           *)

(* Every step keeps the inductive invariant.                               *)
LEMMA StepHeld ==
  ASSUME HeldInv, EarlyIngest = FALSE, Budget.restarts = 0, Budget.clears = 0, [Next]_vars
  PROVE  HeldInv'
<1>0. LossInv /\ LossInv' /\ TypeOK'
  BY StepLoss DEF HeldInv, LossInv
<1>1. Fresh'
  BY <1>0, StepFresh
<1>2. ASSUME NEW c \in Callers, NEW k \in Kind, Insert(c, k) \/ EvictOldest(c, k)
      PROVE  HeldCore'
  BY <1>0, <1>2, InsertHeld, EvictOldestHeld
<1>3. ASSUME NEW w \in Workers,
             \/ FlushTick(w) \/ RunSpawned(w) \/ FlushBuffer(w) \/ FinalFlush(w)
             \/ FlushIfNeeded(w) \/ ReadGate(w) \/ Backoff(w)
      PROVE  HeldCore'
  BY <1>0, <1>3, IdleHeld
<1>4. ASSUME NEW w \in Workers,
             \/ Drain(w) \/ SendBatch(w) \/ ConfirmKeys(w) \/ AccountAccepted(w)
             \/ ConfirmDropped(w) \/ Requeue(w) \/ ForgetEvicted(w)
      PROVE  HeldCore'
  BY <1>0, <1>4, DrainHeld, SendBatchHeld, ConfirmKeysHeld, ReleaseHeld, RequeueHeld
<1>5. ASSUME \/ SpawnedSkips \/ AttachRedisHandler \/ Start \/ ConnectRedis
             \/ ReloadBegin \/ ReloadList \/ ReloadSkip \/ ReloadDone \/ Stop
             \/ IntervalElapses \/ UNCHANGED vars
             \/ \E c \in Callers, k \in Kind : Submit(c, k) \/ Reject(c, k)
             \/ \E k \in Kind : GateExpires(k)
      PROVE  HeldCore'
  <2>1. UNCHANGED <<buffer, batch, wkind, evicted, accepted, pc, store, volatile>>
    BY <1>5 DEF SpawnedSkips, AttachRedisHandler, Start, ConnectRedis, ReloadBegin, ReloadList,
       ReloadSkip, ReloadDone, Stop, IntervalElapses, Submit, Reject, GateExpires
  <2>2. QED
    BY <2>1, QuietHeldStep
<1>6. ASSUME ReloadKey \/ Crash \/ \E k \in Kind : \E n \in store[k] : Expire(k, n)
      PROVE  HeldCore'
  BY <1>0, <1>6, ReloadKeyHeld, CrashHeld, ExpireHeld
<1>7. ASSUME ClearMemory \/ \E k \in Kind : ClearNamespace(k) PROVE HeldCore'
  BY <1>0, <1>7, NoClear
<1>8. HeldCore'
  BY <1>2, <1>3, <1>4, <1>5, <1>6, <1>7 DEF Next, Ingest, FlushStep, Lifecycle, Environment
<1>9. QED
  BY <1>0, <1>1, <1>8 DEF HeldInv, HeldCore

(* Nothing is held at first.                                               *)
LEMMA InitHeld == Init => HeldInv
<1> SUFFICES ASSUME Init PROVE HeldInv
  OBVIOUS
<1>1. LossInv
  BY InitLoss
<1>2. /\ \A k \in Kind : buffer[k] = <<>> /\ store[k] = {}
      /\ \A w \in Workers : batch[w] = <<>> /\ evicted[w] = {} /\ pc[w] = "idle"
      /\ \A c \in Callers : pending[c] = "none"
      /\ main = "new"
  BY DEF Init
<1>3. Distinct(<<>>) /\ Ids(<<>>) = {} /\ LiveKeys(<<>>) = {}
  BY NoIds DEF Distinct
<1>4. PlacesInv
  BY <1>2, <1>3 DEF PlacesInv, AllDistinct, Apart, Gone, Known
<1>5. Fresh
  BY <1>2 DEF Fresh, Early, Kind
<1>6. \A k \in Kind : \A n : n \notin Unconfirmed(k)
  BY <1>2, <1>3, UnconfirmedMember
<1>7. DurableUntilConfirmed
  BY <1>6 DEF DurableUntilConfirmed
<1>8. QED
  BY <1>1, <1>4, <1>5, <1>7 DEF HeldInv

(* The invariant holds throughout.                                         *)
LEMMA HeldHolds ==
  ASSUME EarlyIngest = FALSE, Budget.restarts = 0, Budget.clears = 0
  PROVE  Spec => []HeldInv
<1>1. HeldInv /\ [Next]_vars => HeldInv'
  BY StepHeld
<1>2. QED
  BY <1>1, InitHeld, PTL DEF Spec

(* No record is in memory twice, however many callers and flushes race,    *)
(* sends fail, batches return and crashes are followed by a reload, as     *)
(* long as callers wait for start() and nobody starts a stopped agent or   *)
(* clears its buffer.                                                      *)
THEOREM NoRecordTwice ==
  ASSUME EarlyIngest = FALSE, Budget.restarts = 0, Budget.clears = 0
  PROVE  Spec => []HeldOnce
<1>1. HeldInv => HeldOnce
  BY DEF HeldInv, PlacesInv, AllDistinct, Apart, Distinct, HeldOnce
<1>2. QED
  BY <1>1, HeldHolds, PTL

(* Under the same conditions a keyed record in memory has its durable copy *)
(* until the server has confirmed its batch, unless its TTL passed: no     *)
(* confirmation or eviction ever deletes the key of another place's        *)
(* record.                                                                 *)
THEOREM CopyKeptUntilConfirmed ==
  ASSUME EarlyIngest = FALSE, Budget.restarts = 0, Budget.clears = 0
  PROVE  Spec => []DurableUntilConfirmed
<1>1. HeldInv => DurableUntilConfirmed
  BY DEF HeldInv
<1>2. QED
  BY <1>1, HeldHolds, PTL

-----------------------------------------------------------------------------
(* Order, with a single flush permit.                                      *)

Below(older, newer) == \A m \in older, n \in newer : m < n

(* What makes InOrder inductive: a batch is older than its queue, and what *)
(* the reload has loaded is older than what it has still to load.          *)
Ordered ==
    /\ \A k \in Kind : Increasing(buffer[k])
    /\ \A w \in Workers : /\ Increasing(batch[w])
                          /\ Below(Ids(batch[w]), Ids(buffer[wkind[w]]))
    /\ main = "load" => Below(Ids(buffer[loadKind]), toLoad)

(* Nothing is out of order in an empty queue.                              *)
LEMMA EmptyOrdered ==
  Increasing(<<>>) /\ \A T : Below(Ids(<<>>), T) /\ Below(T, Ids(<<>>))
BY NoIds DEF Increasing, Below

(* A newer record at the back keeps a queue in order.                      *)
LEMMA IncreasingAppend ==
  ASSUME NEW s \in Seq(BufferedItem), NEW e \in BufferedItem,
         Increasing(s), Below(Ids(s), {e.id})
  PROVE  Increasing(Append(s, e))
<1>1. /\ DOMAIN Append(s, e) = 1..(Len(s) + 1)
      /\ DOMAIN s = 1..Len(s)
      /\ Len(s) \in Nat
      /\ \A i \in DOMAIN s : Append(s, e)[i] = s[i]
      /\ Append(s, e)[Len(s) + 1] = e
  OBVIOUS
<1>2. \A i, j \in DOMAIN Append(s, e) : i < j =>
         i \in DOMAIN s /\ (j \in DOMAIN s \/ j = Len(s) + 1)
  BY <1>1
<1>3. \A m \in DOMAIN s : s[m].id < e.id
  BY DEF Ids, Below
<1>4. QED
  BY <1>1, <1>2, <1>3 DEF Increasing

(* The queue without its oldest record.                                    *)
LEMMA IncreasingTail ==
  ASSUME NEW s \in Seq(BufferedItem), s # <<>>, Increasing(s)
  PROVE  Increasing(Tail(s))
<1>1. /\ Len(s) \in Nat \ {0}
      /\ DOMAIN s = 1..Len(s)
      /\ DOMAIN Tail(s) = 1..(Len(s) - 1)
      /\ \A i \in 1..(Len(s) - 1) : Tail(s)[i] = s[i + 1]
  OBVIOUS
<1>2. \A i \in DOMAIN Tail(s) : i + 1 \in DOMAIN s /\ Tail(s)[i] = s[i + 1]
  BY <1>1
<1>3. \A i, j \in DOMAIN Tail(s) : i < j => i + 1 < j + 1
  BY <1>1
<1>4. QED
  BY <1>2, <1>3 DEF Increasing

(* An older batch followed by its queue.                                   *)
LEMMA IncreasingConcat ==
  ASSUME NEW s \in Seq(BufferedItem), NEW t \in Seq(BufferedItem),
         Increasing(s), Increasing(t), Below(Ids(s), Ids(t))
  PROVE  Increasing(s \o t)
<1> DEFINE all == s \o t
<1>1. /\ Len(s) \in Nat /\ Len(t) \in Nat
      /\ DOMAIN s = 1..Len(s) /\ DOMAIN t = 1..Len(t)
      /\ DOMAIN all = 1..(Len(s) + Len(t))
      /\ \A i \in 1..Len(s) : all[i] = s[i]
      /\ \A i \in 1..(Len(s) + Len(t)) : i > Len(s) => all[i] = t[i - Len(s)]
  OBVIOUS
<1> HIDE DEF all
<1> SUFFICES ASSUME NEW i \in DOMAIN all, NEW j \in DOMAIN all, i < j
             PROVE  all[i].id < all[j].id
  BY DEF Increasing, all
<1>2. \A m \in DOMAIN s, n \in DOMAIN t : s[m].id < t[n].id
  BY DEF Below, Ids
<1>3. CASE j <= Len(s)
  <2>1. i \in DOMAIN s /\ j \in DOMAIN s
    BY <1>1, <1>3
  <2>2. QED
    BY <1>1, <2>1 DEF Increasing
<1>4. CASE i <= Len(s) /\ j > Len(s)
  <2>1. i \in DOMAIN s /\ j - Len(s) \in DOMAIN t
    BY <1>1, <1>4
  <2>2. all[i] = s[i] /\ all[j] = t[j - Len(s)]
    BY <1>1, <1>4, <2>1
  <2>3. QED
    BY <1>2, <2>1, <2>2
<1>5. CASE i > Len(s)
  <2>1. i - Len(s) \in DOMAIN t /\ j - Len(s) \in DOMAIN t /\ i - Len(s) < j - Len(s) /\ j > Len(s)
    BY <1>1, <1>5
  <2>2. all[i] = t[i - Len(s)] /\ all[j] = t[j - Len(s)]
    BY <1>1, <1>5, <2>1
  <2>3. QED
    BY <2>1, <2>2 DEF Increasing
<1>6. QED
  BY <1>1, <1>3, <1>4, <1>5

(* What a requeue keeps is a prefix of the batch and the queue.            *)
LEMMA IncreasingKept ==
  ASSUME NEW s \in Seq(BufferedItem), NEW t \in Seq(BufferedItem), Increasing(s \o t)
  PROVE  Increasing(Kept(s, t))
<1>1. \A i \in DOMAIN Kept(s, t) : i \in DOMAIN (s \o t) /\ Kept(s, t)[i] = (s \o t)[i]
  BY RequeuePlaces
<1>2. QED
  BY <1>1 DEF Increasing

OrderInv == HeldInv /\ Ordered

(* enqueue: the new record is newer than all others.                       *)
LEMMA InsertOrdered ==
  ASSUME OrderInv, NEW c \in Callers, NEW k \in Kind, Insert(c, k)
  PROVE  Ordered'
<1>0. ItemType /\ ControlType /\ RecordType /\ Known /\ Ordered
  BY DEF OrderInv, HeldInv, LossInv, TypeOK, PlacesInv
<1>1. PICK keyed \in BOOLEAN :
         buffer' = [buffer EXCEPT ![k] = Append(@, [id |-> accepted[k] + 1, keyed |-> keyed])]
  BY DEF Insert
<1> DEFINE item == [id |-> accepted[k] + 1, keyed |-> keyed]
<1>2. item \in BufferedItem /\ item.id = accepted[k] + 1 /\ accepted[k] \in Nat
  BY <1>0 DEF RecordType, RecordId, BufferedItem
<1>3. buffer[k] \in Seq(BufferedItem) /\ buffer'[k] = Append(buffer[k], item)
      /\ \A j \in Kind : j # k => buffer'[j] = buffer[j]
  BY <1>0, <1>1 DEF ItemType
<1>4. UNCHANGED <<batch, wkind, main>> /\ main # "load"
  BY DEF Insert, CoreFree
<1> HIDE DEF item
<1>5. Below(1..accepted[k], {item.id})
  BY <1>2 DEF Below
<1>6. Ids(buffer[k]) \subseteq 1..accepted[k]
      /\ \A w \in Workers : wkind[w] = k => Ids(batch[w]) \subseteq 1..accepted[k]
  BY <1>0 DEF Known
<1>7. Increasing(buffer'[k])
  <2>1. Below(Ids(buffer[k]), {item.id}) /\ Increasing(buffer[k])
    BY <1>0, <1>5, <1>6 DEF Below, Ordered
  <2>2. QED
    BY <1>2, <1>3, <2>1, IncreasingAppend
<1>8. \A w \in Workers : Below(Ids(batch[w]), Ids(buffer'[wkind[w]]))
  <2> TAKE w \in Workers
  <2>1. CASE wkind[w] = k
    <3>1. Ids(buffer'[k]) = Ids(buffer[k]) \cup {item.id}
      BY <1>2, <1>3, AppendItem
    <3>2. QED
      BY <1>0, <1>5, <1>6, <2>1, <3>1 DEF Ordered, Below
  <2>2. CASE wkind[w] # k
    BY <1>0, <1>3, <2>2 DEF Ordered, ControlType
  <2>3. QED
    BY <2>1, <2>2
<1>9. QED
  BY <1>0, <1>3, <1>4, <1>7, <1>8 DEF Ordered

(* enqueue under Drop takes the oldest queued record out.                  *)
LEMMA EvictOrdered ==
  ASSUME OrderInv, NEW c \in Callers, NEW k \in Kind, EvictOldest(c, k)
  PROVE  Ordered'
<1>0. ItemType /\ ControlType /\ Ordered
  BY DEF OrderInv, HeldInv, LossInv, TypeOK
<1>1. buffer[k] # <<>> /\ buffer[k] \in Seq(BufferedItem)
  BY <1>0, SizeAssumption DEF ItemType, EvictOldest, HasRoom
<1>2. buffer'[k] = Tail(buffer[k]) /\ \A j \in Kind : j # k => buffer'[j] = buffer[j]
  BY <1>0 DEF EvictOldest, ItemType
<1>3. UNCHANGED <<batch, wkind, main>> /\ main # "load"
  BY DEF EvictOldest, CoreFree
<1>4. Increasing(buffer'[k])
  BY <1>0, <1>1, <1>2, IncreasingTail DEF Ordered
<1>5. \A j \in Kind : Ids(buffer'[j]) \subseteq Ids(buffer[j])
  BY <1>1, <1>2, TailItems
<1>6. \A w \in Workers : Below(Ids(batch[w]), Ids(buffer'[wkind[w]]))
  BY <1>0, <1>5 DEF Ordered, Below, ControlType
<1>7. QED
  BY <1>0, <1>2, <1>3, <1>4, <1>6 DEF Ordered

(* The steps of the one permit.  Only a drain fills the batch, and only a  *)
(* requeue empties it back into the queue.                                 *)
LEMMA PermitOrdered ==
  ASSUME OrderInv, NEW w, Workers = {w}, FlushStep(w)
  PROVE  Ordered'
<1> DEFINE k == wkind[w]
<1>0. /\ ItemType /\ ControlType /\ WorkerShape /\ Ordered /\ k \in Kind
      /\ buffer[k] \in Seq(BufferedItem) /\ batch[w] \in Seq(BufferedItem)
      /\ Increasing(batch[w]) /\ Below(Ids(batch[w]), Ids(buffer[k]))
  <2>1. ItemType /\ ControlType /\ WorkerShape /\ Ordered /\ w \in Workers
    BY DEF OrderInv, HeldInv, LossInv, TypeOK
  <2>2. QED
    BY <2>1 DEF Ordered, ItemType, ControlType
<1>1. CASE Drain(w)
  <2>1. /\ buffer' = [buffer EXCEPT ![k] = <<>>]
        /\ batch' = [batch EXCEPT ![w] = buffer[k]]
        /\ UNCHANGED main /\ main # "load"
        /\ buffer[k] = <<>> \/ UNCHANGED wkind
    BY <1>1 DEF Drain, LeftByDrain, CoreFree
  <2>2. /\ batch'[w] = buffer[k] /\ buffer'[k] = <<>>
        /\ \A j \in Kind : j # k => buffer'[j] = buffer[j]
    BY <1>0, <2>1 DEF ItemType
  <2>3. Below(Ids(batch'[w]), Ids(buffer'[wkind'[w]]))
    BY <2>1, <2>2, EmptyOrdered
  <2>4. QED
    BY <1>0, <2>1, <2>2, <2>3, EmptyOrdered DEF Ordered
<1>2. CASE Requeue(w)
  <2>1. /\ buffer' = [buffer EXCEPT ![k] = Kept(batch[w], buffer[k])]
        /\ batch' = [batch EXCEPT ![w] = <<>>]
        /\ UNCHANGED main /\ main # "load"
    BY <1>2 DEF Requeue, CoreFree
  <2>2. /\ batch'[w] = <<>> /\ buffer'[k] = Kept(batch[w], buffer[k])
        /\ \A j \in Kind : j # k => buffer'[j] = buffer[j]
    BY <1>0, <2>1 DEF ItemType
  <2>3. Increasing(buffer'[k])
    BY <1>0, <2>2, IncreasingConcat, IncreasingKept DEF Ordered
  <2>4. QED
    BY <1>0, <2>1, <2>2, <2>3, EmptyOrdered DEF Ordered
<1>3. CASE AccountAccepted(w) \/ ConfirmDropped(w)
  <2>1. batch' = [batch EXCEPT ![w] = <<>>] /\ UNCHANGED <<buffer, main, loadKind, toLoad>>
    BY <1>3 DEF AccountAccepted, ConfirmDropped
  <2>2. batch'[w] = <<>>
    BY <1>0, <2>1 DEF ItemType
  <2>3. QED
    BY <1>0, <2>1, <2>2, EmptyOrdered DEF Ordered
<1>4. CASE ReadGate(w) \/ ForgetEvicted(w)
  <2>1. batch[w] = <<>> /\ UNCHANGED <<buffer, batch, main, loadKind, toLoad>>
    BY <1>0, <1>4 DEF ReadGate, ForgetEvicted, WorkerShape
  <2>2. QED
    BY <1>0, <2>1, EmptyOrdered DEF Ordered
<1>5. CASE FlushIfNeeded(w) \/ SendBatch(w) \/ ConfirmKeys(w) \/ Backoff(w)
  <2>1. UNCHANGED <<buffer, batch, wkind, main, loadKind, toLoad>>
    BY <1>5 DEF FlushIfNeeded, SendBatch, ConfirmKeys, Backoff
  <2>2. QED
    BY <1>0, <2>1 DEF Ordered
<1>6. QED
  BY <1>1, <1>2, <1>3, <1>4, <1>5 DEF FlushStep

(* The reload appends the smallest of the listed keys.                     *)
LEMMA ReloadOrdered ==
  ASSUME OrderInv, ReloadKey
  PROVE  Ordered'
<1> DEFINE r == Min(toLoad)
           rest == IF HasRoom(loadKind) THEN buffer[loadKind] ELSE Tail(buffer[loadKind])
           item == [id |-> r, keyed |-> TRUE]
<1>0. ItemType /\ ControlType /\ RecordType /\ Ordered /\ Early /\ HeldInv
  BY DEF OrderInv, HeldInv, LossInv, TypeOK, ReloadKey, GetKey, Early
<1>k. PICK k \in Kind : k = loadKind
  BY <1>0 DEF ControlType
<1>1. /\ main = "load" /\ toLoad # {} /\ r \in store[k] /\ toLoad' = toLoad \ {r}
      /\ buffer' = [buffer EXCEPT ![k] = Append(rest, item)]
      /\ UNCHANGED <<batch, wkind, main, loadKind>>
  BY <1>k DEF ReloadKey, GetKey
<1>2. item \in BufferedItem /\ buffer[k] \in Seq(BufferedItem) /\ item.id = r
  BY <1>0, <1>1 DEF ItemType, RecordType, BufferedItem
<1>3. /\ toLoad \in SUBSET Nat /\ r \in toLoad /\ \A n \in toLoad : r <= n
  <2>1. toLoad \in SUBSET Nat
    BY <1>0 DEF RecordType, RecordId
  <2>2. QED
    BY <1>1, <2>1, MinLeast
<1>4. \A w \in Workers : batch[w] = <<>>
  BY <1>0, EarlyPermits
<1>5. rest \in Seq(BufferedItem) /\ Increasing(rest) /\ Ids(rest) \subseteq Ids(buffer[k])
  <2>1. CASE HasRoom(k)
    BY <1>0, <1>2, <1>k, <2>1 DEF Ordered
  <2>2. CASE ~HasRoom(k)
    <3>1. buffer[k] # <<>>
      BY <1>2, <2>2, SizeAssumption DEF HasRoom
    <3>2. rest = Tail(buffer[k]) /\ Increasing(buffer[k])
      BY <1>0, <1>k, <2>2 DEF Ordered
    <3> HIDE DEF rest
    <3>3. QED
      BY <1>2, <3>1, <3>2, TailItems, IncreasingTail
  <2>3. QED
    BY <2>1, <2>2
<1> HIDE DEF r, rest, item
<1>6. Below(Ids(buffer[k]), toLoad)
  BY <1>0, <1>1, <1>k DEF Ordered
<1>7. buffer'[k] = Append(rest, item) /\ \A j \in Kind : j # k => buffer'[j] = buffer[j]
  BY <1>0, <1>1 DEF ItemType
<1>8. Increasing(buffer'[k])
  <2>1. Below(Ids(rest), {item.id})
    BY <1>2, <1>3, <1>5, <1>6 DEF Below
  <2>2. QED
    BY <1>2, <1>5, <1>7, <2>1, IncreasingAppend
<1>9. Below(Ids(buffer'[k]), toLoad')
  <2>1. Ids(buffer'[k]) = Ids(rest) \cup {r}
    BY <1>2, <1>5, <1>7, AppendItem
  <2>2. \A n \in toLoad' : r < n /\ n \in toLoad
    <3> TAKE n \in toLoad'
    <3>1. n \in toLoad /\ n # r
      BY <1>1
    <3>2. n \in Nat /\ r \in Nat /\ r <= n
      BY <1>3, <3>1
    <3>3. QED
      BY <3>1, <3>2
  <2>3. QED
    BY <1>5, <1>6, <2>1, <2>2 DEF Below
<1>10. QED
  BY <1>0, <1>1, <1>4, <1>7, <1>8, <1>9, <1>k, EmptyOrdered DEF Ordered

(* Every step of an agent with one permit keeps the order.                 *)
LEMMA StepOrdered ==
  ASSUME OrderInv, EarlyIngest = FALSE, Budget.restarts = 0, Budget.clears = 0,
         NEW w, Workers = {w}, [Next]_vars
  PROVE  OrderInv'
<1>0. HeldInv /\ HeldInv' /\ LossInv /\ Ordered /\ Fresh
  BY StepHeld DEF OrderInv, HeldInv
<1>1. ASSUME NEW c \in Callers, NEW k \in Kind, Insert(c, k) \/ EvictOldest(c, k)
      PROVE  Ordered'
  BY <1>1, InsertOrdered, EvictOrdered
<1>2. ASSUME NEW v \in Workers, FlushStep(v) PROVE Ordered'
  <2>1. v = w
    BY <1>2
  <2>2. QED
    BY <1>2, <2>1, PermitOrdered
<1>3. ASSUME NEW v \in Workers,
             FlushTick(v) \/ RunSpawned(v) \/ FlushBuffer(v) \/ FinalFlush(v)
      PROVE  Ordered'
  <2>1. UNCHANGED <<buffer, batch, wkind, loadKind, toLoad>> /\ (main' = "load" => main = "load")
    BY <1>3 DEF FlushTick, RunSpawned, FlushBuffer, FinalFlush, Acquire
  <2>2. QED
    BY <1>0, <2>1 DEF Ordered
<1>4. ASSUME \/ SpawnedSkips \/ AttachRedisHandler \/ Start \/ ConnectRedis
             \/ ReloadBegin \/ ReloadDone \/ Stop
             \/ IntervalElapses \/ UNCHANGED vars
             \/ \E c \in Callers, k \in Kind : Submit(c, k) \/ Reject(c, k)
             \/ \E k \in Kind : GateExpires(k) \/ \E n \in store[k] : Expire(k, n)
      PROVE  Ordered'
  <2>1. UNCHANGED <<buffer, batch, wkind>>
        /\ (main' = "load" => main = "load" /\ UNCHANGED <<loadKind, toLoad>>)
    BY <1>4 DEF SpawnedSkips, AttachRedisHandler, Start, ConnectRedis, ReloadBegin,
       ReloadDone, Stop, IntervalElapses, Submit, Reject, GateExpires, Expire
  <2>2. QED
    BY <1>0, <2>1 DEF Ordered
<1>5. ASSUME ReloadList PROVE Ordered'
  <2>1. main = "list" /\ UNCHANGED <<buffer, batch, wkind, loadKind>>
    BY <1>5 DEF ReloadList
  <2>2. buffer[loadKind] = <<>>
    BY <1>0, <2>1 DEF Fresh, Early
  <2>3. QED
    BY <1>0, <2>1, <2>2, EmptyOrdered DEF Ordered
<1>6. ASSUME ReloadSkip PROVE Ordered'
  <2>1. main = "load" /\ UNCHANGED <<buffer, batch, wkind, loadKind>> /\ toLoad' \subseteq toLoad
    BY <1>6 DEF ReloadSkip
  <2>2. QED
    BY <1>0, <2>1 DEF Ordered, Below
<1>7. ASSUME ReloadKey PROVE Ordered'
  BY <1>7, ReloadOrdered
<1>8. ASSUME ClearMemory \/ \E k \in Kind : ClearNamespace(k) PROVE Ordered'
  BY <1>0, <1>8, NoClear
<1>9. ASSUME Crash PROVE Ordered'
  <2>1. /\ main' = "new" /\ buffer' = [k \in Kind |-> <<>>] /\ batch' = [v \in Workers |-> <<>>]
    BY <1>9 DEF Crash
  <2>2. (\A k \in Kind : buffer'[k] = <<>>) /\ \A v \in Workers : batch'[v] = <<>>
    BY <2>1
  <2>3. QED
    BY <2>1, <2>2, EmptyOrdered DEF Ordered
<1>10. Ordered'
  BY <1>1, <1>2, <1>3, <1>4, <1>5, <1>6, <1>7, <1>8, <1>9 DEF Next, Ingest, Lifecycle, Environment
<1>11. QED
  BY <1>0, <1>10 DEF OrderInv

(* With a single flush permit records are queued and sent in the order in  *)
(* which they were accepted, across failed sends, evictions, crashes and   *)
(* reloads, under the conditions of NoRecordTwice.                         *)
THEOREM AcceptanceOrderKept ==
  ASSUME EarlyIngest = FALSE, Budget.restarts = 0, Budget.clears = 0, NEW w, Workers = {w}
  PROVE  Spec => []InOrder
<1>1. Init => OrderInv
  <2> SUFFICES ASSUME Init PROVE Ordered
    BY InitHeld DEF OrderInv
  <2>1. /\ main = "new" /\ \A k \in Kind : buffer[k] = <<>>
        /\ \A v \in Workers : batch[v] = <<>>
    BY DEF Init
  <2>2. QED
    BY <2>1, EmptyOrdered DEF Ordered
<1>2. OrderInv /\ [Next]_vars => OrderInv'
  BY StepOrdered
<1>3. OrderInv => InOrder
  <2> SUFFICES ASSUME OrderInv, NEW k \in Kind
               PROVE  /\ Increasing(buffer[k])
                      /\ \A v \in Workers : wkind[v] = k => Increasing(batch[v] \o buffer[k])
    BY DEF InOrder
  <2>1. ItemType /\ Ordered
    BY DEF OrderInv, HeldInv, LossInv, TypeOK
  <2>2. ASSUME NEW v \in Workers, wkind[v] = k PROVE Increasing(batch[v] \o buffer[k])
    <3>1. /\ batch[v] \in Seq(BufferedItem) /\ buffer[k] \in Seq(BufferedItem)
          /\ Increasing(batch[v]) /\ Increasing(buffer[k])
          /\ Below(Ids(batch[v]), Ids(buffer[k]))
      BY <2>1, <2>2 DEF Ordered, ItemType
    <3>2. QED
      BY <3>1, IncreasingConcat
  <2>3. QED
    BY <2>1, <2>2 DEF Ordered
<1>4. QED
  BY <1>1, <1>2, <1>3, PTL DEF Spec

-----------------------------------------------------------------------------
(* The retry gate, with a single flush permit.                             *)

(* A permit that is about to drain found the gate open, and nobody but the *)
(* one permit could have closed it since.                                  *)
GateInv ==
    /\ TypeOK
    /\ \A w \in Workers : pc[w] = "drain" => retryAfter[wkind[w]] # "closed"

(* Every step of an agent with one permit keeps the gate as it was read.   *)
LEMMA StepGate ==
  ASSUME GateInv, NEW w, Workers = {w}, [Next]_vars
  PROVE  GateInv'
<1> DEFINE Open == pc[w] = "drain" => retryAfter[wkind[w]] # "closed"
<1>0. TypeOK /\ TypeOK' /\ ControlType /\ ControlType' /\ Open /\ w \in Workers /\ wkind[w] \in Kind
  <2>1. TypeOK /\ TypeOK'
    BY StepType DEF GateInv
  <2>2. ControlType /\ ControlType' /\ w \in Workers
    BY <2>1 DEF TypeOK
  <2>3. wkind[w] \in Kind
    BY <2>2 DEF ControlType
  <2>4. QED
    BY <2>1, <2>2, <2>3 DEF GateInv
<1>1. ASSUME ReadGate(w) PROVE Open'
  BY <1>0, <1>1, EndKindEffect DEF ReadGate, GateClosed, ControlType
<1>2. ASSUME Drain(w) \/ AccountAccepted(w) \/ ConfirmDropped(w) \/ ForgetEvicted(w) PROVE Open'
  <2>1. pc'[w] # "drain"
    BY <1>0, <1>2, EndKindEffect DEF Drain, AccountAccepted, ConfirmDropped, ForgetEvicted,
       ControlType
  <2>2. QED
    BY <2>1
<1>3. ASSUME \/ FlushTick(w) \/ RunSpawned(w) \/ FlushBuffer(w) \/ FinalFlush(w)
             \/ FlushIfNeeded(w) \/ SendBatch(w) \/ ConfirmKeys(w) \/ Requeue(w) \/ Backoff(w)
      PROVE  Open'
  <2>1. pc'[w] # "drain"
    BY <1>0, <1>3 DEF FlushTick, RunSpawned, FlushBuffer, FinalFlush, Acquire, FlushIfNeeded,
       SendBatch, SendAccepted, SendPermanentDrop, SendFailed, ConfirmKeys, Requeue, Backoff,
       ControlType
  <2>2. QED
    BY <2>1
<1>4. ASSUME \/ SpawnedSkips \/ Lifecycle \/ IntervalElapses \/ UNCHANGED vars \/ Ingest
             \/ \E k \in Kind : \E n \in store[k] : Expire(k, n)
      PROVE  Open'
  <2>1. UNCHANGED <<pc, wkind, retryAfter>>
    <3>1. Lifecycle => UNCHANGED <<pc, wkind, retryAfter>>
      BY DEF Lifecycle, AttachRedisHandler, Start, ConnectRedis, ReloadBegin, ReloadList,
         ReloadSkip, ReloadKey, GetKey, ReloadDone, Stop, ClearMemory, ClearNamespace
    <3>2. Ingest => UNCHANGED <<pc, wkind, retryAfter>>
      BY DEF Ingest, Submit, Insert, EvictOldest, Reject
    <3>3. QED
      BY <1>4, <3>1, <3>2 DEF SpawnedSkips, IntervalElapses, Expire
  <2>2. QED
    BY <1>0, <2>1
<1>5. ASSUME NEW k \in Kind, GateExpires(k) PROVE Open'
  <2>1. UNCHANGED <<pc, wkind>> /\ retryAfter' = [retryAfter EXCEPT ![k] = "expired"]
    BY <1>5 DEF GateExpires
  <2>2. \A j \in Kind : retryAfter'[j] = "closed" => retryAfter[j] = "closed"
    BY <1>0, <2>1 DEF ControlType
  <2>3. QED
    BY <1>0, <2>1, <2>2
<1>6. ASSUME Crash PROVE Open'
  <2>1. pc'[w] # "drain"
    BY <1>0, <1>6 DEF Crash
  <2>2. QED
    BY <2>1
<1>7. Open'
  BY <1>1, <1>2, <1>3, <1>4, <1>5, <1>6 DEF Next, FlushStep, Environment
<1>8. QED
  BY <1>0, <1>7 DEF GateInv

(* With a single flush permit no kind is drained while the backoff of its  *)
(* last failed send lasts.  (With more permits another flush may close the *)
(* gate between this flush's reading it and its drain.)                    *)
THEOREM BackoffRespected ==
  ASSUME NEW permit, Workers = {permit}
  PROVE  Spec => GateRespected
<1>1. Init => GateInv
  BY InitType DEF Init, GateInv
<1>2. GateInv /\ [Next]_vars => GateInv'
  BY StepGate
<1>3. GateInv /\ [Next]_vars =>
         [\A k \in Kind, w \in Workers :
             (pc[w] = "drain" /\ pc'[w] = "send" /\ wkind[w] = k)
                => retryAfter[k] # "closed"]_vars
  BY DEF GateInv
<1> HIDE DEF vars
<1>4. QED
  BY <1>1, <1>2, <1>3, PTL DEF Spec, GateRespected
=============================================================================
