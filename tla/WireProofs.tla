----------------------------- MODULE WireProofs -----------------------------
(***************************************************************************)
(* Proofs of the safety properties of Wire: for every set of records the   *)
(* host may emit, every configuration, every sequence of answers, and any  *)
(* number of sends, status pushes and crashes.                             *)
(***************************************************************************)
EXTENDS Wire, SequenceTheorems, FiniteSetTheorems, WellFoundedInduction, TLAPS

USE DEF vars, hostVars, sendVars, flushVars, statVars, serverVars, endVars

-----------------------------------------------------------------------------
(* What becomes of emission n.                                             *)

(* The record as the bridge or the builders make it ...                    *)
Made(r, n) ==
    IF r.kind = "events"
    THEN IF r.via = "bridge" THEN ToAgentEvent(r, n) ELSE BuildEvent(r, n)
    ELSE ToAgentMetric(r, n)
Origin(n) == Made(Facade[emitted[n]], n)

(* ... as it is queued and as it is queued again after a reload ...        *)
Queued(n) == Redact(Origin(n))

(* ... and its JSON, in the store and on the wire.                         *)
OnWire(n) == ToJson(Queued(n))
Reloaded(n) == FromJson(OnWire(n))

Emissions == DOMAIN emitted
Texts == {OnWire(n) : n \in Emissions}
Items(k) ==
    {x \in {Queued(n) : n \in Emissions} \cup {Reloaded(n) : n \in Emissions} : x.kind = k}

-----------------------------------------------------------------------------
(* The inductive invariant.                                                *)

Control ==
    /\ pc \in [Senders -> {"idle", "sleep", "wire"}]
    /\ attempt \in [Senders -> 0..Attempts - 1]
    /\ delay \in [Senders -> 0..MaxRetryAfter]
    /\ sent \in Nat /\ failed \in Nat

(* Each failed push was paid for when it began.                            *)
Pushes ==
    /\ used \in [sends : Nat, detours : 0..MaxDetours]
    /\ statusFailures \in Nat
    /\ statusFailures + (IF pc["status"] = "idle" THEN 0 ELSE 1) <= used.detours
    /\ statusFailures > 0 <=> lastPush = "failed"

(* Everything there is comes from an emission, by the steps above.         *)
Contents ==
    /\ emitted \in Seq(DOMAIN Facade)
    /\ spawned \subseteq {Origin(n) : n \in Emissions}
    /\ stored \subseteq Texts /\ IsFiniteSet(stored)
    /\ ingested \subseteq Texts
    /\ DOMAIN buffer = Kind /\ \A k \in Kind : buffer[k] \in Seq(Items(k))

IdsIn(parts) == UNION {Ids(parts[i]) : i \in DOMAIN parts}
PartIds == IdsIn(todo)

(* A flush has parts of its batch to send, and the first is in the body.   *)
Parts ==
    \/ pc["flush"] = "idle" /\ batch = <<>> /\ todo = <<>>
    \/ /\ pc["flush"] # "idle"
       /\ \E k \in Kind : batch \in Seq(Items(k)) \ {<<>>} /\ todo \in Seq(Seq(Items(k)) \ {<<>>})
       /\ todo # <<>>
       /\ body["flush"] = BatchBody(Head(todo))

Bodies ==
    /\ DOMAIN body = Senders
    /\ body["status"].clear = NoItems /\ body["status"].sealed = {}

(* What the server has, or has refused with the hook told.                 *)
Settled == {x.id : x \in ingested} \cup (refused \cap hooked)

Fates ==
    /\ PartIds \subseteq Ids(batch)
    /\ Ids(batch) \subseteq PartIds \cup Settled
    /\ confirmed \subseteq Settled \cap Emissions
    /\ LetGo

(* A bridge task that has not run: nothing else has its record.            *)
Waiting ==
    \A x \in spawned :
        /\ x.id \notin confirmed /\ x.id \notin Ids(batch)
        /\ \A k \in Kind : x.id \notin Ids(buffer[k])

WireInv == Control /\ Pushes /\ Contents /\ Parts /\ Bodies /\ Fates /\ Waiting


-----------------------------------------------------------------------------
(* Records.                                                                *)

Rec(i, k, y, v, d, c, p) ==
    [id |-> i, kind |-> k, key |-> y, num |-> v, doc |-> d, code |-> c, pattern |-> p]

(* The idempotency key, the number as JSON and read back, the redacted     *)
(* metadata.                                                               *)
KeyOf(k, n) == IF k = "events" THEN n ELSE 0
Json(v) == IF v = "some" THEN "some" ELSE "null"
Read(v) == IF v = "null" THEN "none" ELSE v
Hide(k, d) == IF k = "events" THEN RedactValue(d) ELSE RedactTags(d)

(* What the steps on a record do to its fields.                            *)
LEMMA RecSteps ==
  ASSUME NEW i, NEW k, NEW y, NEW v, NEW d, NEW c, NEW p
  PROVE  /\ ToJson(Rec(i, k, y, v, d, c, p)) = Rec(i, k, y, Json(v), d, c, p)
         /\ FromJson(Rec(i, k, y, v, d, c, p)) = Rec(i, k, y, Read(v), d, c, p)
         /\ Redact(Rec(i, k, y, v, d, c, p)) = Rec(i, k, y, v, Hide(k, d), c, p)
<1>1. ToJson(Rec(i, k, y, v, d, c, p)) = Rec(i, k, y, Json(v), d, c, p)
  BY DEF ToJson, Rec, Json
<1>2. FromJson(Rec(i, k, y, v, d, c, p)) = Rec(i, k, y, Read(v), d, c, p)
  BY DEF FromJson, Rec, Read
<1>3. Redact(Rec(i, k, y, v, d, c, p)) = Rec(i, k, y, v, Hide(k, d), c, p)
  BY DEF Redact, Rec, Hide
<1>4. QED
  BY <1>1, <1>2, <1>3

(* Setting the fields of a fresh event.                                    *)
Set(n, v, d, c, p) == [NewEvent(n) EXCEPT !.num = v, !.doc = d, !.code = c, !.pattern = p]

(* A record so built, field by field.                                      *)
LEMMA SetForm ==
  ASSUME NEW n, NEW v, NEW d, NEW c, NEW p
  PROVE  Set(n, v, d, c, p) = Rec(n, "events", n, v, d, c, p)
<1>1. [NewEvent(n) EXCEPT !.num = v] = Rec(n, "events", n, v, {}, None, None)
  BY DEF NewEvent, Rec
<1>2. [Rec(n, "events", n, v, {}, None, None) EXCEPT !.doc = d] = Rec(n, "events", n, v, d, None, None)
  BY DEF Rec
<1>3. [Rec(n, "events", n, v, d, None, None) EXCEPT !.code = c] = Rec(n, "events", n, v, d, c, None)
  BY DEF Rec
<1>4. [Rec(n, "events", n, v, d, c, None) EXCEPT !.pattern = p] = Rec(n, "events", n, v, d, c, p)
  BY DEF Rec
<1>5. Set(n, v, d, c, p) = [[[[NewEvent(n) EXCEPT !.num = v] EXCEPT !.doc = d]
                                EXCEPT !.code = c] EXCEPT !.pattern = p]
  BY Zenon DEF Set
<1>6. QED
  BY <1>1, <1>2, <1>3, <1>4, <1>5, Zenon

(* A made record: of its emission's kind, number and metadata.             *)
LEMMA MadeForm ==
  ASSUME NEW r, NEW n, r.kind \in Kind,
         r.kind = "metrics" => r.code = None /\ r.pattern = None
  PROVE  \E c, p : /\ Made(r, n) = Rec(n, r.kind, KeyOf(r.kind, n), r.num, r.doc, c, p)
                   /\ r.via = "host" => c = r.code /\ p = r.pattern
<1>1. CASE r.kind = "events" /\ r.via = "bridge"
  <2>1. ToAgentEvent(r, n) = Rec(n, "events", n, r.num, r.doc, StatusCode(r.doc),
                                 StringKwarg(r.doc, "pattern_matched"))
    <3>1. ToAgentEvent(r, n) = Set(n, r.num, r.doc, StatusCode(r.doc),
                                   StringKwarg(r.doc, "pattern_matched"))
      BY Zenon DEF ToAgentEvent, Set
    <3>2. QED
      BY <3>1, SetForm
  <2>2. QED
    BY <1>1, <2>1 DEF Made, KeyOf
<1>2. CASE r.kind = "events" /\ r.via # "bridge"
  <2>1. BuildEvent(r, n) = Rec(n, "events", n, r.num, r.doc, r.code, r.pattern)
    <3>1. BuildEvent(r, n) = Set(n, r.num, r.doc, r.code, r.pattern)
      BY Zenon DEF BuildEvent, Set
    <3>2. QED
      BY <3>1, SetForm
  <2>2. QED
    BY <1>2, <2>1 DEF Made, KeyOf
<1>3. CASE r.kind = "metrics"
  <2>1. ToAgentMetric(r, n) = Rec(n, "metrics", 0, r.num, r.doc, None, None)
    BY DEF ToAgentMetric, NewMetric, Rec
  <2>2. QED
    BY <1>3, <2>1 DEF Made, KeyOf
<1>4. QED
  BY <1>1, <1>2, <1>3 DEF Kind

(* The forms of emission n.                                                *)
LEMMA Forms ==
  ASSUME emitted \in Seq(DOMAIN Facade), NEW n \in Emissions
  PROVE  LET r == Facade[emitted[n]] IN
         /\ r.kind \in Kind
         /\ \E c, p :
              /\ Origin(n) = Rec(n, r.kind, KeyOf(r.kind, n), r.num, r.doc, c, p)
              /\ Queued(n) = Rec(n, r.kind, KeyOf(r.kind, n), r.num, Hide(r.kind, r.doc), c, p)
              /\ OnWire(n) = Rec(n, r.kind, KeyOf(r.kind, n), Json(r.num), Hide(r.kind, r.doc), c, p)
              /\ Reloaded(n) = Rec(n, r.kind, KeyOf(r.kind, n), Read(Json(r.num)),
                                   Hide(r.kind, r.doc), c, p)
              /\ r.via = "host" => c = r.code /\ p = r.pattern
<1> DEFINE r == Facade[emitted[n]]
<1>1. emitted[n] \in DOMAIN Facade
  BY DEF Emissions
<1>2. r.kind \in Kind /\ (r.kind = "metrics" => r.code = None /\ r.pattern = None)
  BY <1>1, FacadeAssumption, Zenon
<1>3. PICK c, p : /\ Made(r, n) = Rec(n, r.kind, KeyOf(r.kind, n), r.num, r.doc, c, p)
                  /\ r.via = "host" => c = r.code /\ p = r.pattern
  BY <1>2, MadeForm, Zenon
<1>4. Origin(n) = Rec(n, r.kind, KeyOf(r.kind, n), r.num, r.doc, c, p)
  BY <1>3, Zenon DEF Origin
<1>5. Queued(n) = Rec(n, r.kind, KeyOf(r.kind, n), r.num, Hide(r.kind, r.doc), c, p)
  BY <1>4, RecSteps DEF Queued
<1>6. OnWire(n) = Rec(n, r.kind, KeyOf(r.kind, n), Json(r.num), Hide(r.kind, r.doc), c, p)
  BY <1>5, RecSteps DEF OnWire
<1>7. Reloaded(n) = Rec(n, r.kind, KeyOf(r.kind, n), Read(Json(r.num)), Hide(r.kind, r.doc), c, p)
  BY <1>6, RecSteps DEF Reloaded
<1>8. QED
  BY <1>2, <1>3, <1>4, <1>5, <1>6, <1>7, Zenon

(* The fields of a record.                                                 *)
LEMMA RecFields ==
  ASSUME NEW i, NEW k, NEW y, NEW v, NEW d, NEW c, NEW p
  PROVE  /\ Rec(i, k, y, v, d, c, p).id = i /\ Rec(i, k, y, v, d, c, p).kind = k
         /\ Rec(i, k, y, v, d, c, p).key = y /\ Rec(i, k, y, v, d, c, p).num = v
         /\ Rec(i, k, y, v, d, c, p).doc = d /\ Rec(i, k, y, v, d, c, p).code = c
         /\ Rec(i, k, y, v, d, c, p).pattern = p
BY DEF Rec

(* An emission is known by its number in every form, and a queued record   *)
(* has one JSON text, whether it was reloaded or not.                      *)
LEMMA Identity ==
  ASSUME emitted \in Seq(DOMAIN Facade), NEW n \in Emissions
  PROVE  /\ Origin(n).id = n /\ Queued(n).id = n /\ OnWire(n).id = n /\ Reloaded(n).id = n
         /\ OnWire(n).kind \in Kind
         /\ Origin(n).kind = OnWire(n).kind /\ Queued(n).kind = OnWire(n).kind
         /\ Reloaded(n).kind = OnWire(n).kind
         /\ OnWire(n).kind = "events" => OnWire(n).key = n
         /\ ToJson(Queued(n)) = OnWire(n) /\ ToJson(Reloaded(n)) = OnWire(n)
<1> DEFINE r == Facade[emitted[n]]
<1>1. PICK c, p :
              /\ Origin(n) = Rec(n, r.kind, KeyOf(r.kind, n), r.num, r.doc, c, p)
              /\ Queued(n) = Rec(n, r.kind, KeyOf(r.kind, n), r.num, Hide(r.kind, r.doc), c, p)
              /\ OnWire(n) = Rec(n, r.kind, KeyOf(r.kind, n), Json(r.num), Hide(r.kind, r.doc), c, p)
              /\ Reloaded(n) = Rec(n, r.kind, KeyOf(r.kind, n), Read(Json(r.num)),
                                   Hide(r.kind, r.doc), c, p)
  BY Forms, Zenon
<1>2. r.kind \in Kind
  BY Forms, Zenon
<1>3. Json(Read(Json(r.num))) = Json(r.num)
  BY DEF Json, Read
<1>4. ToJson(Reloaded(n)) = OnWire(n)
  BY <1>1, <1>3, RecSteps
<1>5. r.kind = "events" => KeyOf(r.kind, n) = n
  BY DEF KeyOf
<1> HIDE DEF r
<1>6. /\ OnWire(n).kind = r.kind /\ OnWire(n).key = KeyOf(r.kind, n) /\ OnWire(n).id = n
  BY <1>1, RecFields
<1>7. /\ Origin(n).id = n /\ Queued(n).id = n /\ Reloaded(n).id = n
      /\ Origin(n).kind = r.kind /\ Queued(n).kind = r.kind /\ Reloaded(n).kind = r.kind
  BY <1>1, RecFields
<1>8. QED
  BY <1>2, <1>4, <1>5, <1>6, <1>7, Zenon DEF OnWire

-----------------------------------------------------------------------------
(* Redaction.                                                              *)

Depth(k) == IF k = "events" THEN MaxRedactDepth ELSE 1
Hits(path, depth) == {i \in DOMAIN path : i <= depth /\ IsSensitive(path[i])}
Mark(path, i) == [path |-> SubSeq(path, 1, i), value |-> Redacted]

(* A nonempty set of natural numbers has a least element, which is Min.    *)
LEMMA MinInside ==
  ASSUME NEW T \in SUBSET Nat, T # {}
  PROVE  Min(T) \in T
<1>1. IsWellFoundedOn(OpToRel(<, Nat), Nat)
  BY NatLessThanWellFounded, Zenon
<1>2. PICK x \in T : \A y \in T : ~(<<y, x>> \in OpToRel(<, Nat))
  BY <1>1, WFMin, Zenon
<1>3. \A y \in T : ~(y < x)
  BY <1>2 DEF OpToRel
<1>4. \E m \in T : \A y \in T : m <= y
  BY <1>3
<1>5. QED
  BY <1>4 DEF Min

(* A leaf is left alone, or becomes the mark at a key on its path.         *)
LEMMA LeafRedacted ==
  ASSUME NEW leaf, leaf.path \in Seq(DOMAIN Lower), NEW depth
  PROVE  /\ Hits(leaf.path, depth) = {} => RedactLeaf(leaf, depth) = leaf
         /\ Hits(leaf.path, depth) # {} =>
               \E i \in DOMAIN leaf.path : RedactLeaf(leaf, depth) = Mark(leaf.path, i)
<1> DEFINE hits == Hits(leaf.path, depth)
<1>1. RedactLeaf(leaf, depth) = IF hits = {} THEN leaf ELSE Mark(leaf.path, Min(hits))
  BY Zenon DEF RedactLeaf, Hits, Mark
<1>2. hits \subseteq DOMAIN leaf.path /\ hits \in SUBSET Nat
  BY DEF Hits
<1>3. hits # {} => Min(hits) \in hits
  BY <1>2, MinInside, Zenon
<1>4. QED
  BY <1>1, <1>2, <1>3, Zenon

(* What is hidden is what redaction hits.                                  *)
LEMMA HiddenIsHit ==
  ASSUME NEW r, NEW path
  PROVE  Hidden(r, path) <=> Hits(path, Depth(r.kind)) # {}
<1>1. ASSUME NEW name
      PROVE  IsSensitive(name) <=>
                \E h \in SensitiveHeaders : Lower[h] # "" /\ Lower[h] = Lower[name]
  BY Zenon DEF IsSensitive, SensitiveKeys
<1>2. Depth(r.kind) = IF r.kind = "events" THEN MaxRedactDepth ELSE 1
  BY DEF Depth
<1>3. QED
  BY <1>1, <1>2, Zenon DEF Hidden, Hits

(* The redacted metadata, leaf by leaf.                                    *)
LEMMA HideLeaves ==
  ASSUME NEW k, NEW d
  PROVE  Hide(k, d) = {RedactLeaf(leaf, Depth(k)) : leaf \in d}
BY DEF Hide, Depth, RedactValue, RedactTags

(* The JSON of a record is faithful to its emission.                       *)
LEMMA Unaltered ==
  ASSUME emitted \in Seq(DOMAIN Facade), NEW n \in Emissions
  PROVE  Faithful(OnWire(n), Facade[emitted[n]])
<1> DEFINE r == Facade[emitted[n]]
           hits(path) == Hits(path, Depth(r.kind))
<1>1. PICK c, p :
        /\ OnWire(n) = Rec(n, r.kind, KeyOf(r.kind, n), Json(r.num), Hide(r.kind, r.doc), c, p)
        /\ r.via = "host" => c = r.code /\ p = r.pattern
  BY Forms, Zenon
<1>2. \A leaf \in r.doc : leaf.path \in Seq(DOMAIN Lower)
  <2>1. emitted[n] \in DOMAIN Facade
    BY DEF Emissions
  <2>2. QED
    BY <2>1, FacadeAssumption, Zenon
<1> HIDE DEF r
<1>3. /\ OnWire(n).kind = r.kind /\ OnWire(n).doc = Hide(r.kind, r.doc)
      /\ OnWire(n).num = Json(r.num) /\ OnWire(n).code = c /\ OnWire(n).pattern = p
  BY <1>1, RecFields
<1> DEFINE d == OnWire(n).doc
<1>4. d = {RedactLeaf(leaf, Depth(r.kind)) : leaf \in r.doc}
  BY <1>3, HideLeaves, Zenon
<1> HIDE DEF d
<1>5. ASSUME NEW leaf \in d
      PROVE  \/ leaf \in r.doc /\ hits(leaf.path) = {}
             \/ leaf.value = Redacted
  <2>1. PICK l \in r.doc : leaf = RedactLeaf(l, Depth(r.kind))
    BY <1>4
  <2>2. CASE hits(l.path) = {}
    BY <1>2, <2>1, <2>2, LeafRedacted, Zenon
  <2>3. CASE hits(l.path) # {}
    <3>1. PICK i \in DOMAIN l.path : leaf = Mark(l.path, i)
      BY <1>2, <2>1, <2>3, LeafRedacted, Zenon
    <3>2. QED
      BY <3>1 DEF Mark
  <2>4. QED
    BY <2>2, <2>3
<1>6. ASSUME NEW leaf \in r.doc, Hidden(r, leaf.path)
      PROVE  /\ leaf \in d => leaf.value = Redacted
             /\ \E i \in DOMAIN leaf.path :
                  [path |-> SubSeq(leaf.path, 1, i), value |-> Redacted] \in d
  <2>1. hits(leaf.path) # {}
    BY <1>6, HiddenIsHit, Zenon
  <2>2. PICK i \in DOMAIN leaf.path : RedactLeaf(leaf, Depth(r.kind)) = Mark(leaf.path, i)
    BY <1>2, <2>1, LeafRedacted, Zenon
  <2>3. Mark(leaf.path, i) \in d
    BY <1>4, <2>2
  <2>4. QED
    BY <1>5, <2>1, <2>3, Zenon DEF Mark
<1>7. ASSUME NEW leaf \in r.doc, ~Hidden(r, leaf.path) PROVE leaf \in d
  <2>1. hits(leaf.path) = {}
    BY <1>7, HiddenIsHit, Zenon
  <2>2. RedactLeaf(leaf, Depth(r.kind)) = leaf
    BY <1>2, <2>1, LeafRedacted, Zenon
  <2>3. QED
    BY <1>4, <2>2
<1>8. OnWire(n).num = "some" <=> r.num = "some"
  BY <1>3 DEF Json
<1>9. Faithful(OnWire(n), r)
  BY <1>1, <1>3, <1>5, <1>6, <1>7, <1>8, Zenon DEF Faithful, d
<1>10. QED
  BY <1>9 DEF r

-----------------------------------------------------------------------------
(* Bodies of requests.                                                     *)

(* The records of a queue come from emissions of its kind.                 *)
LEMMA ItemFacts ==
  ASSUME emitted \in Seq(DOMAIN Facade), NEW k, NEW x \in Items(k)
  PROVE  /\ x.id \in Emissions /\ x.kind = k /\ ToJson(x) = OnWire(x.id)
         /\ OnWire(x.id).kind = k
<1>1. PICK n \in Emissions : x = Queued(n) \/ x = Reloaded(n)
  BY Zenon DEF Items
<1>2. x.kind = k
  BY Zenon DEF Items
<1>3. x.id = n /\ x.kind = OnWire(n).kind /\ ToJson(x) = OnWire(n)
  BY <1>1, Identity
<1>4. QED
  BY <1>2, <1>3

(* What the server gets out of a part of a batch: its records' JSON, in    *)
(* their order, whatever the configuration.                                *)
LEMMA PartOnWire ==
  ASSUME NEW k \in Kind, NEW part \in Seq(Items(k)), part # <<>>
  PROVE  /\ ServerItems(Request(BatchBody(part))) = [i \in DOMAIN part |-> ToJson(part[i])]
         /\ cfg.encrypted => /\ Request(BatchBody(part)).url = "events/encrypted"
                             /\ Request(BatchBody(part)).bytes.content.clear = NoItems
<1> DEFINE json == [i \in DOMAIN part |-> ToJson(part[i])]
           b == BatchBody(part)
           q == Request(b)
<1>1. Head(part).kind = k
  <2>1. Head(part) \in Items(k)
    BY HeadTailProperties
  <2>2. QED
    BY <2>1, Zenon DEF Items
<1>2. json \in Seq({ToJson(x) : x \in Items(k)})
  <2>1. \A i \in 1..Len(part) : part[i] \in Items(k)
    BY ElementOfSeq
  <2>2. Len(part) \in Nat /\ DOMAIN part = 1..Len(part)
    BY LenProperties
  <2>3. json \in [1..Len(part) -> {ToJson(x) : x \in Items(k)}]
    BY <2>1, <2>2
  <2>4. QED
    BY <2>2, <2>3
<1>3. ItemsValue(part) = [NoItems EXCEPT ![k] = json]
  BY <1>1 DEF ItemsValue
<1> HIDE DEF json
<1>4. ItemsValue(part).events \o ItemsValue(part).metrics = json
  <2>1. CASE k = "events"
    <3>1. ItemsValue(part) = [events |-> json, metrics |-> <<>>]
      BY <1>3, <2>1 DEF NoItems
    <3>2. json \o <<>> = json
      BY <1>2, ConcatEmptySeq
    <3>3. QED
      BY <3>1, <3>2
  <2>2. CASE k = "metrics"
    <3>1. ItemsValue(part) = [events |-> <<>>, metrics |-> json]
      BY <1>3, <2>2 DEF NoItems
    <3>2. <<>> \o json = json
      BY <1>2, ConcatEmptySeq
    <3>3. QED
      BY <3>1, <3>2
  <2>3. QED
    BY <2>1, <2>2 DEF Kind
<1>5. q.bytes.content = b /\ q.url = b.label
  BY DEF Request, MaybeCompress, Gzip, Plain
<1>6. CASE ~cfg.encrypted
  <2>1. b = [label |-> k, clear |-> ItemsValue(part), sealed |-> {}, report |-> "none"]
    BY <1>1, <1>6 DEF BatchBody, BuildBatchBody, NoBody
  <2>2. b.sealed = {} /\ b.clear = ItemsValue(part)
    BY <2>1
  <2> HIDE DEF q, b
  <2>3. ServerItems(q) = ItemsValue(part).events \o ItemsValue(part).metrics
    BY <1>5, <2>2 DEF ServerItems
  <2>4. QED
    BY <1>4, <1>6, <2>3 DEF q, b, json
<1>7. CASE cfg.encrypted
  <2>1. b = [label |-> "events/encrypted", clear |-> NoItems,
             sealed |-> {[key |-> "project", text |-> ItemsValue(part)]}, report |-> "none"]
    BY <1>7 DEF BatchBody, BuildEncryptedBody, NoBody, Encrypt
  <2>2. /\ b.sealed = {[key |-> "project", text |-> ItemsValue(part)]}
        /\ b.clear = NoItems /\ b.label = "events/encrypted"
    BY <2>1
  <2>3. {c.text : c \in {x \in b.sealed : x.key = "project"}} = {ItemsValue(part)}
    <3> DEFINE seal == [key |-> "project", text |-> ItemsValue(part)]
    <3>1. seal.key = "project" /\ seal.text = ItemsValue(part)
      OBVIOUS
    <3>2. b.sealed = {seal}
      BY <2>2, Zenon
    <3> HIDE DEF seal, b
    <3>3. {x \in b.sealed : x.key = "project"} = {seal}
      BY <3>1, <3>2
    <3>4. {c.text : c \in {seal}} = {ItemsValue(part)}
      BY <3>1
    <3>5. QED
      BY <3>3, <3>4, Zenon
  <2>4. b.sealed # {}
    BY <2>2
  <2> HIDE DEF q, b
  <2>5. ServerItems(q) = ItemsValue(part).events \o ItemsValue(part).metrics
    BY <1>5, <2>3, <2>4 DEF ServerItems
  <2>6. QED
    BY <1>4, <1>5, <2>2, <2>5 DEF q, b, json
<1>8. QED
  BY <1>6, <1>7

(* What the server may ingest of a part.                                   *)
LEMMA PartRead ==
  ASSUME emitted \in Seq(DOMAIN Facade), NEW k \in Kind, NEW part \in Seq(Items(k)), part # <<>>
  PROVE  LET all == Range(ServerItems(Request(BatchBody(part)))) IN
         /\ all \subseteq Texts
         /\ {x.id : x \in all} = Ids(part)
<1> DEFINE items == ServerItems(Request(BatchBody(part)))
<1>1. items = [i \in DOMAIN part |-> ToJson(part[i])]
  BY PartOnWire, Zenon
<1>2. \A i \in DOMAIN part : part[i] \in Items(k)
  <2>1. DOMAIN part = 1..Len(part)
    BY LenProperties
  <2>2. QED
    BY <2>1, ElementOfSeq
<1>3. \A i \in DOMAIN part : /\ part[i].id \in Emissions
                             /\ ToJson(part[i]) = OnWire(part[i].id)
  BY <1>2, ItemFacts
<1>4. \A i \in DOMAIN part : OnWire(part[i].id).id = part[i].id
  BY <1>3, Identity
<1> HIDE DEF items
<1>5. Range(items) = {ToJson(part[i]) : i \in DOMAIN part}
  BY <1>1 DEF Range
<1>6. Range(items) \subseteq Texts
  BY <1>3, <1>5 DEF Texts
<1>7. {x.id : x \in Range(items)} = Ids(part)
  BY <1>3, <1>4, <1>5 DEF Ids
<1>8. QED
  BY <1>6, <1>7 DEF items

(* A status push carries no records.                                       *)
LEMMA PushOnWire ==
  ASSUME Bodies
  PROVE  Range(ServerItems(Request(body["status"]))) = {}
<1> DEFINE b == body["status"]
<1>1. Request(b).bytes.content = b
  BY DEF Request, MaybeCompress, Gzip, Plain
<1>2. b.sealed = {} /\ b.clear = NoItems
  BY DEF Bodies
<1> HIDE DEF b
<1>3. ServerItems(Request(b)) = <<>> \o <<>>
  BY <1>1, <1>2 DEF ServerItems, NoItems
<1>4. <<>> \o <<>> = <<>>
  OBVIOUS
<1>5. QED
  BY <1>3, <1>4 DEF b, Range

-----------------------------------------------------------------------------
(* Sequences of records.                                                   *)

(* A sequence over a set is one over any larger set.                       *)
LEMMA SeqWider ==
  ASSUME NEW S, NEW T, S \subseteq T, NEW s \in Seq(S)
  PROVE  s \in Seq(T)
<1>1. Len(s) \in Nat /\ s \in [1..Len(s) -> S]
  BY LenProperties
<1>2. s \in [1..Len(s) -> T]
  BY <1>1
<1>3. QED
  BY <1>1, <1>2

(* An append adds one identity.                                            *)
LEMMA IdsAppend ==
  ASSUME NEW S, NEW s \in Seq(S), NEW x \in S
  PROVE  Append(s, x) \in Seq(S) /\ Ids(Append(s, x)) = Ids(s) \cup {x.id}
<1>1. /\ Append(s, x) \in Seq(S) /\ Len(s) \in Nat
      /\ DOMAIN s = 1..Len(s) /\ DOMAIN Append(s, x) = 1..(Len(s) + 1)
      /\ \A i \in 1..Len(s) : Append(s, x)[i] = s[i]
      /\ Append(s, x)[Len(s) + 1] = x
  OBVIOUS
<1>2. \A i \in 1..(Len(s) + 1) : i \in 1..Len(s) \/ i = Len(s) + 1
  BY <1>1
<1>3. 1..Len(s) \subseteq 1..(Len(s) + 1) /\ Len(s) + 1 \in 1..(Len(s) + 1)
  BY <1>1
<1>4. Ids(Append(s, x)) \subseteq Ids(s) \cup {x.id}
  BY <1>1, <1>2 DEF Ids
<1>5. Ids(s) \cup {x.id} \subseteq Ids(Append(s, x))
  BY <1>1, <1>3 DEF Ids
<1>6. QED
  BY <1>1, <1>4, <1>5

(* A concatenation has the identities of both.                             *)
LEMMA IdsConcat ==
  ASSUME NEW S, NEW s \in Seq(S), NEW t \in Seq(S)
  PROVE  s \o t \in Seq(S) /\ Ids(s \o t) = Ids(s) \cup Ids(t)
<1>1. /\ s \o t \in Seq(S) /\ Len(s) \in Nat /\ Len(t) \in Nat
      /\ DOMAIN s = 1..Len(s) /\ DOMAIN t = 1..Len(t)
      /\ DOMAIN (s \o t) = 1..(Len(s) + Len(t))
      /\ \A i \in 1..(Len(s) + Len(t)) :
            (s \o t)[i] = IF i <= Len(s) THEN s[i] ELSE t[i - Len(s)]
  BY ConcatProperties, LenProperties
<1>2. ASSUME NEW i \in 1..(Len(s) + Len(t))
      PROVE  (s \o t)[i].id \in Ids(s) \cup Ids(t)
  <2>1. CASE i <= Len(s)
    <3>1. i \in DOMAIN s
      BY <1>1, <2>1
    <3>2. QED
      BY <1>1, <2>1, <3>1 DEF Ids
  <2>2. CASE ~(i <= Len(s))
    <3>1. i - Len(s) \in DOMAIN t
      BY <1>1, <2>2
    <3>2. QED
      BY <1>1, <2>2, <3>1 DEF Ids
  <2>3. QED
    BY <2>1, <2>2
<1>3. ASSUME NEW i \in DOMAIN s PROVE s[i].id \in Ids(s \o t)
  <2>1. i \in 1..(Len(s) + Len(t)) /\ i <= Len(s)
    BY <1>1
  <2>2. QED
    BY <1>1, <2>1 DEF Ids
<1>4. ASSUME NEW i \in DOMAIN t PROVE t[i].id \in Ids(s \o t)
  <2>1. /\ Len(s) + i \in 1..(Len(s) + Len(t)) /\ ~(Len(s) + i <= Len(s))
        /\ (Len(s) + i) - Len(s) = i
    BY <1>1
  <2>2. (s \o t)[Len(s) + i] = t[i]
    BY <1>1, <2>1
  <2>3. QED
    BY <1>1, <2>1, <2>2 DEF Ids
<1>5. Ids(s \o t) \subseteq Ids(s) \cup Ids(t)
  BY <1>1, <1>2 DEF Ids
<1>6. Ids(s) \subseteq Ids(s \o t) /\ Ids(t) \subseteq Ids(s \o t)
  BY <1>3, <1>4 DEF Ids
<1>7. QED
  BY <1>1, <1>5, <1>6

(* Members of a queue.                                                     *)
LEMMA IdsOfItems ==
  ASSUME emitted \in Seq(DOMAIN Facade), NEW k, NEW s \in Seq(Items(k))
  PROVE  /\ Ids(s) \subseteq Emissions
         /\ \A n \in Ids(s) : OnWire(n).kind = k
<1>1. \A i \in DOMAIN s : s[i] \in Items(k)
  <2>1. DOMAIN s = 1..Len(s)
    BY LenProperties
  <2>2. QED
    BY <2>1, ElementOfSeq
<1>2. \A i \in DOMAIN s : s[i].id \in Emissions /\ OnWire(s[i].id).kind = k
  BY <1>1, ItemFacts
<1>3. QED
  BY <1>2 DEF Ids

(* Another emission, or none: what came of the earlier ones stays.         *)
LEMMA EmittedGrows ==
  ASSUME emitted \in Seq(DOMAIN Facade),
         \/ emitted' = emitted
         \/ \E name \in DOMAIN Facade : emitted' = Append(emitted, name)
  PROVE  /\ emitted' \in Seq(DOMAIN Facade)
         /\ Emissions \subseteq Emissions'
         /\ \A n \in Emissions : Origin(n)' = Origin(n) /\ OnWire(n)' = OnWire(n)
         /\ {Origin(n) : n \in Emissions} \subseteq {Origin(n) : n \in Emissions}'
         /\ Texts \subseteq Texts'
         /\ \A k : Items(k) \subseteq Items(k)'
<1>1. emitted' \in Seq(DOMAIN Facade)
  OBVIOUS
<1>2. Emissions \subseteq Emissions' /\ \A n \in Emissions : emitted'[n] = emitted[n]
  BY DEF Emissions
<1>3. \A n \in Emissions : Origin(n)' = Origin(n)
  BY <1>2 DEF Origin
<1>4. \A n \in Emissions : /\ Queued(n)' = Queued(n) /\ OnWire(n)' = OnWire(n)
                            /\ Reloaded(n)' = Reloaded(n)
  BY <1>3 DEF Queued, OnWire, Reloaded
<1>5. {Origin(n) : n \in Emissions} \subseteq {Origin(n) : n \in Emissions}'
  BY <1>2, <1>3
<1>6. Texts \subseteq Texts'
  BY <1>2, <1>4 DEF Texts
<1>7. \A k : Items(k) \subseteq Items(k)'
  BY <1>2, <1>4 DEF Items
<1>8. QED
  BY <1>1, <1>2, <1>3, <1>4, <1>5, <1>6, <1>7

(* Identity, for the emissions after a step too.                           *)
Known(n) ==
    /\ Origin(n).id = n /\ Queued(n).id = n /\ OnWire(n).id = n
    /\ OnWire(n).kind \in Kind
    /\ Origin(n).kind = OnWire(n).kind /\ Queued(n).kind = OnWire(n).kind
AllKnown == emitted \in Seq(DOMAIN Facade) => \A n \in Emissions : Known(n)

(* The forms of every emission have its identity and its kind.             *)
LEMMA Knowledge == AllKnown
BY Identity DEF AllKnown, Known

(* The same of the next state.                                             *)
LEMMA KnowledgeNext == AllKnown'
BY Knowledge, PTL

-----------------------------------------------------------------------------
(* What a host step and an enqueue do.                                     *)

Grows ==
    \/ emitted' = emitted
    \/ \E name \in DOMAIN Facade : emitted' = Append(emitted, name)

(* Every number in use is that of an emission.                             *)
LEMMA UsedIds ==
  ASSUME Contents, Parts, Fates
  PROVE  /\ confirmed \subseteq Emissions /\ Ids(batch) \subseteq Emissions
         /\ \A k \in Kind : Ids(buffer[k]) \subseteq Emissions
<1>1. confirmed \subseteq Emissions
  BY DEF Fates
<1>2. \A k \in Kind : Ids(buffer[k]) \subseteq Emissions
  BY IdsOfItems DEF Contents
<1>3. Ids(batch) \subseteq Emissions
  <2>1. CASE batch = <<>>
    BY <2>1 DEF Ids
  <2>2. CASE \E k \in Kind : batch \in Seq(Items(k))
    BY <2>2, IdsOfItems DEF Contents
  <2>3. QED
    BY <2>1, <2>2 DEF Parts
<1>4. QED
  BY <1>1, <1>2, <1>3

(* Queues and batches keep their type when an emission is added.           *)
LEMMA TypesStay ==
  ASSUME Contents, Grows
  PROVE  /\ emitted' \in Seq(DOMAIN Facade)
         /\ {Origin(n) : n \in Emissions} \subseteq {Origin(n) : n \in Emissions}'
         /\ Texts \subseteq Texts' /\ Emissions \subseteq Emissions'
         /\ \A k : \A s \in Seq(Items(k)) : s \in Seq(Items(k))'
<1>1. emitted \in Seq(DOMAIN Facade)
  BY DEF Contents
<1>2. /\ emitted' \in Seq(DOMAIN Facade) /\ Texts \subseteq Texts' /\ Emissions \subseteq Emissions'
      /\ {Origin(n) : n \in Emissions} \subseteq {Origin(n) : n \in Emissions}'
      /\ \A k : Items(k) \subseteq Items(k)'
  BY <1>1, EmittedGrows, Zenon DEF Grows
<1>3. ASSUME NEW k, NEW s \in Seq(Items(k)) PROVE s \in Seq(Items(k))'
  BY <1>2, SeqWider, Zenon
<1>4. QED
  BY <1>2, <1>3, Zenon

(* The two senders and the past are as they were.                          *)
LEMMA SendersStay ==
  ASSUME WireInv, Grows,
         UNCHANGED <<sendVars, flushVars, statVars, serverVars, endVars, used>>, cfg' = cfg
  PROVE  Control' /\ Pushes' /\ Parts' /\ Bodies'
<1>1. Control' /\ Pushes' /\ Bodies'
  BY DEF WireInv, Control, Pushes, Bodies
<1>2. Parts'
  <2>1. CASE pc["flush"] = "idle" /\ batch = <<>> /\ todo = <<>>
    BY <2>1 DEF Parts
  <2>2. CASE pc["flush"] # "idle"
    <3>1. PICK k \in Kind : batch \in Seq(Items(k)) \ {<<>>} /\ todo \in Seq(Seq(Items(k)) \ {<<>>})
      BY <2>2 DEF WireInv, Parts
    <3>2. todo # <<>> /\ body["flush"] = BatchBody(Head(todo))
      BY <2>2 DEF WireInv, Parts
    <3>3. Seq(Items(k)) \ {<<>>} \subseteq Seq(Items(k)') \ {<<>>}
      BY TypesStay DEF WireInv
    <3>4. batch' \in Seq(Items(k)') \ {<<>>} /\ todo' \in Seq(Seq(Items(k)') \ {<<>>})
      BY <3>1, <3>3, SeqWider
    <3>5. BatchBody(Head(todo))' = BatchBody(Head(todo))
      BY DEF BatchBody, BuildEncryptedBody, BuildBatchBody, ItemsValue, Encrypt
    <3>6. QED
      BY <2>2, <3>2, <3>4, <3>5 DEF Parts
  <2>3. QED
    BY <2>1, <2>2 DEF WireInv, Parts
<1>3. QED
  BY <1>1, <1>2

(* The record of an emission nothing has seen yet is enqueued.             *)
LEMMA EnqueueKeeps ==
  ASSUME WireInv, Grows, NEW n \in Emissions', NEW item, item = Origin(n)', n \notin confirmed,
         Enqueue(item), UNCHANGED <<batch, todo, serverVars, endVars>>
  PROVE  /\ (stored \subseteq Texts)' /\ IsFiniteSet(stored')
         /\ DOMAIN buffer' = Kind /\ \A k \in Kind : (buffer[k] \in Seq(Items(k)))'
         /\ Fates'
         /\ \A k \in Kind : Ids(buffer'[k]) \subseteq Ids(buffer[k]) \cup {n}
<1>0. /\ Contents /\ Fates /\ stored \subseteq Texts /\ IsFiniteSet(stored)
      /\ DOMAIN buffer = Kind /\ \A k \in Kind : buffer[k] \in Seq(Items(k))
  BY DEF WireInv, Contents
<1>1. /\ emitted' \in Seq(DOMAIN Facade) /\ Texts \subseteq Texts' /\ Emissions \subseteq Emissions'
      /\ \A k : \A s \in Seq(Items(k)) : s \in Seq(Items(k))'
  BY <1>0, TypesStay, Zenon
<1>2. Known(n)'
  BY <1>1, KnowledgeNext DEF AllKnown
<1> DEFINE q == Redact(item)
           k == item.kind
           text == ToJson(q)
<1>3. q = Queued(n)' /\ text = OnWire(n)'
  BY DEF Queued, OnWire
<1>4. q.id = n /\ text.id = n /\ k \in Kind /\ q.kind = k /\ text.kind = k
  BY <1>2, <1>3 DEF Known
<1>5. q \in Items(k)' /\ text \in Texts'
  BY <1>3, <1>4 DEF Items, Texts
<1> HIDE DEF q, k, text
<1>6. \/ UNCHANGED <<buffer, stored>>
      \/ /\ buffer' = [buffer EXCEPT ![k] = Append(@, q)]
         /\ stored' = stored \cup {text} \/ stored' = stored
  BY DEF Enqueue, q, k, text
<1>7. (stored \subseteq Texts)' /\ IsFiniteSet(stored')
  <2>1. IsFiniteSet(stored \cup {text})
    BY <1>0, FS_AddElement
  <2>2. QED
    BY <1>0, <1>1, <1>5, <1>6, <2>1
<1>8. Append(buffer[k], q) \in Seq(Items(k)') /\ Ids(Append(buffer[k], q)) = Ids(buffer[k]) \cup {n}
  <2>1. buffer[k] \in Seq(Items(k)')
    BY <1>0, <1>1, <1>4
  <2>2. QED
    BY <1>4, <1>5, <2>1, IdsAppend
<1>9. DOMAIN buffer' = Kind /\ \A j \in Kind : buffer'[j] = buffer[j] \/ (j = k /\ buffer'[j] = Append(buffer[k], q))
  BY <1>0, <1>6
<1>10. \A j \in Kind : (buffer[j] \in Seq(Items(j)))'
  BY <1>0, <1>1, <1>8, <1>9
<1>11. \A j \in Kind : /\ Ids(buffer'[j]) \subseteq Ids(buffer[j]) \cup {n}
                        /\ Ids(buffer[j]) \subseteq Ids(buffer'[j])
  BY <1>8, <1>9
<1>12. stored' # stored => text.id \in Ids(buffer'[k]) /\ stored' \subseteq stored \cup {text}
  BY <1>0, <1>4, <1>6, <1>8
<1>13. ASSUME NEW x \in stored'
       PROVE  x.id \notin confirmed /\ (x.id \in Ids(batch) \cup Ids(buffer'[x.kind]) \/ ~Parses(x))
  <2>1. CASE x \in stored
    <3>1. PICK m \in Emissions : x = OnWire(m)
      BY <1>0, <2>1 DEF Texts
    <3>2. x.kind \in Kind
      BY <1>0, <3>1, Identity DEF Contents
    <3>3. x.id \notin confirmed /\ (x.id \in Ids(batch) \cup Ids(buffer[x.kind]) \/ ~Parses(x))
      BY <1>0, <2>1 DEF Fates, LetGo
    <3>4. QED
      BY <1>11, <3>2, <3>3
  <2>2. CASE x \notin stored
    BY <1>4, <1>12, <2>2
  <2>3. QED
    BY <2>1, <2>2
<1>14. Fates'
  <2>1. /\ PartIds' = PartIds /\ Settled' = Settled /\ batch' = batch
        /\ confirmed' = confirmed
    BY DEF PartIds, IdsIn, Settled
  <2>2. LetGo'
    BY <1>0, <1>13, <2>1 DEF Fates, LetGo
  <2>3. QED
    BY <1>0, <1>1, <2>1, <2>2 DEF Fates
<1>15. QED
  BY <1>7, <1>9, <1>10, <1>11, <1>14

-----------------------------------------------------------------------------
(* Host and bridge.                                                        *)

(* A new emission has the next number.                                     *)
LEMMA NextNumber ==
  ASSUME emitted \in Seq(DOMAIN Facade), NEW name \in DOMAIN Facade,
         emitted' = Append(emitted, name)
  PROVE  /\ Len(emitted) + 1 \in Emissions' /\ Len(emitted) + 1 \notin Emissions
         /\ emitted'[Len(emitted) + 1] = name
BY DEF Emissions

(* The engine emits a record: a bridge task waits with it.                 *)
LEMMA EmitKeeps ==
  ASSUME WireInv, NEW name \in DOMAIN Facade, Emit(name)
  PROVE  WireInv'
<1> DEFINE r == Facade[name]
<1>n. PICK n : n = Len(emitted) + 1
  OBVIOUS
<1>0. /\ Contents /\ Fates /\ Parts /\ Waiting /\ emitted \in Seq(DOMAIN Facade)
  BY DEF WireInv, Contents
<1>1. /\ emitted' = Append(emitted, name) /\ r.via = "bridge"
      /\ spawned' = spawned \cup {IF r.kind = "events" THEN ToAgentEvent(r, n) ELSE ToAgentMetric(r, n)}
      /\ UNCHANGED <<cfg, buffer, stored, sendVars, flushVars, statVars, serverVars, endVars, used>>
  BY <1>n DEF Emit
<1>2. Grows
  BY <1>1 DEF Grows
<1>3. n \in Emissions' /\ n \notin Emissions /\ emitted'[n] = name
  BY <1>0, <1>1, <1>n, NextNumber
<1>4. spawned' = spawned \cup {Origin(n)'}
  BY <1>1, <1>3 DEF Origin, Made
<1>5. /\ emitted' \in Seq(DOMAIN Facade) /\ Texts \subseteq Texts' /\ Emissions \subseteq Emissions'
      /\ {Origin(m) : m \in Emissions} \subseteq {Origin(m) : m \in Emissions}'
      /\ \A k : \A s \in Seq(Items(k)) : s \in Seq(Items(k))'
  BY <1>0, <1>2, TypesStay, Zenon
<1> HIDE DEF r
<1>6. Contents'
  <2>1. spawned' \subseteq {Origin(m) : m \in Emissions}'
    BY <1>0, <1>3, <1>4, <1>5 DEF Contents
  <2>2. stored' \subseteq Texts' /\ IsFiniteSet(stored') /\ ingested' \subseteq Texts'
    BY <1>0, <1>1, <1>5 DEF Contents
  <2>3. DOMAIN buffer' = Kind /\ \A k \in Kind : buffer'[k] \in Seq(Items(k))'
    BY <1>0, <1>1, <1>5 DEF Contents
  <2>4. QED
    BY <1>5, <2>1, <2>2, <2>3 DEF Contents
<1>7. Fates'
  <2>1. PartIds' = PartIds /\ Settled' = Settled /\ LetGo'
    BY <1>0, <1>1 DEF PartIds, IdsIn, Settled, LetGo, Fates
  <2>2. QED
    BY <1>0, <1>1, <1>5, <2>1 DEF Fates
<1>8. Waiting'
  <2>1. Known(n)'
    BY <1>3, <1>5, KnowledgeNext DEF AllKnown
  <2>2. /\ n \notin confirmed /\ n \notin Ids(batch)
        /\ \A k \in Kind : n \notin Ids(buffer[k])
    BY <1>0, <1>3, UsedIds
  <2>3. QED
    BY <1>0, <1>1, <1>4, <2>1, <2>2 DEF Waiting, Known
<1>9. QED
  BY <1>1, <1>2, <1>6, <1>7, <1>8, SendersStay DEF WireInv

(* The host submits a record: it is enqueued at once.                      *)
LEMMA ReportKeeps ==
  ASSUME WireInv, NEW name \in DOMAIN Facade, Report(name)
  PROVE  WireInv'
<1> DEFINE r == Facade[name]
<1>n. PICK n : n = Len(emitted) + 1
  OBVIOUS
<1>i. PICK item : item = IF r.kind = "events" THEN BuildEvent(r, n) ELSE BuildMetric(r, n)
  OBVIOUS
<1>0. /\ Contents /\ Fates /\ Parts /\ Waiting /\ emitted \in Seq(DOMAIN Facade)
  BY DEF WireInv, Contents
<1>1. /\ emitted' = Append(emitted, name) /\ r.via = "host" /\ Enqueue(item)
      /\ UNCHANGED <<cfg, spawned, sendVars, flushVars, statVars, serverVars, endVars, used>>
  BY <1>n, <1>i DEF Report
<1>2. Grows
  BY <1>1 DEF Grows
<1>3. n \in Emissions' /\ n \notin Emissions /\ emitted'[n] = name
  BY <1>0, <1>1, <1>n, NextNumber
<1>4. item = Origin(n)'
  <2>1. BuildMetric(r, n) = ToAgentMetric(r, n)
    BY DEF BuildMetric, ToAgentMetric
  <2>2. QED
    BY <1>1, <1>3, <1>i, <2>1 DEF Origin, Made
<1>5. /\ emitted' \in Seq(DOMAIN Facade) /\ Texts \subseteq Texts'
      /\ {Origin(m) : m \in Emissions} \subseteq {Origin(m) : m \in Emissions}'
  BY <1>0, <1>2, TypesStay, Zenon
<1> HIDE DEF r
<1>6. n \notin confirmed
  BY <1>0, <1>3, UsedIds
<1>7. /\ (stored \subseteq Texts)' /\ IsFiniteSet(stored')
      /\ DOMAIN buffer' = Kind /\ \A k \in Kind : (buffer[k] \in Seq(Items(k)))'
      /\ Fates'
      /\ \A k \in Kind : Ids(buffer'[k]) \subseteq Ids(buffer[k]) \cup {n}
  BY <1>1, <1>2, <1>3, <1>4, <1>6, EnqueueKeeps
<1>8. Contents'
  <2>1. spawned' \subseteq {Origin(m) : m \in Emissions}' /\ ingested' \subseteq Texts'
    BY <1>0, <1>1, <1>5 DEF Contents
  <2>2. QED
    BY <1>5, <1>7, <2>1 DEF Contents
<1>9. Waiting'
  <2>1. \A x \in spawned : x.id \in Emissions
    BY <1>0, Identity DEF Contents
  <2>2. QED
    BY <1>0, <1>1, <1>3, <1>7, <2>1 DEF Waiting
<1>10. QED
  BY <1>1, <1>2, <1>7, <1>8, <1>9, SendersStay DEF WireInv

(* A bridge task runs: its record is enqueued.                             *)
LEMMA SendRecordKeeps ==
  ASSUME WireInv, NEW item, SendRecord(item)
  PROVE  WireInv'
<1>0. /\ Contents /\ Fates /\ Parts /\ Waiting /\ emitted \in Seq(DOMAIN Facade)
  BY DEF WireInv, Contents
<1>1. /\ item \in spawned /\ spawned' = spawned \ {item} /\ Enqueue(item)
      /\ UNCHANGED <<cfg, emitted, sendVars, flushVars, statVars, serverVars, endVars, used>>
  BY DEF SendRecord
<1>2. Grows
  BY <1>1 DEF Grows
<1>3. PICK n \in Emissions : item = Origin(n)
  BY <1>0, <1>1 DEF Contents
<1>4. item.id = n /\ n \notin confirmed
  BY <1>0, <1>1, <1>3, Identity DEF Waiting
<1>5. n \in Emissions' /\ item = Origin(n)'
  BY <1>1, <1>3 DEF Emissions, Origin
<1>6. /\ (stored \subseteq Texts)' /\ IsFiniteSet(stored')
      /\ DOMAIN buffer' = Kind /\ \A k \in Kind : (buffer[k] \in Seq(Items(k)))'
      /\ Fates'
      /\ \A k \in Kind : Ids(buffer'[k]) \subseteq Ids(buffer[k]) \cup {n}
  BY <1>1, <1>2, <1>4, <1>5, EnqueueKeeps
<1>7. /\ emitted' \in Seq(DOMAIN Facade) /\ Texts \subseteq Texts'
      /\ {Origin(m) : m \in Emissions} \subseteq {Origin(m) : m \in Emissions}'
  BY <1>0, <1>2, TypesStay, Zenon
<1>8. Contents'
  <2>1. spawned' \subseteq {Origin(m) : m \in Emissions}' /\ ingested' \subseteq Texts'
    BY <1>0, <1>1, <1>7 DEF Contents
  <2>2. QED
    BY <1>6, <1>7, <2>1 DEF Contents
<1>9. Waiting'
  <2>1. ASSUME NEW x \in spawned' PROVE x \in spawned /\ x.id # n
    <3>1. x \in spawned /\ x # item
      BY <1>1
    <3>2. PICK m \in Emissions : x = Origin(m)
      BY <1>0, <3>1 DEF Contents
    <3>3. x.id = m
      BY <1>0, <3>2, Identity
    <3>4. QED
      BY <1>3, <3>1, <3>2, <3>3
  <2>2. QED
    BY <1>0, <1>1, <1>6, <2>1 DEF Waiting
<1>10. QED
  BY <1>1, <1>2, <1>6, <1>8, <1>9, SendersStay DEF WireInv

-----------------------------------------------------------------------------
(* The senders, and a crash.                                               *)

(* Without a new emission nothing changes in what came of the others.      *)
LEMMA EmittedSame ==
  ASSUME emitted' = emitted
  PROVE  /\ Emissions' = Emissions /\ Texts' = Texts
         /\ \A k : Items(k)' = Items(k)
         /\ {Origin(n) : n \in Emissions}' = {Origin(n) : n \in Emissions}
         /\ \A n : OnWire(n)' = OnWire(n)
<1>1. Emissions' = Emissions
  BY DEF Emissions
<1>2. \A n : Origin(n)' = Origin(n)
  BY DEF Origin
<1>3. \A n : Queued(n)' = Queued(n) /\ OnWire(n)' = OnWire(n) /\ Reloaded(n)' = Reloaded(n)
  BY <1>2 DEF Queued, OnWire, Reloaded
<1>4. QED
  BY <1>1, <1>2, <1>3 DEF Texts, Items

(* A text in the store is of a known kind.                                 *)
LEMMA StoredKind ==
  ASSUME Contents, NEW x \in stored
  PROVE  \E n \in Emissions : x = OnWire(n) /\ x.id = n /\ x.kind \in Kind
<1>1. PICK n \in Emissions : x = OnWire(n)
  BY DEF Contents, Texts
<1>2. QED
  BY <1>1, Identity DEF Contents

(* A flush takes a queue as its batch and first part.                      *)
LEMMA DrainKeeps ==
  ASSUME WireInv, NEW k \in Kind, Drain(k)
  PROVE  WireInv'
<1>0. /\ Control /\ Pushes /\ Contents /\ Parts /\ Bodies /\ Fates /\ Waiting
  BY DEF WireInv
<1>1. /\ pc["flush"] = "idle" /\ buffer[k] # <<>>
      /\ batch' = buffer[k] /\ todo' = <<buffer[k]>>
      /\ buffer' = [buffer EXCEPT ![k] = <<>>]
      /\ pc' = [pc EXCEPT !["flush"] = "wire"]
      /\ body' = [body EXCEPT !["flush"] = BatchBody(buffer[k])]
      /\ attempt' = [attempt EXCEPT !["flush"] = 0] /\ delay' = delay
      /\ used' = [used EXCEPT !.sends = @ + 1]
      /\ UNCHANGED <<hostVars, stored, statVars, serverVars, endVars>>
  BY DEF Drain, Begin, Goto
<1>2. /\ Emissions' = Emissions /\ Texts' = Texts /\ \A j : Items(j)' = Items(j)
      /\ {Origin(n) : n \in Emissions}' = {Origin(n) : n \in Emissions}
  BY <1>1, EmittedSame, Zenon
<1>3. batch = <<>> /\ Ids(batch) = {} /\ PartIds = {}
  BY <1>0, <1>1 DEF Parts, Ids, PartIds, IdsIn
<1>4. Control'
  BY <1>0, <1>1, WireAssumption DEF Control, Senders
<1>5. Pushes'
  <2>1. used' \in [sends : Nat, detours : 0..MaxDetours] /\ used'.detours = used.detours
    BY <1>0, <1>1 DEF Pushes
  <2>2. pc'["status"] = pc["status"]
    BY <1>0, <1>1 DEF Control
  <2>3. QED
    BY <1>0, <1>1, <2>1, <2>2 DEF Pushes
<1>6. Contents'
  <2>1. DOMAIN buffer' = Kind /\ \A j \in Kind : buffer'[j] \in Seq(Items(j))
    BY <1>0, <1>1 DEF Contents
  <2>2. QED
    BY <1>0, <1>1, <1>2, <2>1 DEF Contents
<1>7. buffer[k] \in Seq(Items(k)) \ {<<>>}
  BY <1>0, <1>1 DEF Contents
<1>8. Parts'
  <2>1. todo' \in Seq(Seq(Items(k)) \ {<<>>}) /\ todo' # <<>> /\ Head(todo') = buffer[k]
    BY <1>1, <1>7
  <2>2. pc'["flush"] = "wire" /\ body'["flush"] = BatchBody(buffer[k])
    BY <1>0, <1>1 DEF Control, Bodies, Senders
  <2>3. BatchBody(Head(todo))' = BatchBody(buffer[k])
    BY <1>1, <2>1 DEF BatchBody, BuildEncryptedBody, BuildBatchBody, ItemsValue, Encrypt
  <2>4. batch' \in Seq(Items(k)') \ {<<>>} /\ todo' \in Seq(Seq(Items(k)') \ {<<>>})
    BY <1>1, <1>2, <1>7, <2>1
  <2>5. QED
    BY <2>1, <2>2, <2>3, <2>4 DEF Parts
<1>9. Bodies'
  BY <1>0, <1>1 DEF Bodies, Senders
<1>10. Fates'
  <2>1. PartIds' = Ids(batch')
    BY <1>1 DEF PartIds, IdsIn
  <2>2. Settled' = Settled /\ confirmed' = confirmed
    BY <1>1 DEF Settled
  <2>3. ASSUME NEW x \in stored
        PROVE  x.id \notin confirmed /\ (x.id \in Ids(batch') \cup Ids(buffer'[x.kind]) \/ ~Parses(x))
    <3>1. x.kind \in Kind
      BY <1>0, StoredKind
    <3>2. x.id \notin confirmed /\ (x.id \in Ids(buffer[x.kind]) \/ ~Parses(x))
      BY <1>0, <1>3 DEF Fates, LetGo
    <3>3. x.kind = k \/ buffer'[x.kind] = buffer[x.kind]
      BY <1>0, <1>1, <3>1 DEF Contents
    <3>4. QED
      BY <1>1, <3>2, <3>3
  <2>4. LetGo'
    <3>1. confirmed' \subseteq ({x.id : x \in ingested} \cup (refused \cap hooked))'
      BY <1>0, <1>1 DEF Fates, LetGo
    <3>2. QED
      BY <1>1, <2>3, <3>1 DEF LetGo
  <2>5. QED
    BY <1>0, <1>2, <2>1, <2>2, <2>4 DEF Fates
<1>11. Waiting'
  <2>1. \A j \in Kind : Ids(buffer'[j]) \subseteq Ids(buffer[j])
    BY <1>0, <1>1 DEF Contents, Ids
  <2>2. QED
    BY <1>0, <1>1, <2>1 DEF Waiting
<1>12. QED
  BY <1>4, <1>5, <1>6, <1>8, <1>9, <1>10, <1>11 DEF WireInv

(* A step of the senders that leaves the records alone.                    *)
LEMMA RecordsStay ==
  ASSUME WireInv, UNCHANGED <<hostVars, buffer, stored, flushVars, serverVars, endVars>>
  PROVE  Contents' /\ Fates' /\ Waiting'
<1>1. /\ Emissions' = Emissions /\ Texts' = Texts /\ \A j : Items(j)' = Items(j)
      /\ {Origin(n) : n \in Emissions}' = {Origin(n) : n \in Emissions}
  BY EmittedSame, Zenon
<1>2. Contents'
  BY <1>1 DEF WireInv, Contents
<1>3. PartIds' = PartIds /\ Settled' = Settled /\ LetGo' = LetGo
  BY DEF PartIds, IdsIn, Settled, LetGo
<1>4. Fates'
  BY <1>1, <1>3 DEF WireInv, Fates
<1>5. Waiting'
  BY DEF WireInv, Waiting
<1>6. QED
  BY <1>2, <1>4, <1>5

(* ... and the flush where it is but for its place.                        *)
LEMMA PartsStay ==
  ASSUME WireInv, UNCHANGED <<hostVars, flushVars>>, body'["flush"] = body["flush"],
         pc'["flush"] = "idle" <=> pc["flush"] = "idle"
  PROVE  Parts'
<1>1. \A j : Items(j)' = Items(j)
  BY EmittedSame, Zenon
<1>2. BatchBody(Head(todo))' = BatchBody(Head(todo))
  BY DEF BatchBody, BuildEncryptedBody, BuildBatchBody, ItemsValue, Encrypt
<1>3. QED
  BY <1>1, <1>2 DEF WireInv, Parts

(* A status push begins, paid for from its bound.                          *)
LEMMA PushStatusKeeps ==
  ASSUME WireInv, PushStatus
  PROVE  WireInv'
<1>0. /\ Control /\ Pushes /\ Bodies
  BY DEF WireInv
<1>1. PICK open \in BOOLEAN :
         body' = [body EXCEPT !["status"] = [NoBody EXCEPT !.label = "status",
                                                            !.report = ComputeStatus(open)]]
  BY DEF PushStatus, Begin
<1>2. /\ pc["status"] = "idle" /\ used["detours"] < MaxDetours
      /\ pc' = [pc EXCEPT !["status"] = "wire"]
      /\ attempt' = [attempt EXCEPT !["status"] = 0] /\ delay' = delay
      /\ used' = [used EXCEPT !.detours = @ + 1]
      /\ UNCHANGED <<hostVars, buffer, stored, flushVars, statVars, serverVars, endVars>>
  BY DEF PushStatus, Begin, Goto
<1>3. Control'
  BY <1>0, <1>2, WireAssumption DEF Control, Senders
<1>4. Pushes'
  <2>1. used' \in [sends : Nat, detours : 0..MaxDetours] /\ used'.detours = used.detours + 1
    BY <1>0, <1>2, WireAssumption DEF Pushes
  <2>2. QED
    BY <1>0, <1>2, <2>1 DEF Pushes
<1>5. Bodies'
  <2> DEFINE b == [NoBody EXCEPT !.label = "status", !.report = ComputeStatus(open)]
  <2>1. b.clear = NoItems /\ b.sealed = {}
    BY DEF NoBody
  <2> HIDE DEF b
  <2>2. DOMAIN body' = Senders /\ body'["status"] = b
    BY <1>0, <1>1 DEF Bodies, Senders, b
  <2>3. QED
    BY <2>1, <2>2 DEF Bodies
<1>6. Parts'
  <2>1. body'["flush"] = body["flush"] /\ pc'["flush"] = pc["flush"]
    BY <1>0, <1>1, <1>2 DEF Bodies, Control, Senders
  <2>2. QED
    BY <1>2, <2>1, PartsStay
<1>7. QED
  BY <1>2, <1>3, <1>4, <1>5, <1>6, RecordsStay DEF WireInv

(* A request goes out.                                                     *)
LEMMA AttemptKeeps ==
  ASSUME WireInv, NEW s \in Senders, Attempt(s)
  PROVE  WireInv'
<1>0. /\ Control /\ Pushes /\ Bodies
  BY DEF WireInv
<1>1. /\ pc[s] = "sleep" /\ pc' = [pc EXCEPT ![s] = "wire"]
      /\ delay' = [delay EXCEPT ![s] = 0]
      /\ UNCHANGED <<hostVars, buffer, stored, body, attempt, flushVars, statVars, serverVars,
                     endVars, used>>
  BY DEF Attempt, Goto
<1>2. Control'
  BY <1>0, <1>1, WireAssumption DEF Control
<1>3. \A t \in Senders : pc'[t] = "idle" <=> pc[t] = "idle"
  BY <1>0, <1>1 DEF Control
<1>4. Pushes' /\ Bodies'
  BY <1>0, <1>1, <1>3 DEF Pushes, Bodies, Senders
<1>5. Parts'
  BY <1>1, <1>3, PartsStay DEF Senders
<1>6. QED
  BY <1>1, <1>2, <1>4, <1>5, RecordsStay DEF WireInv

(* What is reloaded of a kind: a sequence of its records.                  *)
LEMMA LoadedQueue ==
  ASSUME Contents, NEW k \in Kind, NEW queue \in InKeyOrder(Loaded(k))
  PROVE  queue \in Seq(Items(k)) /\ Ids(queue) = {x.id : x \in Loaded(k)}
<1> DEFINE texts == {x \in stored : x.kind = k /\ Parses(x)}
           read == [json \in texts |-> FromJson(json)]
<1>1. IsFiniteSet(texts)
  <2>1. texts \in SUBSET stored /\ IsFiniteSet(stored)
    BY DEF Contents
  <2> HIDE DEF texts
  <2>2. QED
    BY <2>1, FS_Subset
<1>2. Loaded(k) = {FromJson(json) : json \in texts}
  BY DEF Loaded
<1>3. IsFiniteSet(Loaded(k))
  <2>1. read \in Surjection(texts, Loaded(k))
    BY <1>2 DEF Surjection
  <2>2. QED
    BY <1>1, <2>1, FS_Surjection
<1>4. Loaded(k) \subseteq Items(k)
  <2>1. ASSUME NEW json \in texts PROVE FromJson(json) \in Items(k)
    <3>1. PICK n \in Emissions : json = OnWire(n)
      BY StoredKind
    <3>2. FromJson(json) = Reloaded(n) /\ json.kind = k
      BY <3>1 DEF Reloaded
    <3>3. Reloaded(n).kind = k
      BY <3>1, <3>2, Identity DEF Contents
    <3>4. QED
      BY <3>2, <3>3 DEF Items
  <2>2. QED
    BY <1>2, <2>1
<1> HIDE DEF texts, read
<1>5. Cardinality(Loaded(k)) \in Nat
  BY <1>3, FS_CardinalityType
<1>6. /\ queue \in [1..Cardinality(Loaded(k)) -> Loaded(k)]
      /\ \A x \in Loaded(k) : \E i \in 1..Cardinality(Loaded(k)) : queue[i] = x
  BY DEF InKeyOrder, Bijection, Surjection
<1>7. queue \in Seq(Items(k))
  BY <1>4, <1>5, <1>6
<1>8. Ids(queue) = {x.id : x \in Loaded(k)}
  BY <1>6 DEF Ids
<1>9. QED
  BY <1>7, <1>8

(* A crash and reload: memory holds what the store can be read to hold.    *)
LEMMA CrashKeeps ==
  ASSUME WireInv, CrashAndReload
  PROVE  WireInv'
<1>0. /\ Control /\ Pushes /\ Contents /\ Bodies /\ Fates
  BY DEF WireInv
<1>1. PICK events \in InKeyOrder(Loaded("events")), metrics \in InKeyOrder(Loaded("metrics")) :
         buffer' = [k \in Kind |-> IF k = "events" THEN events ELSE metrics]
  BY DEF CrashAndReload
<1>2. /\ used["detours"] < MaxDetours /\ used' = [used EXCEPT !.detours = @ + 1]
      /\ spawned' = {}
      /\ pc' = [s \in Senders |-> "idle"] /\ body' = [s \in Senders |-> NoBody]
      /\ attempt' = [s \in Senders |-> 0] /\ delay' = [s \in Senders |-> 0]
      /\ batch' = <<>> /\ todo' = <<>>
      /\ sent' = 0 /\ failed' = 0 /\ statusFailures' = 0 /\ lastPush' = "none"
      /\ UNCHANGED <<cfg, emitted, stored, serverVars, endVars>>
  BY DEF CrashAndReload
<1>3. /\ Emissions' = Emissions /\ Texts' = Texts /\ \A j : Items(j)' = Items(j)
      /\ {Origin(n) : n \in Emissions}' = {Origin(n) : n \in Emissions}
  BY <1>2, EmittedSame, Zenon
<1>4. \A k \in Kind : buffer'[k] \in Seq(Items(k)) /\ Ids(buffer'[k]) = {x.id : x \in Loaded(k)}
  <2>1. /\ events \in Seq(Items("events")) /\ Ids(events) = {x.id : x \in Loaded("events")}
        /\ metrics \in Seq(Items("metrics")) /\ Ids(metrics) = {x.id : x \in Loaded("metrics")}
    BY <1>0, LoadedQueue DEF Kind
  <2>2. buffer'["events"] = events /\ buffer'["metrics"] = metrics
    BY <1>1 DEF Kind
  <2>3. QED
    BY <2>1, <2>2 DEF Kind
<1>5. DOMAIN buffer' = Kind
  BY <1>1
<1>6. Control'
  BY <1>2, WireAssumption DEF Control
<1>7. Pushes'
  <2>1. used' \in [sends : Nat, detours : 0..MaxDetours]
    BY <1>0, <1>2, WireAssumption DEF Pushes
  <2>2. used'.detours >= 0 /\ pc'["status"] = "idle"
    BY <1>2, <2>1 DEF Senders
  <2>3. QED
    BY <1>2, <2>1, <2>2 DEF Pushes
<1>8. Contents'
  BY <1>0, <1>2, <1>3, <1>4, <1>5 DEF Contents
<1>9. Parts'
  BY <1>2 DEF Parts, Senders
<1>10. Bodies'
  BY <1>2 DEF Bodies, NoBody, Senders
<1>11. Fates'
  <2>1. PartIds' = {} /\ Ids(batch') = {} /\ Settled' = Settled /\ confirmed' = confirmed
    BY <1>2 DEF PartIds, IdsIn, Ids, Settled
  <2>2. ASSUME NEW x \in stored, Parses(x) PROVE x.id \in Ids(buffer'[x.kind])
    <3>1. PICK n \in Emissions : x = OnWire(n) /\ x.id = n /\ x.kind \in Kind
      BY <1>0, StoredKind
    <3>2. FromJson(x) \in Loaded(x.kind)
      BY <2>2 DEF Loaded
    <3>3. FromJson(x).id = n
      BY <1>0, <3>1, Identity DEF Reloaded, Contents
    <3>4. QED
      BY <1>4, <3>1, <3>2, <3>3
  <2>3. LetGo'
    <3>1. confirmed' \subseteq ({x.id : x \in ingested} \cup (refused \cap hooked))'
      BY <1>0, <1>2 DEF Fates, LetGo
    <3>2. \A x \in stored : x.id \notin confirmed
      BY <1>0 DEF Fates, LetGo
    <3>3. QED
      BY <1>2, <2>2, <3>1, <3>2 DEF LetGo
  <2>4. QED
    BY <1>0, <1>3, <2>1, <2>3 DEF Fates
<1>12. Waiting'
  BY <1>2 DEF Waiting
<1>13. QED
  BY <1>6, <1>7, <1>8, <1>9, <1>10, <1>11, <1>12 DEF WireInv

-----------------------------------------------------------------------------
(* The ends of an attempt.                                                 *)

(* What an answer adds to the past.                                        *)
PastGrows ==
    /\ UNCHANGED hostVars
    /\ ingested \subseteq ingested' /\ ingested' \subseteq Texts
    /\ refused \subseteq refused' /\ hooked \subseteq hooked'

(* What the server has or has refused, it keeps.                           *)
LEMMA SettledStays == PastGrows => Settled \subseteq Settled'
BY DEF PastGrows, Settled

(* The records in memory and in the store stay; the past may grow.         *)
LEMMA AnsweredStays ==
  ASSUME WireInv, PastGrows, UNCHANGED <<buffer, stored, confirmed, flushVars>>
  PROVE  Contents' /\ Fates' /\ Waiting'
<1>0. Contents /\ Fates /\ Waiting
  BY DEF WireInv
<1>1. /\ Emissions' = Emissions /\ Texts' = Texts /\ \A j : Items(j)' = Items(j)
      /\ {Origin(n) : n \in Emissions}' = {Origin(n) : n \in Emissions}
  BY EmittedSame, Zenon DEF PastGrows
<1>2. Contents'
  BY <1>0, <1>1 DEF Contents, PastGrows
<1>3. PartIds' = PartIds /\ Settled \subseteq Settled'
  BY SettledStays DEF PartIds, IdsIn
<1>4. LetGo'
  <2>1. confirmed' \subseteq Settled'
    BY <1>0, <1>3 DEF Fates
  <2>2. QED
    BY <1>0, <2>1 DEF Fates, LetGo, Settled
<1>5. Fates'
  BY <1>0, <1>1, <1>3, <1>4 DEF Fates
<1>6. Waiting'
  BY <1>0 DEF Waiting, PastGrows
<1>7. QED
  BY <1>2, <1>5, <1>6

(* The attempt is to be repeated.                                          *)
LEMMA SleepKeeps ==
  ASSUME WireInv, PastGrows, NEW s \in Senders, NEW seconds \in 0..MaxRetryAfter,
         pc[s] = "wire", attempt[s] + 1 # Attempts, Goto(s, "sleep"),
         attempt' = [attempt EXCEPT ![s] = @ + 1], delay' = [delay EXCEPT ![s] = seconds],
         UNCHANGED <<body, buffer, stored, flushVars, statVars, confirmed, used>>
  PROVE  WireInv'
<1>0. Control /\ Pushes /\ Bodies
  BY DEF WireInv
<1>1. pc' = [pc EXCEPT ![s] = "sleep"]
  BY DEF Goto
<1>2. Control'
  <2>1. attempt[s] + 1 \in 0..Attempts - 1
    BY <1>0, WireAssumption DEF Control
  <2>2. QED
    BY <1>0, <1>1, <2>1 DEF Control
<1>3. \A t \in Senders : pc'[t] = "idle" <=> pc[t] = "idle"
  BY <1>0, <1>1 DEF Control
<1>4. Pushes' /\ Bodies'
  BY <1>0, <1>3 DEF Pushes, Bodies, Senders
<1>5. Parts'
  BY <1>3, PartsStay DEF Senders, PastGrows
<1>6. QED
  BY <1>2, <1>4, <1>5, AnsweredStays DEF WireInv

(* A status push is over.                                                  *)
LEMMA PushEndsKeeps ==
  ASSUME WireInv, PastGrows, pc["status"] = "wire", NEW outcome, PushEnds(outcome)
  PROVE  WireInv'
<1>0. Control /\ Pushes /\ Bodies
  BY DEF WireInv
<1>1. /\ pc' = [pc EXCEPT !["status"] = "idle"] /\ body' = [body EXCEPT !["status"] = NoBody]
      /\ attempt' = [attempt EXCEPT !["status"] = 0] /\ delay' = delay
      /\ statusFailures' = IF outcome = "failed" THEN statusFailures + 1 ELSE 0
      /\ lastPush' = IF outcome = "failed" THEN "failed" ELSE "ok"
      /\ UNCHANGED <<buffer, stored, flushVars, sent, failed, confirmed, used>>
  BY DEF PushEnds, Ended, Goto
<1>2. Control'
  BY <1>0, <1>1, WireAssumption DEF Control, Senders
<1>3. Pushes'
  <2>1. pc'["status"] = "idle" /\ statusFailures + 1 <= used.detours /\ 0 <= used.detours
    BY <1>0, <1>1 DEF Pushes, Control, Senders
  <2>2. QED
    BY <1>0, <1>1, <2>1 DEF Pushes
<1>4. Bodies'
  BY <1>0, <1>1 DEF Bodies, NoBody, Senders
<1>5. Parts'
  <2>1. body'["flush"] = body["flush"] /\ pc'["flush"] = pc["flush"]
    BY <1>0, <1>1 DEF Bodies, Control, Senders
  <2>2. QED
    BY <1>1, <2>1, PartsStay DEF PastGrows
<1>6. QED
  BY <1>1, <1>2, <1>3, <1>4, <1>5, AnsweredStays DEF WireInv

(* The flush is over: nothing of the status task changes.                  *)
LEMMA FlushEndsFrame ==
  ASSUME WireInv, PastGrows, NEW outcome, FlushEnds(outcome)
  PROVE  Control' /\ Pushes' /\ Bodies' /\ Parts'
<1>0. Control /\ Pushes /\ Bodies /\ Parts
  BY DEF WireInv
<1>1. /\ pc' = [pc EXCEPT !["flush"] = "idle"] /\ body' = [body EXCEPT !["flush"] = NoBody]
      /\ attempt' = [attempt EXCEPT !["flush"] = 0] /\ delay' = delay
      /\ batch' = <<>> /\ todo' = <<>>
      /\ UNCHANGED <<statusFailures, lastPush, used>>
  BY DEF FlushEnds, Ended, Goto
<1>2. Len(batch) \in Nat
  BY <1>0 DEF Parts
<1>3. sent' \in Nat /\ failed' \in Nat
  <2>1. sent' \in {sent, sent + Len(batch)} /\ failed' \in {failed, failed + Len(batch)}
    BY DEF FlushEnds
  <2>2. QED
    BY <1>0, <1>2, <2>1 DEF Control
<1>4. Control'
  BY <1>0, <1>1, <1>3, WireAssumption DEF Control, Senders
<1>5. pc'["status"] = pc["status"] /\ body'["status"] = body["status"]
      /\ pc'["flush"] = "idle" /\ DOMAIN body' = Senders
  BY <1>0, <1>1 DEF Control, Bodies, Senders
<1>6. QED
  BY <1>0, <1>1, <1>4, <1>5 DEF Pushes, Bodies, Parts

(* A failed flush puts its batch back.                                     *)
LEMMA FlushFailsKeeps ==
  ASSUME WireInv, PastGrows, pc["flush"] = "wire", FlushEnds("failed")
  PROVE  WireInv'
<1>0. Contents /\ Parts /\ Fates /\ Waiting
  BY DEF WireInv
<1>1. PICK k \in Kind : batch \in Seq(Items(k)) \ {<<>>}
  BY <1>0 DEF Parts
<1>2. Head(batch).kind = k
  <2>1. Head(batch) \in Items(k)
    BY <1>1, HeadTailProperties
  <2>2. QED
    BY <2>1 DEF Items
<1>3. /\ batch' = <<>> /\ todo' = <<>>
      /\ buffer' = [buffer EXCEPT ![k] = batch \o @]
      /\ UNCHANGED <<stored, confirmed>>
  BY <1>2 DEF FlushEnds
<1>4. /\ Emissions' = Emissions /\ Texts' = Texts /\ \A j : Items(j)' = Items(j)
      /\ {Origin(n) : n \in Emissions}' = {Origin(n) : n \in Emissions}
  BY EmittedSame, Zenon DEF PastGrows
<1>5. buffer[k] \in Seq(Items(k))
  BY <1>0 DEF Contents
<1>6. batch \o buffer[k] \in Seq(Items(k)) /\ Ids(batch \o buffer[k]) = Ids(batch) \cup Ids(buffer[k])
  BY <1>1, <1>5, IdsConcat
<1>7. DOMAIN buffer' = Kind
      /\ \A j \in Kind : buffer'[j] = IF j = k THEN batch \o buffer[k] ELSE buffer[j]
  BY <1>0, <1>3 DEF Contents
<1>8. Contents'
  <2>1. \A j \in Kind : buffer'[j] \in Seq(Items(j))
    BY <1>0, <1>6, <1>7 DEF Contents
  <2>2. QED
    BY <1>0, <1>3, <1>4, <1>7, <2>1 DEF Contents, PastGrows
<1>9. PartIds' = {} /\ Ids(batch') = {} /\ Settled \subseteq Settled'
  BY <1>3, SettledStays DEF PartIds, IdsIn, Ids
<1>10. ASSUME NEW x \in stored
       PROVE  x.id \notin confirmed /\ (x.id \in Ids(buffer'[x.kind]) \/ ~Parses(x))
  <2>1. PICK n \in Emissions : x = OnWire(n) /\ x.id = n /\ x.kind \in Kind
    BY <1>0, StoredKind
  <2>2. x.id \notin confirmed /\ (x.id \in Ids(batch) \cup Ids(buffer[x.kind]) \/ ~Parses(x))
    BY <1>0 DEF Fates, LetGo
  <2>3. n \in Ids(batch) => x.kind = k
    BY <1>0, <1>1, <2>1, IdsOfItems DEF Contents
  <2>4. QED
    BY <1>6, <1>7, <2>1, <2>2, <2>3
<1>11. LetGo'
  <2>1. confirmed' \subseteq Settled'
    BY <1>0, <1>3, <1>9 DEF Fates
  <2>2. QED
    BY <1>3, <1>10, <2>1 DEF LetGo, Settled
<1>12. Fates'
  BY <1>0, <1>3, <1>4, <1>9, <1>11 DEF Fates
<1>13. Waiting'
  BY <1>0, <1>3, <1>6, <1>7, <1>9 DEF Waiting, PastGrows
<1>14. QED
  BY <1>8, <1>12, <1>13, FlushEndsFrame DEF WireInv

(* A batch all of which is settled is let go of.                           *)
LEMMA FlushConfirmsKeeps ==
  ASSUME WireInv, PastGrows, pc["flush"] = "wire", NEW outcome, outcome # "failed",
         FlushEnds(outcome), Ids(batch) \subseteq Settled'
  PROVE  WireInv'
<1>0. Contents /\ Parts /\ Fates /\ Waiting
  BY DEF WireInv
<1>1. /\ batch' = <<>> /\ todo' = <<>>
      /\ stored' = {json \in stored : json.id \notin Ids(batch)}
      /\ confirmed' = confirmed \cup Ids(batch) /\ buffer' = buffer
  BY DEF FlushEnds
<1>2. /\ Emissions' = Emissions /\ Texts' = Texts /\ \A j : Items(j)' = Items(j)
      /\ {Origin(n) : n \in Emissions}' = {Origin(n) : n \in Emissions}
  BY EmittedSame, Zenon DEF PastGrows
<1>3. Contents'
  <2>1. stored' \in SUBSET stored
    BY <1>1
  <2>2. IsFiniteSet(stored')
    BY <1>0, <2>1, FS_Subset DEF Contents
  <2>3. QED
    BY <1>0, <1>1, <1>2, <2>1, <2>2 DEF Contents, PastGrows
<1>4. PartIds' = {} /\ Ids(batch') = {} /\ Settled \subseteq Settled'
  BY <1>1, SettledStays DEF PartIds, IdsIn, Ids
<1>5. confirmed' \subseteq Settled' /\ confirmed' \subseteq Emissions'
  BY <1>0, <1>1, <1>2, <1>4, UsedIds DEF Fates
<1>6. LetGo'
  <2>1. ASSUME NEW x \in stored'
        PROVE  x.id \notin confirmed' /\ (x.id \in Ids(buffer[x.kind]) \/ ~Parses(x))
    BY <1>0, <1>1 DEF Fates, LetGo
  <2>2. QED
    BY <1>1, <1>5, <2>1 DEF LetGo, Settled
<1>7. Fates'
  BY <1>4, <1>5, <1>6 DEF Fates
<1>8. Waiting'
  BY <1>0, <1>1, <1>4 DEF Waiting, PastGrows
<1>9. QED
  BY <1>3, <1>7, <1>8, FlushEndsFrame DEF WireInv

(* The flush goes on with other parts that cover what is not settled.      *)
LEMMA SendPartsKeeps ==
  ASSUME WireInv, PastGrows, pc["flush"] = "wire", NEW k \in Kind, NEW parts,
         batch \in Seq(Items(k)) \ {<<>>}, parts \in Seq(Seq(Items(k)) \ {<<>>}), parts # <<>>,
         IdsIn(parts) \subseteq Ids(batch), Ids(batch) \subseteq IdsIn(parts) \cup Settled',
         SendParts(parts)
  PROVE  WireInv'
<1>0. Control /\ Pushes /\ Contents /\ Bodies /\ Fates /\ Waiting
  BY DEF WireInv
<1>1. /\ pc' = [pc EXCEPT !["flush"] = "wire"]
      /\ body' = [body EXCEPT !["flush"] = BatchBody(Head(parts))]
      /\ attempt' = [attempt EXCEPT !["flush"] = 0] /\ delay' = delay /\ todo' = parts
      /\ UNCHANGED <<buffer, stored, batch, statVars, confirmed, used>>
  BY DEF SendParts, Begin, Goto
<1>2. /\ Emissions' = Emissions /\ Texts' = Texts /\ \A j : Items(j)' = Items(j)
      /\ {Origin(n) : n \in Emissions}' = {Origin(n) : n \in Emissions}
  BY EmittedSame, Zenon DEF PastGrows
<1>3. Control'
  BY <1>0, <1>1, WireAssumption DEF Control, Senders
<1>4. /\ pc'["flush"] = "wire" /\ pc'["status"] = pc["status"]
      /\ body'["status"] = body["status"] /\ body'["flush"] = BatchBody(Head(parts))
      /\ DOMAIN body' = Senders
  BY <1>0, <1>1 DEF Control, Bodies, Senders
<1>5. Pushes' /\ Bodies'
  BY <1>0, <1>1, <1>4 DEF Pushes, Bodies
<1>6. Contents'
  BY <1>0, <1>1, <1>2 DEF Contents, PastGrows
<1>7. Parts'
  <2>1. BatchBody(Head(todo))' = BatchBody(Head(parts))
    BY <1>1 DEF BatchBody, BuildEncryptedBody, BuildBatchBody, ItemsValue, Encrypt, PastGrows
  <2>2. batch' \in Seq(Items(k)') \ {<<>>} /\ todo' \in Seq(Seq(Items(k)') \ {<<>>})
    BY <1>1, <1>2
  <2>3. QED
    BY <1>1, <1>4, <2>1, <2>2 DEF Parts
<1>8. PartIds' = IdsIn(parts) /\ Settled \subseteq Settled'
  BY <1>1, SettledStays DEF PartIds, IdsIn
<1>9. LetGo'
  <2>1. confirmed' \subseteq Settled'
    BY <1>0, <1>1, <1>8 DEF Fates
  <2>2. QED
    BY <1>0, <1>1, <2>1 DEF Fates, LetGo, Settled
<1>10. Fates'
  BY <1>0, <1>1, <1>2, <1>8, <1>9 DEF Fates
<1>11. Waiting'
  BY <1>0, <1>1 DEF Waiting, PastGrows
<1>12. QED
  BY <1>3, <1>5, <1>6, <1>7, <1>10, <1>11 DEF WireInv

(* The parts still to send: the first, and the others.                     *)
LEMMA IdsSplit ==
  ASSUME NEW S, NEW parts \in Seq(S), parts # <<>>
  PROVE  /\ Head(parts) \in S /\ Tail(parts) \in Seq(S)
         /\ IdsIn(parts) = Ids(Head(parts)) \cup IdsIn(Tail(parts))
         /\ Len(parts) = 1 => IdsIn(Tail(parts)) = {}
         /\ Len(parts) # 1 => Tail(parts) # <<>>
<1>1. /\ Head(parts) \in S /\ Tail(parts) \in Seq(S) /\ Head(parts) = parts[1]
      /\ Len(parts) \in Nat \ {0} /\ DOMAIN parts = 1..Len(parts)
      /\ Len(Tail(parts)) = Len(parts) - 1 /\ DOMAIN Tail(parts) = 1..(Len(parts) - 1)
      /\ \A i \in 1..(Len(parts) - 1) : Tail(parts)[i] = parts[i + 1]
  BY HeadTailProperties, LenProperties, EmptySeq
<1>2. ASSUME NEW i \in DOMAIN parts
      PROVE  Ids(parts[i]) \subseteq Ids(Head(parts)) \cup IdsIn(Tail(parts))
  <2>1. CASE i = 1
    BY <1>1, <2>1
  <2>2. CASE i # 1
    <3>1. i - 1 \in DOMAIN Tail(parts) /\ Tail(parts)[i - 1] = parts[i]
      BY <1>1, <2>2
    <3>2. QED
      BY <3>1 DEF IdsIn
  <2>3. QED
    BY <2>1, <2>2
<1>3. ASSUME NEW i \in DOMAIN Tail(parts) PROVE Ids(Tail(parts)[i]) \subseteq IdsIn(parts)
  <2>1. i + 1 \in DOMAIN parts /\ Tail(parts)[i] = parts[i + 1]
    BY <1>1
  <2>2. QED
    BY <2>1 DEF IdsIn
<1>4. Ids(Head(parts)) \subseteq IdsIn(parts)
  <2>1. 1 \in DOMAIN parts
    BY <1>1
  <2>2. QED
    BY <1>1, <2>1 DEF IdsIn
<1>5. IdsIn(parts) = Ids(Head(parts)) \cup IdsIn(Tail(parts))
  <2>1. IdsIn(parts) \subseteq Ids(Head(parts)) \cup IdsIn(Tail(parts))
    BY <1>2 DEF IdsIn
  <2>2. IdsIn(Tail(parts)) \subseteq IdsIn(parts)
    BY <1>3 DEF IdsIn
  <2>3. QED
    BY <1>4, <2>1, <2>2
<1>6. Len(parts) = 1 => IdsIn(Tail(parts)) = {}
  <2>1. Len(parts) = 1 => DOMAIN Tail(parts) = {}
    BY <1>1
  <2>2. QED
    BY <2>1 DEF IdsIn
<1>7. Len(parts) # 1 => Tail(parts) # <<>>
  <2>1. Len(parts) # 1 => Len(Tail(parts)) # 0
    BY <1>1
  <2>2. Tail(parts) = <<>> => Len(Tail(parts)) = 0
    BY EmptySeq, Zenon
  <2>3. QED
    BY <2>1, <2>2
<1>8. QED
  BY <1>1, <1>5, <1>6, <1>7

(* The identities in two lists of parts are those of either.               *)
LEMMA IdsInConcat ==
  ASSUME NEW S, NEW parts \in Seq(S), NEW others \in Seq(S)
  PROVE  /\ parts \o others \in Seq(S)
         /\ IdsIn(parts \o others) = IdsIn(parts) \cup IdsIn(others)
<1> DEFINE both == parts \o others
<1>1. /\ both \in Seq(S) /\ Len(parts) \in Nat /\ Len(others) \in Nat
      /\ DOMAIN parts = 1..Len(parts) /\ DOMAIN others = 1..Len(others)
      /\ DOMAIN both = 1..(Len(parts) + Len(others))
      /\ \A i \in 1..(Len(parts) + Len(others)) :
            both[i] = IF i <= Len(parts) THEN parts[i] ELSE others[i - Len(parts)]
  BY ConcatProperties, LenProperties
<1> HIDE DEF both
<1>2. ASSUME NEW i \in DOMAIN both
      PROVE  Ids(both[i]) \subseteq IdsIn(parts) \cup IdsIn(others)
  <2>1. CASE i <= Len(parts)
    <3>1. i \in DOMAIN parts /\ both[i] = parts[i]
      BY <1>1, <2>1
    <3>2. QED
      BY <3>1 DEF IdsIn
  <2>2. CASE ~(i <= Len(parts))
    <3>1. i - Len(parts) \in DOMAIN others /\ both[i] = others[i - Len(parts)]
      BY <1>1, <2>2
    <3>2. QED
      BY <3>1 DEF IdsIn
  <2>3. QED
    BY <2>1, <2>2
<1>3. ASSUME NEW i \in DOMAIN parts PROVE Ids(parts[i]) \subseteq IdsIn(both)
  <2>1. i \in DOMAIN both /\ both[i] = parts[i]
    BY <1>1
  <2>2. QED
    BY <2>1 DEF IdsIn
<1>4. ASSUME NEW i \in DOMAIN others PROVE Ids(others[i]) \subseteq IdsIn(both)
  <2>1. /\ Len(parts) + i \in DOMAIN both /\ ~(Len(parts) + i <= Len(parts))
        /\ (Len(parts) + i) - Len(parts) = i
    BY <1>1
  <2>2. both[Len(parts) + i] = others[i]
    BY <1>1, <2>1
  <2>3. QED
    BY <2>1, <2>2 DEF IdsIn
<1>5. /\ IdsIn(both) \subseteq IdsIn(parts) \cup IdsIn(others)
      /\ IdsIn(parts) \subseteq IdsIn(both) /\ IdsIn(others) \subseteq IdsIn(both)
  BY <1>2, <1>3, <1>4 DEF IdsIn
<1>6. QED
  BY <1>1, <1>5 DEF both

(* Halving a part of more than one item.                                   *)
LEMMA HalvesCover ==
  ASSUME NEW S, NEW items \in Seq(S), Len(items) > 1
  PROVE  /\ Halves(items) \in Seq(Seq(S) \ {<<>>}) /\ Halves(items) # <<>>
         /\ IdsIn(Halves(items)) = Ids(items)
<1> DEFINE mid == Len(items) \div 2
           one == SubSeq(items, 1, mid)
           two == SubSeq(items, mid + 1, Len(items))
<1>1. /\ Len(items) \in Nat /\ DOMAIN items = 1..Len(items)
      /\ \A i \in 1..Len(items) : items[i] \in S
  BY LenProperties, ElementOfSeq
<1>2. mid \in Nat /\ 1 <= mid /\ mid < Len(items)
  BY <1>1
<1> HIDE DEF mid
<1>3. /\ one \in Seq(S) /\ Len(one) = mid
      /\ \A i \in 1..mid : one[i] = items[i]
  BY <1>1, <1>2
<1>4. /\ two \in Seq(S) /\ Len(two) = Len(items) - mid
      /\ \A i \in 1..(Len(items) - mid) : two[i] = items[mid + i]
  <2> DEFINE m == mid + 1
             n == Len(items)
  <2>1. m \in Int /\ n \in Int /\ m <= n /\ n - m + 1 = n - mid
    BY <1>1, <1>2
  <2>2. \A i \in m..n : items[i] \in S
    BY <1>1, <1>2
  <2>3. \A i \in 1..(n - mid) : m + i - 1 = mid + i
    BY <1>1, <1>2
  <2> HIDE DEF m, n
  <2>4. /\ SubSeq(items, m, n) \in Seq(S)
        /\ Len(SubSeq(items, m, n)) = IF m <= n THEN n - m + 1 ELSE 0
        /\ \A i \in 1..n - m + 1 : SubSeq(items, m, n)[i] = items[m + i - 1]
    BY <2>1, <2>2, SubSeqProperties
  <2>5. QED
    BY <2>1, <2>3, <2>4 DEF m, n, two
<1>5. DOMAIN one = 1..mid /\ DOMAIN two = 1..(Len(items) - mid) /\ one # <<>> /\ two # <<>>
  <2>1. Len(one) # 0 /\ Len(two) # 0
    BY <1>1, <1>2, <1>3, <1>4
  <2>2. one # <<>> /\ two # <<>>
    BY <2>1, EmptySeq, Zenon
  <2>3. DOMAIN one = 1..Len(one) /\ DOMAIN two = 1..Len(two)
    BY <1>3, <1>4, LenProperties, Zenon
  <2>4. QED
    BY <1>3, <1>4, <2>2, <2>3
<1>6. Halves(items) = <<one, two>>
  BY DEF Halves, mid
<1> HIDE DEF one, two
<1>7. Ids(items) = Ids(one) \cup Ids(two)
  <2>1. ASSUME NEW i \in DOMAIN items PROVE items[i].id \in Ids(one) \cup Ids(two)
    <3>1. CASE i <= mid
      <4>1. i \in DOMAIN one /\ one[i] = items[i]
        BY <1>1, <1>2, <1>3, <1>5, <3>1
      <4>2. QED
        BY <4>1 DEF Ids
    <3>2. CASE ~(i <= mid)
      <4>1. i - mid \in DOMAIN two /\ mid + (i - mid) = i
        BY <1>1, <1>2, <1>5, <3>2
      <4>2. two[i - mid] = items[i]
        BY <1>4, <1>5, <4>1
      <4>3. QED
        BY <4>1, <4>2 DEF Ids
    <3>3. QED
      BY <3>1, <3>2
  <2>2. ASSUME NEW i \in DOMAIN one PROVE one[i].id \in Ids(items)
    <3>1. i \in DOMAIN items /\ one[i] = items[i]
      BY <1>1, <1>2, <1>3, <1>5
    <3>2. QED
      BY <3>1 DEF Ids
  <2>3. ASSUME NEW i \in DOMAIN two PROVE two[i].id \in Ids(items)
    <3>1. mid + i \in DOMAIN items /\ two[i] = items[mid + i]
      BY <1>1, <1>2, <1>4, <1>5
    <3>2. QED
      BY <3>1 DEF Ids
  <2>4. Ids(items) \subseteq Ids(one) \cup Ids(two)
    BY <2>1 DEF Ids
  <2>5. Ids(one) \subseteq Ids(items) /\ Ids(two) \subseteq Ids(items)
    BY <2>2, <2>3 DEF Ids
  <2>6. QED
    BY <2>4, <2>5
<1>8. IdsIn(<<one, two>>) = Ids(one) \cup Ids(two)
  BY DEF IdsIn
<1>9. <<one, two>> \in Seq(Seq(S) \ {<<>>}) /\ <<one, two>> # <<>>
  BY <1>3, <1>4, <1>5
<1>10. QED
  BY <1>6, <1>7, <1>8, <1>9

-----------------------------------------------------------------------------
(* Answers.                                                                *)

(* What a 2xx that is taken for a full success says is one: the server     *)
(* has all of it.                                                          *)
LEMMA AcceptedIsIngested ==
  ASSUME NEW all, NEW answer \in Answers
  PROVE  /\ \A items \in MayIngest(all, answer) : items \subseteq all
         /\ ClassifyAttempt(answer) = "accepted" => MayIngest(all, answer) = {all}
<1>1. \A items \in MayIngest(all, answer) : items \subseteq all
  BY DEF MayIngest
<1>2. ASSUME ClassifyAttempt(answer) = "accepted"
      PROVE  answer.status \in 201..299 \/ (answer.status = 200 /\ answer.ack \in {"success", "empty"})
  <2>1. answer.status \in Nat /\ answer.ack \in Ack
    BY ServerAssumption DEF Answers, Answer, Ack
  <2>2. ClassifyResponse(answer) = "accepted"
    BY <1>2 DEF ClassifyAttempt
  <2>3. CASE answer.status = 200
    BY <2>1, <2>2, <2>3 DEF ClassifyResponse, ParseAck, Ack
  <2>4. CASE answer.status # 200
    BY <2>1, <2>2, <2>4 DEF ClassifyResponse, NonRetryable
  <2>5. QED
    BY <2>3, <2>4
<1>3. QED
  BY <1>1, <1>2 DEF MayIngest

(* The pause before the next attempt.                                      *)
LEMMA PauseInRange ==
  ASSUME NEW answer \in Answers
  PROVE  /\ 1 \in 0..MaxRetryAfter
         /\ ClassifyAttempt(answer) = "rateLimited" =>
               Capped(ParseRetryAfter(answer.retryAfter)) \in 0..MaxRetryAfter
<1>1. 1 \in 0..MaxRetryAfter /\ MaxRetryAfter \in Nat
  BY WireAssumption
<1>2. answer.retryAfter = None \/ answer.retryAfter \in RetryAfterHeaders
  BY DEF Answers, Answer
<1>3. answer.retryAfter[1] = "int" => answer.retryAfter[2] \in Int
  BY <1>2, ServerAssumption DEF None
<1>4. ParseRetryAfter(answer.retryAfter) \in Nat
  BY <1>3 DEF ParseRetryAfter, DefaultRetryAfter
<1>5. QED
  BY <1>1, <1>4 DEF Capped

-----------------------------------------------------------------------------
(* An answer arrives.                                                      *)

(* The part in hand is settled: on to the next, or the batch is let go of. *)
LEMMA PartConfirmedKeeps ==
  ASSUME WireInv, PastGrows, pc["flush"] = "wire", NEW outcome, outcome # "failed",
         Ids(Head(todo)) \subseteq Settled', PartConfirmed(outcome)
  PROVE  WireInv'
<1>0. Parts /\ Fates
  BY DEF WireInv
<1>1. PICK k \in Kind : batch \in Seq(Items(k)) \ {<<>>} /\ todo \in Seq(Seq(Items(k)) \ {<<>>})
  BY <1>0 DEF Parts
<1>2. todo # <<>>
  BY <1>0 DEF Parts
<1>3. /\ Tail(todo) \in Seq(Seq(Items(k)) \ {<<>>})
      /\ IdsIn(todo) = Ids(Head(todo)) \cup IdsIn(Tail(todo))
      /\ Len(todo) = 1 => IdsIn(Tail(todo)) = {}
      /\ Len(todo) # 1 => Tail(todo) # <<>>
  BY <1>1, <1>2, IdsSplit
<1>4. /\ IdsIn(Tail(todo)) \subseteq Ids(batch)
      /\ Ids(batch) \subseteq IdsIn(Tail(todo)) \cup Settled'
  BY <1>0, <1>3, SettledStays DEF Fates, PartIds
<1>5. CASE Len(todo) = 1
  <2>1. FlushEnds(outcome)
    BY <1>5 DEF PartConfirmed
  <2>2. QED
    BY <1>3, <1>4, <1>5, <2>1, FlushConfirmsKeeps, Zenon
<1>6. CASE Len(todo) # 1
  <2>1. SendParts(Tail(todo))
    BY <1>6 DEF PartConfirmed
  <2>2. QED
    BY <1>1, <1>3, <1>4, <1>6, <2>1, SendPartsKeeps, Zenon
<1>7. QED
  BY <1>5, <1>6

(* A send that has failed, or fails now that its attempts are used up.     *)
LEMMA FailKeeps ==
  ASSUME WireInv, PastGrows, NEW s \in Senders, pc[s] = "wire", SendEnds(s, "failed")
  PROVE  WireInv'
<1>1. CASE s = "flush"
  BY <1>1, FlushFailsKeeps DEF SendEnds
<1>2. CASE s = "status"
  <2>1. PushEnds("failed")
    BY <1>2 DEF SendEnds
  <2>2. QED
    BY <1>2, <2>1, PushEndsKeeps
<1>3. QED
  BY <1>1, <1>2 DEF Senders

(* An attempt that may be repeated: a pause, or the send has failed.       *)
LEMMA RetryKeeps ==
  ASSUME WireInv, PastGrows, NEW s \in Senders, pc[s] = "wire",
         NEW seconds \in 0..MaxRetryAfter, Retry(s, seconds)
  PROVE  WireInv'
<1>1. CASE attempt[s] + 1 = Attempts
  <2>1. SendEnds(s, "failed")
    BY <1>1 DEF Retry
  <2>2. QED
    BY <2>1, FailKeeps
<1>2. CASE attempt[s] + 1 # Attempts
  BY <1>2, SleepKeeps DEF Retry
<1>3. QED
  BY <1>1, <1>2

(* What the request in flight holds: the records of the part in hand, or   *)
(* for a status push none.                                                 *)
LEMMA InFlight ==
  ASSUME WireInv, NEW s \in Senders, pc[s] = "wire"
  PROVE  LET all == Range(ServerItems(Request(body[s]))) IN
         /\ all \subseteq Texts
         /\ s = "flush" => {x.id : x \in all} = Ids(Head(todo))
<1>1. CASE s = "flush"
  <2>1. PICK k \in Kind : todo \in Seq(Seq(Items(k)) \ {<<>>})
    BY <1>1 DEF WireInv, Parts
  <2>2. todo # <<>> /\ body[s] = BatchBody(Head(todo))
    BY <1>1 DEF WireInv, Parts
  <2>3. Head(todo) \in Seq(Items(k)) /\ Head(todo) # <<>>
    BY <2>1, <2>2, IdsSplit
  <2>4. QED
    BY <2>2, <2>3, PartRead, Zenon DEF WireInv, Contents
<1>2. CASE s = "status"
  BY <1>2, PushOnWire DEF WireInv
<1>3. QED
  BY <1>1, <1>2 DEF Senders

(* One arm of the classification after the other.                          *)
LEMMA HandleKeeps ==
  ASSUME WireInv, UNCHANGED hostVars, NEW s \in Senders, pc[s] = "wire",
         NEW answer \in Answers,
         NEW items \in MayIngest(Range(ServerItems(Request(body[s]))), answer),
         ingested' = ingested \cup items, Handle(s, answer)
  PROVE  WireInv'
<1> DEFINE all == Range(ServerItems(Request(body[s])))
           class == ClassifyAttempt(answer)
<1>1. ingested \subseteq ingested' /\ ingested' \subseteq Texts
  <2>1. all \subseteq Texts /\ items \subseteq all
    BY InFlight, AcceptedIsIngested, Zenon
  <2>2. ingested \subseteq Texts
    BY DEF WireInv, Contents
  <2>3. QED
    BY <2>1, <2>2
<1>2. ASSUME Kept PROVE PastGrows
  BY <1>1, <1>2 DEF Kept, PastGrows
<1>3. CASE class = "accepted" /\ Kept
  <2>1. PastGrows
    BY <1>2, <1>3
  <2>2. CASE s = "flush"
    <3>1. PartConfirmed("accepted")
      BY <1>3, <2>2 DEF Handle
    <3>2. items = all
      BY <1>3, AcceptedIsIngested
    <3>3. Ids(Head(todo)) \subseteq Settled'
      <4>1. {x.id : x \in all} = Ids(Head(todo))
        BY <2>2, InFlight, Zenon
      <4>2. all \subseteq ingested'
        BY <3>2
      <4>3. QED
        BY <4>1, <4>2 DEF Settled
    <3>4. QED
      BY <2>1, <2>2, <3>1, <3>3, PartConfirmedKeeps
  <2>3. CASE s = "status"
    <3>1. PushEnds("accepted")
      BY <1>3, <2>3 DEF Handle
    <3>2. QED
      BY <2>1, <2>3, <3>1, PushEndsKeeps
  <2>4. QED
    BY <2>2, <2>3 DEF Senders
<1>4. CASE class = "partial" /\ Kept /\ SendEnds(s, "failed")
  BY <1>2, <1>4, FailKeeps
<1>5. CASE s = "flush" /\ DropPart("permanent")
  <2>1. PastGrows /\ Ids(Head(todo)) \subseteq Settled'
    BY <1>1, <1>5 DEF DropPart, FireHook, PastGrows, Settled
  <2>2. PartConfirmed("permanent")
    BY <1>5 DEF DropPart
  <2>3. QED
    BY <1>5, <2>1, <2>2, PartConfirmedKeeps
<1>6. CASE s = "status" /\ Kept /\ (PushEnds("permanent") \/ PushEnds("failed"))
  BY <1>2, <1>6, PushEndsKeeps
<1>7. CASE s = "flush" /\ Len(Head(todo)) > 1 /\ Kept /\ SendParts(Halves(Head(todo)) \o Tail(todo))
  <2>1. PastGrows
    BY <1>2, <1>7
  <2>2. PICK k \in Kind : batch \in Seq(Items(k)) \ {<<>>} /\ todo \in Seq(Seq(Items(k)) \ {<<>>})
    BY <1>7 DEF WireInv, Parts
  <2>3. todo # <<>>
    BY <1>7 DEF WireInv, Parts
  <2>4. /\ Head(todo) \in Seq(Items(k)) /\ Tail(todo) \in Seq(Seq(Items(k)) \ {<<>>})
        /\ IdsIn(todo) = Ids(Head(todo)) \cup IdsIn(Tail(todo))
    BY <2>2, <2>3, IdsSplit
  <2>5. /\ Halves(Head(todo)) \in Seq(Seq(Items(k)) \ {<<>>}) /\ Halves(Head(todo)) # <<>>
        /\ IdsIn(Halves(Head(todo))) = Ids(Head(todo))
    BY <1>7, <2>4, HalvesCover, Zenon
  <2> DEFINE parts == Halves(Head(todo)) \o Tail(todo)
  <2>6. /\ parts \in Seq(Seq(Items(k)) \ {<<>>}) /\ parts # <<>>
        /\ IdsIn(parts) = IdsIn(todo)
    <3>1. /\ parts \in Seq(Seq(Items(k)) \ {<<>>})
          /\ IdsIn(parts) = IdsIn(Halves(Head(todo))) \cup IdsIn(Tail(todo))
      <4> DEFINE S == Seq(Items(k)) \ {<<>>}
                 halves == Halves(Head(todo))
                 rest == Tail(todo)
      <4>1. halves \in Seq(S) /\ rest \in Seq(S)
        BY <2>4, <2>5, Zenon
      <4> HIDE DEF S, halves, rest
      <4>2. halves \o rest \in Seq(S) /\ IdsIn(halves \o rest) = IdsIn(halves) \cup IdsIn(rest)
        BY <4>1, IdsInConcat
      <4>3. QED
        BY <4>2, Zenon DEF S, halves, rest
    <3>2. parts # <<>>
      BY <2>4, <2>5
    <3>3. QED
      BY <2>4, <2>5, <3>1, <3>2, Zenon
  <2> HIDE DEF parts
  <2>7. IdsIn(parts) \subseteq Ids(batch) /\ Ids(batch) \subseteq IdsIn(parts) \cup Settled'
    BY <2>1, <2>6, SettledStays DEF WireInv, Fates, PartIds
  <2>8. SendParts(parts)
    BY <1>7 DEF parts
  <2>9. QED
    BY <1>7, <2>1, <2>2, <2>6, <2>7, <2>8, SendPartsKeeps, Zenon
<1>8. CASE class = "rateLimited" /\ Kept /\ Retry(s, Capped(ParseRetryAfter(answer.retryAfter)))
  BY <1>2, <1>8, PauseInRange, RetryKeeps
<1>9. CASE class = "retryable" /\ Kept /\ Retry(s, 1)
  BY <1>2, <1>9, PauseInRange, RetryKeeps
<1>10. QED
  BY <1>3, <1>4, <1>5, <1>6, <1>7, <1>8, <1>9 DEF Handle

(* An answer is classified and handled.                                    *)
LEMMA ReplyKeeps ==
  ASSUME WireInv, NEW s \in Senders, Reply(s)
  PROVE  WireInv'
<1>1. pc[s] = "wire" /\ UNCHANGED hostVars
  BY DEF Reply
<1>2. PICK answer \in Answers :
        /\ \E items \in MayIngest(Range(ServerItems(Request(body[s]))), answer) :
              ingested' = ingested \cup items
        /\ Handle(s, answer)
  BY DEF Reply
<1>3. PICK items \in MayIngest(Range(ServerItems(Request(body[s]))), answer) :
        ingested' = ingested \cup items
  BY <1>2
<1>4. QED
  BY <1>1, <1>2, <1>3, HandleKeeps

-----------------------------------------------------------------------------
(* The invariant.                                                          *)

(* The invariant holds at the start,                                       *)
LEMMA InitWire ==
  ASSUME Init
  PROVE  WireInv
<1>1. Control
  <2>1. 0 \in 0..Attempts - 1 /\ 0 \in 0..MaxRetryAfter
    BY WireAssumption
  <2>2. QED
    BY <2>1 DEF Init, Control
<1>11. Pushes
  <2>1. 0 \in 0..MaxDetours
    BY WireAssumption
  <2>2. pc["status"] = "idle"
    BY DEF Init, Senders
  <2>3. QED
    BY <2>1, <2>2 DEF Init, Pushes
<1>2. Contents
  <2>1. IsFiniteSet({})
    BY FS_EmptySet
  <2>2. QED
    BY <2>1 DEF Init, Contents
<1>3. Ids(<<>>) = {} /\ IdsIn(<<>>) = {}
  BY DEF Ids, IdsIn
<1>4. Parts /\ Bodies
  BY DEF Init, Parts, Bodies, NoBody, Senders
<1>5. Fates /\ Waiting
  BY <1>3 DEF Init, Fates, LetGo, PartIds, Waiting
<1>6. QED
  BY <1>1, <1>2, <1>4, <1>5, <1>11 DEF WireInv

(* after every step,                                                       *)
LEMMA StepWire ==
  ASSUME WireInv, [Next]_vars
  PROVE  WireInv'
<1>1. CASE UNCHANGED vars
  <2>1. UNCHANGED <<hostVars, buffer, stored, flushVars, serverVars, endVars>>
        /\ UNCHANGED <<pc, body, attempt, delay, statVars, used>>
    BY <1>1
  <2>2. Contents' /\ Fates' /\ Waiting'
    BY <2>1, RecordsStay
  <2>3. Parts'
    BY <2>1, PartsStay
  <2>4. QED
    BY <2>1, <2>2, <2>3 DEF WireInv, Control, Pushes, Bodies
<1>2. ASSUME NEW name \in DOMAIN Facade, Emit(name) \/ Report(name) PROVE WireInv'
  BY <1>2, EmitKeeps, ReportKeeps
<1>3. ASSUME NEW item \in spawned, SendRecord(item) PROVE WireInv'
  BY <1>3, SendRecordKeeps
<1>4. ASSUME NEW k \in Kind, Drain(k) PROVE WireInv'
  BY <1>4, DrainKeeps
<1>5. CASE PushStatus
  BY <1>5, PushStatusKeeps
<1>6. CASE CrashAndReload
  BY <1>6, CrashKeeps
<1>7. ASSUME NEW s \in Senders, Attempt(s) \/ Reply(s) PROVE WireInv'
  BY <1>7, AttemptKeeps, ReplyKeeps
<1>8. QED
  BY <1>1, <1>2, <1>3, <1>4, <1>5, <1>6, <1>7 DEF Next

(* and always.                                                             *)
LEMMA WireInvariant == Spec => []WireInv
<1>1. Init => WireInv
  BY InitWire
<1>2. WireInv /\ [Next]_vars => WireInv'
  BY StepWire
<1>3. QED
  BY <1>1, <1>2, PTL DEF Spec

-----------------------------------------------------------------------------
(* Theorems.                                                               *)

(* The pauses between attempts are durations the runtime takes, the queues *)
(* hold records of their own kind, and the flush has all of its batch in   *)
(* hand but for what the server has or has refused (agent.rs, transport.rs *)
(* send_with_retry and its splits).                                        *)
THEOREM WireTypes == Spec => []TypeOK
<1>1. WireInv => TypeOK
  <2> SUFFICES ASSUME WireInv PROVE TypeOK
    OBVIOUS
  <2>1. statusFailures \in 0..MaxDetours
    <3>1. used.detours \in 0..MaxDetours /\ statusFailures \in Nat
      BY DEF WireInv, Pushes
    <3>2. statusFailures <= used.detours
      BY <3>1 DEF WireInv, Pushes
    <3>3. QED
      BY <3>1, <3>2, WireAssumption
  <2>2. ASSUME NEW k \in Kind, NEW i \in DOMAIN buffer[k] PROVE buffer[k][i].kind = k
    <3>1. buffer[k] \in Seq(Items(k))
      BY DEF WireInv, Contents
    <3>2. buffer[k][i] \in Items(k)
      BY <3>1, LenProperties, ElementOfSeq
    <3>3. QED
      BY <3>2, Zenon DEF Items
  <2>3. Ids(batch) = PartIds \cup (Ids(batch) \cap (refused \cup {x.id : x \in ingested}))
    BY DEF WireInv, Fates, Settled
  <2>4. QED
    <3>1. Ids(batch) = (UNION {Ids(todo[i]) : i \in DOMAIN todo})
                          \cup (Ids(batch) \cap (refused \cup {x.id : x \in ingested}))
      BY <2>3, Zenon DEF PartIds, IdsIn
    <3>2. QED
      BY <2>1, <2>2, <3>1, Zenon DEF WireInv, Control, TypeOK
<1>2. QED
  BY <1>1, WireInvariant, PTL

(* What goes over the wire is what the server authenticates and reads: the *)
(* part in hand, unaltered but for redaction, and under encryption nothing *)
(* in clear (transport.rs attempt, build_batch_body, build_encrypted_body; *)
(* utils.rs redact_inner; signing.rs).                                     *)
THEOREM WireServerReads == Spec => []ServerReads
<1>1. WireInv => ServerReads
  <2> SUFFICES ASSUME WireInv, NEW s \in Senders, pc[s] = "wire"
               PROVE  LET q == Request(body[s])
                          items == ServerItems(q)
                      IN  /\ ~Gunzip(q).gzip /\ Authentic(q)
                          /\ s = "flush" =>
                               /\ [i \in DOMAIN items |-> items[i].id] =
                                     [i \in DOMAIN Head(todo) |-> Head(todo)[i].id]
                               /\ \A i \in DOMAIN items :
                                     Faithful(items[i], Facade[emitted[items[i].id]])
                               /\ cfg.encrypted => /\ q.url = "events/encrypted"
                                                   /\ q.bytes.content.clear = NoItems
    BY Zenon DEF ServerReads
  <2> DEFINE q == Request(body[s])
             items == ServerItems(q)
             part == Head(todo)
  <2>1. ~Gunzip(q).gzip /\ Gunzip(q) = Plain(body[s])
    BY DEF Gunzip, Request, MaybeCompress, Gzip, Plain
  <2>2. Authentic(q)
    <3>1. q.signature = SignPayload(Plain(body[s]))
      BY DEF Request
    <3>2. QED
      BY <2>1, <3>1 DEF Authentic, SignPayload
  <2>3. ASSUME s = "flush"
        PROVE  /\ [i \in DOMAIN items |-> items[i].id] = [i \in DOMAIN part |-> part[i].id]
               /\ \A i \in DOMAIN items : Faithful(items[i], Facade[emitted[items[i].id]])
               /\ cfg.encrypted => q.url = "events/encrypted" /\ q.bytes.content.clear = NoItems
    <3>1. PICK k \in Kind : todo \in Seq(Seq(Items(k)) \ {<<>>})
      BY <2>3 DEF WireInv, Parts
    <3>2. todo # <<>> /\ body[s] = BatchBody(part)
      BY <2>3 DEF WireInv, Parts
    <3>3. part \in Seq(Items(k)) /\ part # <<>>
      BY <3>1, <3>2, IdsSplit
    <3>4. emitted \in Seq(DOMAIN Facade)
      BY DEF WireInv, Contents
    <3>5. q = Request(BatchBody(part))
      BY <3>2, Zenon
    <3> HIDE DEF q, part
    <3>6. /\ items = [i \in DOMAIN part |-> ToJson(part[i])]
          /\ cfg.encrypted => q.url = "events/encrypted" /\ q.bytes.content.clear = NoItems
      BY <3>3, <3>5, PartOnWire, Zenon
    <3> HIDE DEF items
    <3>7. \A i \in DOMAIN part : part[i] \in Items(k)
      <4>1. DOMAIN part = 1..Len(part)
        BY <3>3, LenProperties
      <4>2. QED
        BY <3>3, <4>1, ElementOfSeq
    <3>8. \A i \in DOMAIN part : part[i].id \in Emissions /\ ToJson(part[i]) = OnWire(part[i].id)
      BY <3>4, <3>7, ItemFacts
    <3>9. \A i \in DOMAIN part : OnWire(part[i].id).id = part[i].id
      BY <3>4, <3>8, Identity
    <3>10. DOMAIN items = DOMAIN part
           /\ \A i \in DOMAIN part : items[i] = OnWire(part[i].id) /\ items[i].id = part[i].id
      BY <3>6, <3>8, <3>9
    <3>11. \A i \in DOMAIN part :
              Faithful(OnWire(part[i].id), Facade[emitted[part[i].id]])
      BY <3>4, <3>8, Unaltered, Zenon
    <3>12. \A i \in DOMAIN items : Faithful(items[i], Facade[emitted[items[i].id]])
      BY <3>10, <3>11, Zenon
    <3>13. [i \in DOMAIN items |-> items[i].id] = [i \in DOMAIN part |-> part[i].id]
      BY <3>10
    <3>14. QED
      BY <3>6, <3>12, <3>13
  <2>4. QED
    BY <2>1, <2>2, <2>3
<1>2. QED
  BY <1>1, WireInvariant, PTL

(* However often an event is sent, the server sees one key and one         *)
(* contents for it, and that key for no other (models.rs idempotency_key,  *)
(* FromJson after a reload).                                               *)
THEOREM WireEventsOnce == Spec => []EventsOnce
<1>1. WireInv => EventsOnce
  <2> SUFFICES ASSUME WireInv, NEW x \in ingested, NEW y \in ingested
               PROVE  /\ x.id = y.id => x = y
                      /\ x.kind = "events" /\ y.kind = "events" /\ x.key = y.key => x.id = y.id
    BY Zenon DEF EventsOnce
  <2>1. emitted \in Seq(DOMAIN Facade) /\ ingested \subseteq Texts
    BY DEF WireInv, Contents
  <2>2. PICK n \in Emissions : x = OnWire(n)
    BY <2>1 DEF Texts
  <2>3. PICK m \in Emissions : y = OnWire(m)
    BY <2>1 DEF Texts
  <2>4. /\ x.id = n /\ y.id = m
        /\ x.kind = "events" => x.key = n
        /\ y.kind = "events" => y.key = m
    BY <2>1, <2>2, <2>3, Identity
  <2>5. QED
    BY <2>2, <2>3, <2>4
<1>2. QED
  BY <1>1, WireInvariant, PTL

(* A record is let go of when the server has it, or has refused it and the *)
(* hook knows; one in the store is in memory too unless its JSON cannot be *)
(* read back (agent.rs flush and requeue, reload_from_redis).              *)
THEOREM WireLetGo == Spec => []LetGo
<1>1. WireInv => LetGo
  BY DEF WireInv, Fates
<1>2. QED
  BY <1>1, WireInvariant, PTL

(* A running agent that the health check calls unhealthy reports itself    *)
(* degraded, and failures in a row go with a last push that failed         *)
(* (agent.rs compute_status, health_check, push_status_once).              *)
THEOREM WireStatusHonest == Spec => []StatusHonest
<1>1. WireInv => StatusHonest
  <2> SUFFICES ASSUME WireInv PROVE StatusHonest
    OBVIOUS
  <2>1. Buffered \in Nat
    <3>1. buffer["events"] \in Seq(Items("events")) /\ buffer["metrics"] \in Seq(Items("metrics"))
      BY DEF WireInv, Contents, Kind
    <3>2. Len(buffer["events"]) \in Nat /\ Len(buffer["metrics"]) \in Nat
      BY <3>1, LenProperties
    <3>3. \A e, m \in Nat : e + m \in Nat
      OBVIOUS
    <3>4. QED
      BY <3>2, <3>3, Zenon DEF Buffered
  <2>2. sent \in Nat /\ failed \in Nat /\ BufferSize \in Nat
    BY WireAssumption DEF WireInv, Control
  <2>3. RateAbove(50) => RateAbove(10)
    BY <2>2 DEF RateAbove
  <2>4. Buffered * 100 >= BufferSize * 95 => Buffered * 100 >= BufferSize * 90
    BY <2>1, <2>2
  <2>5. ASSUME NEW open \in BOOLEAN, ~HealthCheck(open) PROVE ComputeStatus(open) = "degraded"
    <3>1. open \/ ~(Buffered * 100 < BufferSize * 95) \/ RateAbove(50)
      BY <2>5 DEF HealthCheck
    <3>2. ~(Buffered * 100 < BufferSize * 95) => Buffered * 100 >= BufferSize * 90
      BY <2>1, <2>2, <2>4
    <3>3. open \/ Buffered * 100 >= BufferSize * 90 \/ RateAbove(10)
      BY <2>3, <3>1, <3>2
    <3>4. QED
      BY <3>3 DEF ComputeStatus
  <2>6. QED
    BY <2>5 DEF StatusHonest, WireInv, Pushes
<1>2. QED
  BY <1>1, WireInvariant, PTL
=============================================================================
